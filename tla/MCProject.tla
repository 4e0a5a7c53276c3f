------------------------------- MODULE MCProject -------------------------------
(***************************************************************************)
(* Documents on their way into a project, on its home page and out of it:  *)
(* the page and the workspace it opens, the import and the export panes,   *)
(* the lines of a document, the text of one chapter of an EPUB, a whole    *)
(* EPUB, and the regions of one page.  All are explored; one behaviour is  *)
(* about one of them.                                                      *)
(***************************************************************************)
EXTENDS Workboard, ImportPane, ExportPane, MCDocumentLines, MCEpubMarkup, EpubBook, CropPlans, TLC

VARIABLE part

formatsVars == <<linesVars, markupVars, epubVars, cropsVars>>
panesVars == <<homeVars, importVars, exportPaneVars>>

-----------------------------------------------------------------------------
(* The home page: a scan may come before a text or a manga.                *)

MCTypes == <<{"text", "scanned_book"}, {"text", "manga"}>>
MCParagraphs == <<"t1", "t2">>
MCSetups == {{"translation"}, {"translation", "reading"}}

NoHome ==
  /\ BookInit /\ routes = {} /\ home = HomeOf(book, routes) /\ workspace = NoView
  /\ place = "home" /\ posted = FALSE
NoImport ==
  /\ disk = [f \in Files |-> Gone] /\ blocked = FALSE
  /\ chosen = NothingChosen /\ asked = {} /\ imported = NothingImported
NoExportPane ==
  /\ subject = [type |-> "text", format |-> "txt", complete |-> FALSE]
  /\ controls = Shut /\ wrote = NothingWritten

-----------------------------------------------------------------------------
(* Pages of 60 by 40 pixels: one to four regions at small distances, some  *)
(* in a row, some above each other, one inside another, one empty; and     *)
(* translations in which lines of words and of symbols change places.      *)

Box(x, y, w, h) == [x0 |-> x, y0 |-> y, x1 |-> x + w, y1 |-> y + h]
MCBoxes == {Box(0, 0, 6, 6), Box(16, 0, 6, 6), Box(33, 2, 5, 9), Box(54, 30, 6, 10), Box(20, 20, 20, 6),
            Box(26, 22, 4, 3), Box(2, 34, 50, 5)}
Words(n) == [i \in 1..n |-> "words"]
Faithful(kinds) == [i \in DOMAIN kinds |-> [of |-> i, is |-> kinds[i]]]
Plain(boxes) == [source |-> Words(Len(boxes)), boxes |-> boxes, answer |-> Faithful(Words(Len(boxes)))]
Kinds == {"words", "symbols"}
Shuffled ==
  {[source |-> s, boxes |-> SubSeq(<<Box(0, 0, 6, 6), Box(33, 2, 5, 9), Box(2, 34, 50, 5)>>, 1,
                                   Len(SelectSeq(s, LAMBDA k : k = "words"))),
    answer |-> [i \in 1..3 |-> [of |-> i, is |-> a[i]]]] : s \in [1..3 -> Kinds], a \in [1..3 -> Kinds]}
MCCropPages ==
  {Plain(boxes) : boxes \in UNION {[1..n -> MCBoxes] : n \in 1..3}}
    \cup {Plain(<<Box(0, 0, 6, 6), Box(12, 0, 6, 6), Box(14, 12, 6, 6), Box(33, 2, 5, 9)>>)} \cup Shuffled
    \cup {Plain(<<Box(0, 0, 6, 6), Box(10, 10, 0, 3)>>)}

-----------------------------------------------------------------------------
(* Small archives: with either table of contents or both, entries without  *)
(* a title, with a link or not, two entries with one title, a page of      *)
(* contents, images, a fallback in the spine, and an archive refused.      *)

Member(media, id) == [media |-> media, id |-> id]
Slot(text, heading, reading) == [text |-> text, heading |-> heading, reading |-> reading]
Entry(title, target, fragment) == [title |-> title, target |-> target, fragment |-> fragment]
One == Entry("One", "c1", None)
Two == Entry("Two", "c2", None)
Spacer == Entry("", None, None)
Unnamed == Entry("", "c1", "sec")
Novel ==
  [spine |-> <<<<Member("xhtml", "c1")>>, <<Member("raster", "i0"), Member("xhtml", "c2")>>>>,
   resources |-> <<Member("raster", "i0"), Member("css", "s"), Member("raster", "i1")>>,
   slots |-> [c1 |-> <<Slot("One", TRUE, FALSE), Slot("a", FALSE, FALSE), Slot("r", FALSE, TRUE), Slot("One", TRUE, FALSE)>>,
              c2 |-> <<Slot("Two", TRUE, FALSE), Slot("b", FALSE, FALSE)>>],
   links |-> <<>>, ncx |-> <<One, Spacer, Two>>, nav |-> <<>>, labels |-> <<"Page 1">>, title |-> "Book"]
MCArchives == {
  Novel,
  [Novel EXCEPT !.ncx = <<One, [One EXCEPT !.fragment = "end"], Two>>,
                !.nav = <<One, [One EXCEPT !.fragment = "end"], Two>>, !.title = ""],
  [Novel EXCEPT !.ncx = <<>>, !.nav = <<One, Spacer, Two>>],
  [Novel EXCEPT !.ncx = <<>>, !.nav = <<One, Unnamed, Two>>],
  [Novel EXCEPT !.ncx = <<One>>, !.links = <<[text |-> "a", target |-> "c1", fragment |-> "sec"]>>],
  [Novel EXCEPT !.spine = <<<<Member("other", "c1")>>>>]}

-----------------------------------------------------------------------------
NoLines == source = <<>> /\ chunks = <<>> /\ ragged = FALSE /\ exported = NoExport
NoMarkup == markup = [at |-> "none"]
NoEpub == epub = [at |-> "none"]
NoCrops == crops = [at |-> "none"]
NoFormats == NoLines /\ NoMarkup /\ NoEpub /\ NoCrops
NoPanes == NoHome /\ NoImport /\ NoExportPane

Init ==
  \/ part = "home" /\ HomeInit /\ NoImport /\ NoExportPane /\ NoFormats
  \/ part = "import" /\ ImportInit /\ NoHome /\ NoExportPane /\ NoFormats
  \/ part = "export" /\ ExportPaneInit /\ NoHome /\ NoImport /\ NoFormats
  \/ part = "lines" /\ LinesInit /\ NoMarkup /\ NoEpub /\ NoCrops /\ NoPanes
  \/ part = "markup" /\ MarkupInit /\ NoLines /\ NoEpub /\ NoCrops /\ NoPanes
  \/ part = "epub" /\ EpubInit /\ NoLines /\ NoMarkup /\ NoCrops /\ NoPanes
  \/ part = "crops" /\ CropsInit /\ NoLines /\ NoMarkup /\ NoEpub /\ NoPanes
Next ==
  /\ \/ part = "home" /\ HomeNext /\ UNCHANGED <<importVars, exportPaneVars, formatsVars>>
     \/ part = "import" /\ ImportNext /\ UNCHANGED <<homeVars, exportPaneVars, formatsVars>>
     \/ part = "export" /\ ExportPaneNext /\ UNCHANGED <<homeVars, importVars, formatsVars>>
     \/ part = "lines" /\ LinesNext /\ UNCHANGED <<markupVars, epubVars, cropsVars, panesVars>>
     \/ part = "markup" /\ MarkupNext /\ UNCHANGED <<linesVars, epubVars, cropsVars, panesVars>>
     \/ part = "epub" /\ EpubNext /\ UNCHANGED <<linesVars, markupVars, cropsVars, panesVars>>
     \/ part = "crops" /\ CropsNext /\ UNCHANGED <<linesVars, markupVars, epubVars, panesVars>>
  /\ UNCHANGED part
Spec == Init /\ [][Next]_<<part, panesVars, formatsVars>>

-----------------------------------------------------------------------------
\* What is exported is each line's own translation, or the source where there
\* is none, and plain answers are never refused, for every format and cut.
LinesAreKept == part = "lines" => NothingIsMisplaced /\ PlainAnswersAreExported

\* The lines cut from a chapter hold each of its texts once, and a paragraph takes
\* back each text of its translation once and in order; and whatever is exported
\* stands in its own place of the archive.
ChaptersAreKept ==
  /\ part = "markup" => SlotsAreWhole /\ TextIsKept
  /\ part = "epub" => ExportIsAligned

\* On a page that is drawn each line stands in its own region and over no other's.
CropsAreSound == part = "crops" => CropsAreApart /\ LinesStandInTheirRegions
===============================================================================
