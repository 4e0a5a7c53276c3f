------------------------------ MODULE EpubBook ------------------------------
(***************************************************************************)
(* An EPUB from import to export: what is read from the archive, the lines *)
(* its text becomes, and how the translated lines, the titles of the table *)
(* of contents and the images are put back into the members of the archive *)
(* (epub.py, container_reader.py, container_patch.py, nav_ops.py,          *)
(* slot_lines.py).  A text is a name; its translation remembers it.        *)
(***************************************************************************)
EXTENDS Naturals, FiniteSets, SequencesExt

CONSTANTS
  Archives,      \* [spine, resources, slots, links, ncx, nav, labels, title]
  MaxSteps       \* bound: steps of the user

VARIABLE epub    \* [at, archive, toc, strip, image, drawn, lines, file, steps]
epubVars == <<epub>>

None == "none"
Textual == {"xhtml", "svg"}
Spined == Textual \cup {"raster"}
NoTitle == [of |-> "", at |-> 0]
NoEpubLines == <<[of |-> None, at |-> 0]>>
NoFile == [chapters |-> <<>>, title |-> NoTitle, ncx |-> <<>>, nav |-> <<>>, labels |-> <<>>,
           links |-> <<>>, image |-> <<>>]

-----------------------------------------------------------------------------
(* Reading                                                                 *)

\* _resolve_spine_manifest_item: along the fallbacks of an item, the first that is
\* text, else the first that is an image, else the archive is refused.
Resolved(chain) ==
  LET Of(media) == SelectSeq(chain, LAMBDA item : item.media \in media)
  IN  IF Of(Textual) # <<>> THEN Of(Textual)[1]
      ELSE IF Of({"raster"}) # <<>> THEN Of({"raster"})[1] ELSE [media |-> None, id |-> None]

Readable(a) == \A i \in 1..Len(a.spine) : Resolved(a.spine[i]).media \in Spined

\* read_epub, do_import: the items of the spine, then the others, in order
EpubSources(a) ==
  [i \in 1..Len(a.spine) |-> Resolved(a.spine[i])]
  \o SelectSeq(a.resources, LAMBDA item :
       \A i \in 1..Len(a.spine) : item \notin ToSet(a.spine[i]))

\* _parse_nav_ol leaves out an item that has neither a title, a link nor children.
NavEntries(a) == SelectSeq(a.nav, LAMBDA label : label.title # "" \/ label.target # None)

\* _parse_ncx_toc, or else _parse_nav_toc
Toc(a) == IF a.ncx # <<>> THEN a.ncx ELSE NavEntries(a)

-----------------------------------------------------------------------------
(* Lines                                                                   *)

\* extract_text_from_xhtml: a ruby that has only a reading is no slot without it.
SlotsOf(a, id, strip) == SelectSeq(a.slots[id], LAMBDA slot : ~(strip /\ slot.reading))

\* _extract_image_embedded_lines of what was read last
ImageLines(image) == SubSeq(<<"first line", "second line">>, 1, image)

LinesOf(a, source, strip, image) ==
  IF source.media \in Textual
  THEN LET slots == SlotsOf(a, source.id, strip) IN [k \in 1..Len(slots) |-> slots[k].text]
  ELSE IF source.media = "raster" THEN ImageLines(image) ELSE <<>>

\* _flatten_toc_title_lines: an entry without a title has no line.
Titles(toc) == SelectSeq([i \in 1..Len(toc) |-> toc[i].title], LAMBDA title : title # "")

\* get_text: the sources, the title, the table of contents, the other labels
EpubText(a, toc, strip, image) ==
  FlattenSeq([i \in 1..Len(EpubSources(a)) |-> LinesOf(a, EpubSources(a)[i], strip, image)])
  \o (IF a.title = "" THEN <<>> ELSE <<a.title>>) \o Titles(toc) \o a.labels

-----------------------------------------------------------------------------
(* Export                                                                  *)

\* set_text: where the lines of a source start, and those of what comes after
StartOf(a, i, strip, image) ==
  Len(FlattenSeq([j \in 1..i - 1 |-> LinesOf(a, EpubSources(a)[j], strip, image)]))
TitleAt(a, strip, image) == StartOf(a, Len(EpubSources(a)) + 1, strip, image)
TocAt(a, strip, image) == TitleAt(a, strip, image) + (IF a.title = "" THEN 0 ELSE 1)

\* A mutant: an entry without a title takes a line as well.
TranslatedEach(a, toc, strip, image, lines) ==
  [i \in 1..Len(toc) |->
     IF toc[i].title = "" THEN NoTitle
     ELSE lines[TocAt(a, strip, image) + (IF i > Len(Titles(toc)) THEN 1 ELSE i)]]

\* _apply_toc_title_lines
TranslatedToc(a, toc, strip, image, lines) ==
  [i \in 1..Len(toc) |->
     IF toc[i].title = "" THEN NoTitle
     ELSE lines[TocAt(a, strip, image) + Len(Titles(SubSeq(toc, 1, i)))]]

\* _sync_translated_chapter_with_toc_titles: a heading that is a title of the table
\* for this chapter takes the translation of the title, the k-th the k-th.
Heading(a, toc, titles, id, k, translated) ==
  LET slot == a.slots[id][k]
      entries == SelectSeq([i \in 1..Len(toc) |-> i], LAMBDA i : toc[i].target = id /\ toc[i].title = slot.text)
      before == Cardinality({j \in 1..k - 1 : a.slots[id][j].heading /\ a.slots[id][j].text = slot.text})
  IN  IF ~slot.heading \/ entries = <<>> THEN translated
      ELSE titles[entries[IF before < Len(entries) THEN before + 1 ELSE Len(entries)]]

\* inject_translations_into_xhtml of the lines of a source; what is no slot stays.
Chapter(a, toc, i, strip, image, lines, titles) ==
  LET id == EpubSources(a)[i].id
      slots == a.slots[id]
      Slot(k) == Cardinality({j \in 1..k : ~(strip /\ slots[j].reading)})
  IN  [k \in 1..Len(slots) |->
         IF strip /\ slots[k].reading THEN [of |-> slots[k].text, at |-> 0]
         ELSE Heading(a, toc, titles, id, k, lines[StartOf(a, i, strip, image) + Slot(k)])]

\* sync_ncx_navpoints, sync_nav_ol_with_toc: the labels take the titles by their place.
Synced(labels, titles) ==
  [i \in 1..Len(labels) |-> IF i <= Len(titles) THEN titles[i] ELSE [of |-> labels[i].title, at |-> 0]]

\* _build_toc_title_maps, _sync_visible_toc_document_with_toc_titles: the link of a
\* page of contents takes the title of its target, else the only one of its file.
LinkTitle(toc, titles, link, translated) ==
  LET exact == SelectSeq([i \in 1..Len(toc) |-> i],
                 LAMBDA i : toc[i].target = link.target /\ toc[i].fragment = link.fragment)
      same == {titles[i] : i \in {i \in 1..Len(toc) : toc[i].target = link.target}}
  IN  IF exact # <<>> THEN titles[exact[1]]
      ELSE IF Cardinality(same) = 1 THEN CHOOSE title \in same : TRUE ELSE translated

\* _export_native_epub: what each member of the archive says
Exported(a, toc, strip, image, drawn, lines, original) ==
  LET titles == TranslatedToc(a, toc, strip, image, lines)
      Translated(text) == lines[CHOOSE i \in 1..Len(lines) : lines[i].of = text]
  IN  [chapters |-> [i \in {i \in 1..Len(EpubSources(a)) : EpubSources(a)[i].media \in Textual} |->
                       Chapter(a, toc, i, strip, image, lines, titles)],
       title |-> IF a.title = "" THEN NoTitle ELSE lines[TitleAt(a, strip, image) + 1],
       ncx |-> Synced(a.ncx, titles), nav |-> Synced(a.nav, titles),
       labels |-> [i \in 1..Len(a.labels) |-> lines[Len(lines) - Len(a.labels) + i]],
       links |-> [i \in 1..Len(a.links) |-> LinkTitle(toc, titles, a.links[i], Translated(a.links[i].text))],
       image |-> IF original THEN <<>> ELSE drawn]

-----------------------------------------------------------------------------
(* Steps                                                                   *)

EpubInit ==
  \E a \in Archives, strip \in BOOLEAN :
    epub = [at |-> "file", archive |-> a, toc |-> <<>>, strip |-> strip, image |-> 0,
            drawn |-> <<>>, lines |-> NoEpubLines, file |-> NoFile, steps |-> 0]

Imported == epub.at = "imported"
Step == epub.steps < MaxSteps

\* do_import in one transaction; the titles are read once, here.
Import ==
  /\ ~Imported /\ Readable(epub.archive)
  /\ epub' = [epub EXCEPT !.at = "imported", !.toc = Toc(epub.archive)]

\* process_ocr of an image, and a text typed over it (save_ocr); never with chunks
ReadImage(n) ==
  /\ Imported /\ Step /\ epub.lines = NoEpubLines
  /\ \E i \in 1..Len(EpubSources(epub.archive)) : EpubSources(epub.archive)[i].media = "raster"
  /\ epub' = [epub EXCEPT !.steps = @ + 1,
       !.image = n]

\* The text is added and all of its lines are translated.
TranslateEpub ==
  /\ Imported /\ epub.lines = NoEpubLines
  /\ LET text == EpubText(epub.archive, epub.toc, epub.strip, epub.image)
     IN  epub' = [epub EXCEPT !.lines = [i \in 1..Len(text) |-> [of |-> text[i], at |-> i]]]

\* The setting of the translator, changed at any time
ToggleRuby ==
  /\ Step
  /\ epub' = [epub EXCEPT !.strip = ~@, !.steps = @ + 1]

\* reset_document_stack leaves what was drawn.
Reset ==
  /\ Step /\ epub.lines # NoEpubLines
  /\ epub' = [epub EXCEPT !.lines = NoEpubLines, !.steps = @ + 1]

\* set_text, set_image_texts_only: the lines fit the document as it is read now.
Fits == epub.lines # NoEpubLines /\ Len(epub.lines) = Len(EpubText(epub.archive, epub.toc, epub.strip, epub.image))

\* reembed: an image that was drawn before is not drawn again.
Reembed ==
  /\ Fits /\ epub.drawn = <<>> /\ epub.image > 0
  /\ LET a == epub.archive
         i == CHOOSE i \in 1..Len(EpubSources(a)) : EpubSources(a)[i].media = "raster"
     IN  epub' = [epub EXCEPT !.drawn =
           [k \in 1..epub.image |-> epub.lines[StartOf(a, i, epub.strip, epub.image) + k].of]]

ExportEpub(original) ==
  /\ Fits
  /\ epub' = [epub EXCEPT !.file =
       Exported(epub.archive, epub.toc, epub.strip, epub.image, epub.drawn, epub.lines, original)]

EpubNext ==
  \/ Import \/ (\E n \in 0..2 : ReadImage(n)) \/ TranslateEpub \/ ToggleRuby \/ Reset \/ Reembed
  \/ \E original \in BOOLEAN : ExportEpub(original)
EpubSpec == EpubInit /\ [][EpubNext]_epubVars

-----------------------------------------------------------------------------
(* Properties                                                              *)

\* What is exported is a translation of what stood there: in every chapter, in the
\* title, in the labels, and in each table of contents that says, place by place, the
\* titles that were read; whatever the setting for rubies was when the text was cut
\* and is now.  A nav with an item that has neither a title, a link nor children does
\* not say them so: _parse_nav_ol leaves the item out, sync_nav_ol_with_toc counts it,
\* and the items after it get their neighbours' titles, the last keeps its own.
ExportIsAligned ==
  epub.file # NoFile =>
    LET a == epub.archive
        file == epub.file
        SaysTitles(labels) ==
          Len(labels) = Len(epub.toc) /\ \A i \in 1..Len(labels) : labels[i].title = epub.toc[i].title
        Says(exported, labels) == \A i \in 1..Len(labels) : exported[i].of = labels[i].title
    IN  /\ \A i \in DOMAIN file.chapters : \A k \in 1..Len(file.chapters[i]) :
             file.chapters[i][k].of = a.slots[EpubSources(a)[i].id][k].text
        /\ file.title.of = a.title
        /\ SaysTitles(a.ncx) => Says(file.ncx, a.ncx)
        /\ SaysTitles(a.nav) => Says(file.nav, a.nav)
        /\ \A i \in 1..Len(a.labels) : file.labels[i].of = a.labels[i]
        /\ file.image = SubSeq(<<"first line", "second line">>, 1, Len(file.image))

==============================================================================
