--------------------------- MODULE DocumentLines ---------------------------
(***************************************************************************)
(* The way of a document's text through lines: a format gives the text of  *)
(* its slots (cues, page elements, XHTML slots, pages) as one stream of    *)
(* lines, the chunker cuts it, every chunk comes back as lines, and on     *)
(* export the joined lines are dealt out to the slots again.  Nothing but  *)
(* the number of lines connects the two ends (documents/, translator.py,   *)
(* semantic_chunker.py, export_ops.py).                                    *)
(***************************************************************************)
EXTENDS Integers, Sequences, FiniteSets, FiniteSetsExt, SequencesExt

CONSTANTS
  Sources,    \* set of [format, slots]; a slot is a sequence of pieces (Pieces)
  MaxCuts,    \* bound: the cuts that the chunker makes
  MaxOdd      \* bound: the blocks of one answer that are not answered by one line

Newline == <<0, 1>>
OtherBreak == <<0, 2>>   \* U+2028 and the like: splitlines() breaks there, split("\n") does not
Compressed == <<0, 3>>   \* COMPRESSED_LINE_SENTINEL
Breaks == {Newline, OtherBreak}

\* A piece is one item as it was read: its words, and whether the text of the next goes on with it.
Formats == {"subtitle", "scan", "epub", "manga", "folder"}
ASSUME LinesAssumption ==
  /\ \A s \in Sources : s.format \in Formats /\ s.slots # <<>>
  /\ {MaxCuts, MaxOdd} \subseteq Nat

VARIABLES
  source,   \* the document
  chunks,   \* Seq of [text, translation], translation = <<>> while there is none
  ragged,   \* (history) an edit was saved that does not keep the line breaks of its chunk
  exported  \* [outcome, slots] of an export, as long as nothing changes

linesVars == <<source, chunks, ragged, exported>>

----------------------------------------------------------------------------
(* Text and lines.                                                         *)

Split(text, breaks) ==
  FoldLeft(LAMBDA lines, s : IF s \in breaks THEN Append(lines, <<>>)
                             ELSE [lines EXCEPT ![Len(lines)] = Append(@, s)], <<<<>>>>, text)
SplitLines(text) ==
  LET lines == Split(text, Breaks)
  IN IF Last(lines) = <<>> THEN Front(lines) ELSE lines
JoinLines(lines) ==
  FlattenSeq([i \in DOMAIN lines |-> IF i = 1 THEN lines[i] ELSE <<Newline>> \o lines[i]])
Blank(text) == \A i \in DOMAIN text : text[i] \in Breaks

\* An item that continues the one before is merged into it.
MergedPieces(pieces) ==
  FoldLeft(LAMBDA items, p : IF items # <<>> /\ Last(items).to /\ p.from /\ p.kind = Last(items).kind
                             THEN [items EXCEPT ![Len(items)] =
                                     [p EXCEPT !.from = @, !.text = Last(items).text \o
                                        (IF p.kind \in {"list", "table"} THEN <<Newline>> ELSE <<>>) \o p.text]]
                             ELSE Append(items, p), <<>>, pieces)
Slots(s) ==
  CASE s.format = "scan" -> [i \in DOMAIN MergedPieces(s.slots) |-> MergedPieces(s.slots)[i].text]
    [] s.format = "manga" -> SelectSeq([i \in DOMAIN s.slots |->
                               SelectSeq(s.slots[i], LAMBDA w : w # Newline)], LAMBDA t : ~Blank(t))
    [] OTHER -> s.slots
SlotLines(s, i) ==
  CASE s.format = "epub" -> IF SplitLines(Slots(s)[i]) = <<>> THEN <<<<>>>> ELSE SplitLines(Slots(s)[i])
    [] s.format = "scan" -> SplitLines(Slots(s)[i])
    [] OTHER -> Split(Slots(s)[i], {Newline})
\* get_text
Text(s) ==
  LET own == [i \in DOMAIN Slots(s) |-> JoinLines(SlotLines(s, i))]
  IN CASE s.format = "subtitle" -> JoinLines(FlattenSeq([i \in DOMAIN own |->
                                     IF i = 1 THEN <<own[i]>> ELSE <<<<>>, own[i]>>]))
       [] s.format = "folder" -> JoinLines(SelectSeq(own, LAMBDA t : t # <<>>))
       [] OTHER -> JoinLines(FlattenSeq([i \in DOMAIN Slots(s) |-> SlotLines(s, i)]))

----------------------------------------------------------------------------
(* Chunks and their translations.                                          *)

\* A chunk does not end in white space: the break before the next text is the next chunk's.
CutPlaces(text) == {c \in 1..(Len(text) - 1) : text[c] \notin Breaks}
Cut(text, cuts) ==
  LET ends == SetToSortSeq(cuts \cup {Len(text)}, <)
  IN [i \in DOMAIN ends |-> SubSeq(text, (IF i = 1 THEN 0 ELSE ends[i - 1]) + 1, ends[i])]
NewChunk(text) == [text |-> text, translation |-> <<>>]

(* A block is answered by one line, by more, or (its meaning being in its  *)
(* neighbour) by nothing; empty lines stay where they are.                 *)
OddAnswers(line) == {<<line, line>>, <<line, <<>>>>, <<<<Compressed>>>>}
Translations(text) ==
  LET lines == SplitLines(text)
      blocks == {i \in DOMAIN lines : lines[i] # <<>>}
  IN UNION {{JoinLines(FlattenSeq([i \in DOMAIN lines |-> IF i \in odd THEN answer[i] ELSE <<lines[i]>>])) :
               answer \in {a \in [odd -> UNION {OddAnswers(lines[i]) : i \in odd}] :
                             \A i \in odd : a[i] \in OddAnswers(lines[i])}} :
             odd \in UNION {kSubset(n, blocks) : n \in 0..MaxOdd}}

IsTranslated(c) == c.translation # <<>>
LineCount(text) == IF Blank(text) THEN 0 ELSE Len(SplitLines(text))
\* What a reviewer makes of a chunk: its text with an empty line at the end, without the break at
\* the beginning, or nothing.
EditedTexts(text) ==
  {text \o <<Newline>>, <<>>} \cup (IF Head(text) = Newline THEN {Tail(text) \o <<Newline>>} ELSE {})
KeepsBreaks(old, new) ==
  /\ Len(Split(old, {Newline})) = Len(Split(new, {Newline}))
  /\ Head(old) = Newline => Head(new) = Newline

----------------------------------------------------------------------------
(* The lines come back to the slots.                                       *)

NoExport == [outcome |-> "none", slots |-> <<>>]
Refused == [outcome |-> "refused", slots |-> <<>>]
Placed(slots) == [outcome |-> "done", slots |-> slots]

Sizes(s) == [i \in DOMAIN Slots(s) |-> Len(SlotLines(s, i))]
Before(sizes, i) == FoldLeft(+, 0, SubSeq(sizes, 1, i - 1))
Slices(lines, sizes) ==
  [i \in DOMAIN sizes |-> LET first == Before(sizes, i) IN
     SubSeq(lines, first + 1, IF first + sizes[i] > Len(lines) THEN Len(lines) ELSE first + sizes[i])]

\* Scanned pages and books: as many lines as there were, or nothing.
Counted(lines, sizes) ==
  IF Len(lines) # Before(sizes, Len(sizes) + 1) THEN Refused ELSE Placed(Slices(lines, sizes))

\* A mutant: what follows the lines of a cue is not looked for.
TakeCueExactly(rest, size, isLast) ==
  [cue |-> SubSeq(rest, 1, size), rest |-> SubSeq(rest, size + 2, Len(rest))]
\* A cue takes as many lines as it had, what follows them up to the next empty line, and that line.
TakeCue(rest, size, isLast) ==
  LET stop == CHOOSE n \in (size + 1)..(Len(rest) + 1) :
                /\ n = Len(rest) + 1 \/ rest[n] = <<>>
                /\ \A m \in (size + 1)..(n - 1) : rest[m] # <<>>
  IN IF isLast THEN [cue |-> SubSeq(rest, 1, size) \o
                              SelectSeq(SubSeq(rest, size + 1, Len(rest)), LAMBDA l : l # <<>>),
                     rest |-> <<>>]
     ELSE [cue |-> SubSeq(rest, 1, stop - 1), rest |-> SubSeq(rest, stop + 1, Len(rest))]
Timed(lines, sizes) ==
  LET deal == FoldLeft(LAMBDA d, i :
                IF ~d.ok \/ Len(d.rest) < sizes[i] THEN [d EXCEPT !.ok = FALSE]
                ELSE LET t == TakeCue(d.rest, sizes[i], i = Len(sizes))
                     IN [ok |-> TRUE, rest |-> t.rest, cues |-> Append(d.cues, t.cue)],
                [ok |-> TRUE, rest |-> lines, cues |-> <<>>], [i \in DOMAIN sizes |-> i])
  IN IF deal.ok THEN Placed(deal.cues) ELSE Refused

\* The files of a folder, by the lines that each was counted to have
FileLines(text) ==
  Len(SelectSeq(text, LAMBDA w : w = Newline)) + (IF text # <<>> /\ Last(text) # Newline THEN 1 ELSE 0)

\* get_translated_lines, and the lines with the original of what is not translated
ExportLines ==
  IF source.format = "manga"
  THEN [k \in DOMAIN chunks |-> chunks[k].translation]
  ELSE Split(FlattenSeq([k \in DOMAIN chunks |->
               IF IsTranslated(chunks[k]) THEN chunks[k].translation ELSE chunks[k].text]), {Newline})
Dealt(lines) ==
  CASE source.format \in {"scan", "epub"} -> Counted(lines, Sizes(source))
    [] source.format = "subtitle" -> Timed(lines, Sizes(source))
    [] source.format = "folder" ->
         Placed(Slices(lines, [i \in DOMAIN source.slots |-> FileLines(source.slots[i])]))
    [] OTHER -> Placed([i \in DOMAIN Slots(source) |-> <<lines[i]>>])

----------------------------------------------------------------------------
LinesInit ==
  /\ source \in Sources
  /\ chunks = <<>> /\ ragged = FALSE /\ exported = NoExport

ChunkText ==
  /\ chunks = <<>>
  /\ IF source.format = "manga"
     THEN chunks' = [i \in DOMAIN Slots(source) |-> NewChunk(Slots(source)[i])]
     ELSE LET text == Text(source) IN
          \E n \in 0..MaxCuts : \E cuts \in kSubset(n, CutPlaces(text)) : LET parts == Cut(text, cuts) IN
            chunks' = [i \in DOMAIN parts |-> NewChunk(parts[i])]
  /\ UNCHANGED <<source, ragged, exported>>

\* A run translates a chunk, or a reviewer has it translated again.
Translate(k) ==
  /\ \E t \in Translations(chunks[k].text) : chunks' = [chunks EXCEPT ![k].translation = t]
  /\ exported' = NoExport
  /\ UNCHANGED <<source, ragged>>

SaveLine(k) ==
  \E t \in EditedTexts(chunks[k].text) :
    /\ source.format = "manga" \/ LineCount(chunks[k].text) \in {0, LineCount(t)}
    /\ chunks' = [chunks EXCEPT ![k].translation = IF Blank(t) THEN <<>> ELSE t]
    /\ ragged' = (ragged \/ (~Blank(t) /\ ~KeepsBreaks(chunks[k].text, t)))
    /\ exported' = NoExport /\ UNCHANGED source

Export(withOriginal) ==
  /\ chunks # <<>>
  /\ withOriginal \/ \A k \in DOMAIN chunks : IsTranslated(chunks[k])
  /\ exported' = Dealt(ExportLines)
  /\ UNCHANGED <<source, chunks, ragged>>

LinesNext ==
  \/ ChunkText
  \/ \E k \in DOMAIN chunks : Translate(k)
  \/ \E k \in DOMAIN chunks : SaveLine(k)
  \/ \E withOriginal \in BOOLEAN : Export(withOriginal)

LinesSpec == LinesInit /\ [][LinesNext]_linesVars

----------------------------------------------------------------------------
(* The text does not end in an empty line (splitlines() drops it), and no  *)
(* cue has an empty line of its own (it looks like the end of the cue).    *)
Regular(s) ==
  /\ Text(s) # <<>> /\ Last(Text(s)) # Newline
  /\ s.format = "subtitle" => \A i \in DOMAIN s.slots : <<>> \notin Range(SlotLines(s, i))
WordsIn(lines) == (UNION {Range(lines[i]) : i \in DOMAIN lines}) \ (Breaks \cup {Compressed})
\* Every slot has words of its own alone, and no word of the translation is lost.
WellPlaced ==
  LET words == [i \in DOMAIN exported.slots |-> WordsIn(exported.slots[i])]
  IN /\ \A i \in DOMAIN Slots(source) : words[i] \subseteq Range(Slots(source)[i])
     /\ UNION Range(words) = WordsIn(ExportLines)

(* An export either puts into every slot of a subtitle, a scan, a book or a *)
(* manga the translation of that slot and nothing else, or it is refused:   *)
(* whatever the answers looked like, wherever the text was cut, and with    *)
(* chunks still untranslated.  Edits that move line breaks are excepted     *)
(* (ocr_content.py:162-171, subtitle.py:236-283, epub.py:2105-2116).        *)
NothingIsMisplaced ==
  exported.outcome = "done" /\ Regular(source) /\ ~ragged /\ source.format # "folder" => WellPlaced

(* When every block was answered by one line or none, the export is not     *)
(* refused: the cuts of the chunker, in the middle of a line or of a slot,  *)
(* neither add nor lose one (semantic_chunker.py:75-84, translator.py:243). *)
PlainAnswersAreExported ==
  exported.outcome = "refused" /\ Regular(source) /\ ~ragged =>
    \E k \in DOMAIN chunks : IsTranslated(chunks[k]) /\
      Len(Split(chunks[k].translation, {Newline})) # Len(Split(chunks[k].text, {Newline}))
============================================================================
