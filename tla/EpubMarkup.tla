----------------------------- MODULE EpubMarkup -----------------------------
(***************************************************************************)
(* The text of an EPUB chapter: the slots its elements give, the markers   *)
(* that stand for inline elements in a slot that merges them, what the     *)
(* translator accepts as a translation of such a slot, and how it is put   *)
(* back into the elements (epub_xhtml_utils.py, inline_markers.py,         *)
(* translator.py).  Every text is there or not; attributes are left out.   *)
(***************************************************************************)
EXTENDS Naturals, FiniteSets, SequencesExt

CONSTANTS
  Chapters,      \* trees: [tag, up], the parent of every element (0: the body), in preorder
  MergedBlocks,    \* those a translation is put back into
  Foreign,       \* markers of other paragraphs that a translation may hold
  MaxMarkers     \* bound: markers of a translation that is not the expected one

Blocks == {"p", "div"}
Styles == {"b", "i"}
Annotations == {"rt"}

VARIABLE markup  \* [at, chapter, texts, strip, slots, answer, result]
markupVars == <<markup>>

BlankAnswer == [markers |-> <<>>, blank |-> TRUE]   \* a line that is compressed into another

-----------------------------------------------------------------------------
(* Slots                                                                   *)

Nodes(t) == 1..Len(t.tag)
Kids(t, n) == SelectSeq([m \in Nodes(t) |-> m], LAMBDA m : t.up[m] = n)
OverKids(t, n, Of(_)) == FlattenSeq([i \in 1..Len(Kids(t, n)) |-> Of(Kids(t, n)[i])])
BlockKids(t, n) == {m \in Nodes(t) : t.up[m] = n /\ t.tag[m] \in Blocks}
RECURSIVE Within(_, _, _)
Within(t, n, m) == m # 0 /\ (t.up[m] = n \/ Within(t, n, t.up[m]))
TextOf(n) == <<n, "text">>
TailOf(n) == <<n, "tail">>
If(p, texts) == IF p \in texts THEN <<p>> ELSE <<>>

\* _collect_ruby_text, stripped of blanks: the base, and the reading unless it is left out
RubyText(t, n, texts, strip) ==
  \/ TextOf(n) \in texts
  \/ ~strip /\ \E m \in Nodes(t) : t.up[m] = n /\ t.tag[m] = "rt" /\ TextOf(m) \in texts

\* _iter_translatable_slots
RECURSIVE Pieces(_, _, _, _, _)
Pieces(t, n, skip, texts, strip) ==
  LET OfKid(m) ==
        IF t.tag[m] = "ruby" THEN
          (IF RubyText(t, m, texts, strip) THEN <<<<m, "ruby">>>> ELSE <<>>) \o If(TailOf(m), texts)
        ELSE IF t.tag[m] \in Annotations THEN <<>>
        ELSE (IF skip /\ t.tag[m] \in Blocks THEN <<>> ELSE Pieces(t, m, skip, texts, strip))
             \o If(TailOf(m), texts)
  IN  If(TextOf(n), texts) \o OverKids(t, n, OfKid)

\* A mutant: the blocks in a block that has blocks of its own are not left to themselves.
RECURSIVE RootsTwice(_, _)
RootsTwice(t, n) ==
  IF n # 0 /\ t.tag[n] \in Blocks /\ BlockKids(t, n) = {} THEN <<[node |-> n, skip |-> FALSE]>>
  ELSE (IF n # 0 /\ t.tag[n] \in Blocks THEN <<[node |-> n, skip |-> FALSE]>> ELSE <<>>)
       \o OverKids(t, n, LAMBDA m : RootsTwice(t, m))

\* _iter_block_slot_roots: a block, then the blocks below it when it has some of its own
RECURSIVE Roots(_, _)
Roots(t, n) ==
  IF n # 0 /\ t.tag[n] \in Blocks /\ BlockKids(t, n) = {} THEN <<[node |-> n, skip |-> FALSE]>>
  ELSE (IF n # 0 /\ t.tag[n] \in Blocks THEN <<[node |-> n, skip |-> TRUE]>> ELSE <<>>)
       \o OverKids(t, n, LAMBDA m : Roots(t, m))

\* _is_merge_inline_candidate
Merges(t, root, texts, strip) ==
  /\ ~root.skip
  /\ \A m \in Nodes(t) : Within(t, root.node, m) => t.tag[m] \notin Blocks
  /\ Len(Pieces(t, root.node, FALSE, texts, strip)) > 1

\* _build_merged_inline_plan: the markers, with a text after each
RECURSIVE Markers(_, _)
Markers(t, n) ==
  LET Marker(at, m) == [at |-> at, tag |-> t.tag[m], node |-> m]
      OfKid(m) == IF t.tag[m] \in Annotations THEN <<>>
                  ELSE IF t.tag[m] = "br" THEN <<Marker("br", m)>>
                  ELSE <<Marker("open", m)>> \o (IF t.tag[m] = "ruby" THEN <<>> ELSE Markers(t, m))
                       \o <<Marker("close", m)>>
  IN  OverKids(t, n, OfKid)
PlaceOf(marker) ==
  IF marker.at # "open" THEN TailOf(marker.node)
  ELSE IF marker.tag = "ruby" THEN <<marker.node, "ruby">> ELSE TextOf(marker.node)

\* _collect_translatable_slots: the places each slot holds
ChapterSlots(t, texts, strip) ==
  LET Held(p) == p \in texts \/ (p[2] = "ruby" /\ RubyText(t, p[1], texts, strip))
      OfRoot(root) ==
        IF Merges(t, root, texts, strip)
        THEN <<SelectSeq(<<TextOf(root.node)>>
                 \o [i \in 1..Len(Markers(t, root.node)) |-> PlaceOf(Markers(t, root.node)[i])], Held)>>
        ELSE LET ps == Pieces(t, root.node, root.skip, texts, strip) IN [i \in 1..Len(ps) |-> <<ps[i]>>]
      roots == Roots(t, 0)
  IN  FlattenSeq([i \in 1..Len(roots) |-> OfRoot(roots[i])])

-----------------------------------------------------------------------------
(* The markers of a translation                                            *)

\* strict_inline_markers: those of elements that are not a style
Lenient(marker) == marker.tag \in Styles \cup {"br", "ruby"}
Strict(markers) == SelectSeq(markers, LAMBDA m : ~Lenient(m))

\* validate_inline_marker_sanity: elements and rubies are each closed in order,
\* whatever the order of one to the other.
Sane(markers) ==
  LET Refused == <<[at |-> "refused", tag |-> "none", node |-> 0]>>
      Closed(tags) ==
        FoldLeft(LAMBDA stack, m :
                   IF stack = Refused THEN stack
                   ELSE IF m.at = "open" THEN <<m>> \o stack
                   ELSE IF Len(stack) > 0 /\ stack[1].node = m.node /\ stack[1].tag = m.tag THEN Tail(stack)
                   ELSE Refused,
                 <<>>, SelectSeq(markers, LAMBDA m : m.tag \in tags))
  IN  Closed({"ruby"}) = <<>> /\ Closed(Styles \cup {"a"}) = <<>>

\* _validate_inline_marker_preservation of one line: what an answer must keep
Accepted(expected, markers) == Sane(markers) /\ Strict(markers) = Strict(expected)

\* _lenient_token_kind_and_path, without the path
Kind(marker) == <<marker.at, marker.tag>>

\* _align_lenient_token_run: a longest common subsequence of the kinds
AlignedRun(expected, actual) ==
  LET rows == Len(expected)
      cols == Len(actual)
      Same(r, c) == Kind(expected[r]) = Kind(actual[c])
      lcs[r \in 1..rows + 1, c \in 1..cols + 1] ==
        IF r > rows \/ c > cols THEN 0
        ELSE IF Same(r, c) THEN 1 + lcs[r + 1, c + 1]
        ELSE IF lcs[r + 1, c] > lcs[r, c + 1] THEN lcs[r + 1, c] ELSE lcs[r, c + 1]
      pairs[r \in 1..rows + 1, c \in 1..cols + 1] ==
        IF r > rows \/ c > cols THEN {}
        ELSE IF Same(r, c) THEN {<<r, c>>} \cup pairs[r + 1, c + 1]
        ELSE IF lcs[r + 1, c] >= lcs[r, c + 1] THEN pairs[r + 1, c] ELSE pairs[r, c + 1]
  IN  pairs[1, 1]

\* _build_token_alignment: the strict markers as they are, the others run by run
Alignment(expected, actual) ==
  LET StrictAt(ms) == <<0>> \o SelectSeq([i \in 1..Len(ms) |-> i], LAMBDA i : ~Lenient(ms[i]))
                      \o <<Len(ms) + 1>>
      e == StrictAt(expected)
      a == StrictAt(actual)
      Run(k) == {<<e[k] + p[1], a[k] + p[2]>> :
                   p \in AlignedRun(SubSeq(expected, e[k] + 1, e[k + 1] - 1), SubSeq(actual, a[k] + 1, a[k + 1] - 1))}
  IN  {<<e[k], a[k]>> : k \in 2..Len(e) - 1} \cup UNION {Run(k) : k \in 1..Len(e) - 1}

-----------------------------------------------------------------------------
(* A translation is put back.  Its texts are the numbers 0 .. of the       *)
(* markers before them; the result is a sequence of texts and markers.     *)

\* _align_lenient_segments_to_expected: the texts after the expected marker k; a
\* text after a marker that matches none goes where the next match is about to be.
Assigned(expected, actual, pairs, k) ==
  LET Extra(i) ==
        /\ \A p \in pairs : p[2] # i
        /\ LET later == {p[1] : p \in {p \in pairs : p[2] > i}}
           IN  k = IF later = {} THEN Len(expected) ELSE (CHOOSE e \in later : \A f \in later : e <= f) - 1
  IN  (IF k = 0 THEN <<0>> ELSE SelectSeq([i \in 1..Len(actual) |-> i], LAMBDA i : <<k, i>> \in pairs))
      \o SelectSeq([i \in 1..Len(actual) |-> i], Extra)

\* The lenient elements that have lost each of their markers
Dropped(expected, pairs) ==
  LET Omitted(i) == \A p \in pairs : p[1] # i
  IN  {m.node : m \in {m \in ToSet(expected) :
         Lenient(m) /\ \A i \in 1..Len(expected) : expected[i].node = m.node => Omitted(i)}}

Piece(what, x) == [what |-> what, x |-> x]
AsItems(texts) == [i \in 1..Len(texts) |-> Piece("text", texts[i])]
Inside(t, drops, node) == node \in drops \/ \E d \in drops : Within(t, d, node)

\* A mutant: an element goes with the text that follows it.
RemovedWithTail(t, expected, texts, drops) ==
  LET Kept(k) == k = 0 \/ ~Inside(t, drops, expected[k].node)
  IN  FlattenSeq([k \in 1..Len(expected) + 1 |->
        IF Kept(k - 1)
        THEN (IF k = 1 THEN <<>> ELSE <<Piece("marker", expected[k - 1])>>) \o AsItems(texts[k - 1])
        ELSE <<>>])

\* _remove_lenient_nodes: an element goes with all it holds; the text that follows
\* it joins the text before it.
Removed(t, expected, texts, drops) ==
  LET Gone(k) == k > 0 /\ Inside(t, drops, expected[k].node)
      Stays(k) == ~Gone(k) \/ (expected[k].at # "open"
                               /\ ~\E d \in drops : Within(t, d, expected[k].node))
  IN  FlattenSeq([k \in 1..Len(expected) + 1 |->
        (IF k = 1 \/ Gone(k - 1) THEN <<>> ELSE <<Piece("marker", expected[k - 1])>>)
        \o (IF Stays(k - 1) THEN AsItems(texts[k - 1]) ELSE <<>>)])

\* _apply_aligned_merged_segments
Applied(t, expected, actual) ==
  LET pairs == Alignment(expected, actual)
      texts == [k \in 0..Len(expected) |-> Assigned(expected, actual, pairs, k)]
  IN  Removed(t, expected, texts, Dropped(expected, pairs))

\* _plain_text_from_marker_string, and the elements made anew where all were
\* styles (_set_text_slot_from_inline_markers_source_truth)
Rebuilt(actual, styled) ==
  <<Piece("text", 0)>> \o FlattenSeq([i \in 1..Len(actual) |->
    (IF styled /\ Lenient(actual[i]) THEN <<Piece("marker", actual[i])>> ELSE <<>>) \o <<Piece("text", i)>>])

\* _apply_merged_inline_translation; a blank line clears the paragraph
Injected(t, answer) ==
  LET expected == Markers(t, 1)
      actual == answer.markers
      cleared == [k \in 0..Len(expected) |-> <<>>]
  IN  IF answer.blank THEN Removed(t, expected, cleared, {m.node : m \in {m \in ToSet(expected) : Lenient(m)}})
      ELSE IF Accepted(expected, actual) THEN Applied(t, expected, actual)
      ELSE Rebuilt(actual, Strict(expected) = <<>> /\ Sane(actual))

-----------------------------------------------------------------------------

Places(t) == {TextOf(n) : n \in {n \in Nodes(t) : t.tag[n] # "br"}} \cup {TailOf(n) : n \in Nodes(t)}

\* Some chapter is imported.
MarkupInit ==
  \E t \in Chapters \cup MergedBlocks, strip \in BOOLEAN :
    \E texts \in IF t \in Chapters THEN SUBSET Places(t) ELSE {Places(t)} :
      markup = [at |-> "imported", chapter |-> t, texts |-> texts, strip |-> strip,
                slots |-> <<>>, answer |-> BlankAnswer, result |-> <<>>]

\* extract_text_from_xhtml
Extract ==
  /\ markup.at = "imported"
  /\ markup' = [markup EXCEPT !.at = "extracted", !.slots = ChapterSlots(markup.chapter, markup.texts, markup.strip)]

\* The answer of the model, or what was typed over it
Answers(expected) ==
  LET known == ToSet(expected) \cup Foreign
  IN  [markers : {expected} \cup {s \in UNION {[1..n -> known] : n \in 0..MaxMarkers} : IsInjective(s)},
       blank : {FALSE}] \cup {BlankAnswer}
AnswerBlock ==
  /\ markup.at = "extracted" /\ markup.chapter \in MergedBlocks
  /\ \E answer \in Answers(Markers(markup.chapter, 1)) :
       markup' = [markup EXCEPT !.at = "translated", !.answer = answer]

\* inject_translations_into_xhtml
Inject ==
  /\ markup.at = "translated"
  /\ markup' = [markup EXCEPT !.at = "injected", !.result = Injected(markup.chapter, markup.answer)]

MarkupNext == Extract \/ AnswerBlock \/ Inject
MarkupSpec == MarkupInit /\ [][MarkupNext]_markupVars

-----------------------------------------------------------------------------
(* Properties                                                              *)

\* What is written in a block is in one slot, once: but for the readings of
\* rubies, and what a ruby holds after its first reading.
Owed(t, texts, strip) ==
  LET Above(n) == {m \in Nodes(t) : Within(t, m, n)}
      Container(p) == IF p[2] = "text" THEN p[1] ELSE t.up[p[1]]
      Open(n) == n # 0 /\ t.tag[n] # "ruby" /\ ({n} \cup Above(n)) \cap {m \in Nodes(t) : t.tag[m] \in {"rt", "ruby"}} = {}
      InBlock(n) == \E m \in {n} \cup Above(n) : m # 0 /\ t.tag[m] \in Blocks
  IN  {p \in texts : Open(Container(p)) /\ InBlock(Container(p)) /\ ~(p[2] = "tail" /\ t.tag[p[1]] = "rt")}
      \cup {<<n, "ruby">> : n \in {n \in Nodes(t) :
              t.tag[n] = "ruby" /\ Open(t.up[n]) /\ InBlock(t.up[n]) /\ RubyText(t, n, texts, strip)}}
SlotsAreWhole ==
  markup.at # "imported" =>
    LET places == FlattenSeq(markup.slots)
    IN  IsInjective(places) /\ ToSet(places) = Owed(markup.chapter, markup.texts, markup.strip)

TextsOf(items) == SelectSeq(items, LAMBDA x : x.what = "text")
StrictAndTexts(items) == SelectSeq(items, LAMBDA x : x.what = "text" \/ ~Lenient(x.x))

\* An element that the answer left out, around a marker that the answer kept
WrapperIsLost ==
  LET expected == Markers(markup.chapter, 1)
      pairs == Alignment(expected, markup.answer.markers)
  IN  \E d \in Dropped(expected, pairs), p \in pairs : Within(markup.chapter, d, expected[p[1]].node)

\* Whatever markers a translation has kept, moved, left out or made up, every piece
\* of its text is in the paragraph, once and in order; and an answer that was
\* accepted stands to the links and the other strict elements as it did.
TextIsKept ==
  LET answer == markup.answer
      expected == Markers(markup.chapter, 1)
      gated == Accepted(expected, answer.markers)
  IN  markup.at = "injected" /\ ~answer.blank /\ ~(gated /\ WrapperIsLost) =>
        /\ TextsOf(markup.result) = AsItems([i \in 1..Len(answer.markers) + 1 |-> i - 1])
        /\ gated => StrictAndTexts(markup.result)
                      = <<Piece("text", 0)>> \o FlattenSeq([i \in 1..Len(answer.markers) |->
                          (IF Lenient(answer.markers[i]) THEN <<>> ELSE <<Piece("marker", answer.markers[i])>>)
                          \o <<Piece("text", i)>>])

\* What the comment of _remove_lenient_nodes says: no text of an accepted answer is lost.
NothingIsLost ==
  markup.at = "injected" /\ ~markup.answer.blank /\ Accepted(Markers(markup.chapter, 1), markup.answer.markers) =>
    TextsOf(markup.result) = AsItems([i \in 1..Len(markup.answer.markers) + 1 |-> i - 1])
==============================================================================
