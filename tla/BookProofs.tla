----------------------------- MODULE BookProofs -----------------------------
(***************************************************************************)
(* The book under tasks and edits, for any documents, texts, workers and   *)
(* types of task.                                                          *)
(*                                                                         *)
(* A chunk row, stored or in the hands of a task, belongs to a document    *)
(* that has all of its pages or is gone (BookInv, which the home page      *)
(* builds on).  In a book in which no document follows a scan, a row in    *)
(* hand is moreover the row that is stored, and a row that has been cut is *)
(* of a text that has none (WritesInv), so that no task undoes what was    *)
(* written since it read; and the rows of a document are a beginning of    *)
(* its text, of which a task that prepares it holds the rest (TextInv), so *)
(* that a document that is marked as added is in its chunks.               *)
(***************************************************************************)
EXTENDS BookDocuments, WellFoundedInduction, FiniteSetTheorems, SequenceTheorems, TLAPS

-----------------------------------------------------------------------------
(* The book as a whole.                                                    *)

BookShape(b) ==
  /\ {"docs", "last", "type", "page", "added", "rows", "lang"} \subseteq DOMAIN b
  /\ b.last \in Nat /\ b.docs \subseteq 1..b.last

\* The number of a document that is gone is not given again.
Evolves(b, c) ==
  /\ BookShape(c) /\ b.last <= c.last
  /\ \A d \in 0..b.last : d \notin b.docs => d \notin c.docs

\* A transaction that touches neither the documents nor their count
LEMMA KeptEvolves ==
  ASSUME NEW b, BookShape(b), NEW c, DOMAIN c = DOMAIN b, c.docs \subseteq b.docs, c.last = b.last
  PROVE  Evolves(b, c)
BY DEF BookShape, Evolves

\* The transactions of BookStore
LEMMA StoreEvolves ==
  ASSUME NEW b, BookShape(b)
  PROVE  /\ \A new : Evolves(b, UpsertChunks(b, new))
         /\ \A d, p, t : Evolves(b, UpdateSourceOcr(b, d, p, t))
         /\ \A d : Evolves(b, MarkTextAdded(b, d))
         /\ Evolves(b, SetLanguage(b))
         /\ \A d : Evolves(b, ResetDocumentStack(b, d))
         /\ \A d : Evolves(b, DeleteDocumentsStack(b, d))
<1>1. ASSUME NEW new PROVE Evolves(b, UpsertChunks(b, new))
  <2>1. PICK r : UpsertChunks(b, new) = [b EXCEPT !.rows = r]
    BY DEF UpsertChunks
  <2>. QED  BY <2>1, KeptEvolves DEF BookShape
<1>2. ASSUME NEW d, NEW p, NEW t PROVE Evolves(b, UpdateSourceOcr(b, d, p, t))
  <2>1. PICK r : UpdateSourceOcr(b, d, p, t) = [b EXCEPT !.page = r]
    BY DEF UpdateSourceOcr
  <2>. QED  BY <2>1, KeptEvolves DEF BookShape
<1>3. ASSUME NEW d PROVE Evolves(b, MarkTextAdded(b, d))
  BY KeptEvolves DEF BookShape, MarkTextAdded
<1>4. Evolves(b, SetLanguage(b))
  BY KeptEvolves DEF BookShape, SetLanguage
<1>5. ASSUME NEW d PROVE LET c == ResetDocumentStack(b, d) IN DOMAIN c = DOMAIN b /\ c.docs = b.docs /\ c.last = b.last
  <2>1. PICK r, a : ResetDocumentStack(b, d) = [b EXCEPT !.rows = r, !.added = a, !.lang = FALSE]
    BY DEF ResetDocumentStack, ResetRows
  <2>. QED  BY <2>1 DEF BookShape
<1>6. ASSUME NEW d PROVE Evolves(b, DeleteDocumentsStack(b, d))
  <2>. DEFINE c == ResetDocumentStack(b, d)
  <2>1. PICK k, a, g : DeleteDocumentsStack(b, d) = [c EXCEPT !.docs = c.docs \ k, !.added = a, !.page = g]
    BY DEF DeleteDocumentsStack
  <2>2. DOMAIN c = DOMAIN b /\ c.docs = b.docs /\ c.last = b.last
    BY <1>5
  <2>. HIDE DEF c
  <2>. QED  BY <2>1, <2>2, KeptEvolves DEF BookShape
<1>. QED  BY <1>1, <1>2, <1>3, <1>4, <1>5, <1>6, KeptEvolves

\* An import adds a document with a number of its own, and no chunk.
LEMMA ImportEvolves ==
  ASSUME NEW b, BookShape(b), NEW ty, NEW pages
  PROVE  Evolves(b, InsertDocument(b, ty, pages)) /\ InsertDocument(b, ty, pages).rows = b.rows
<1>1. PICK t, g : InsertDocument(b, ty, pages) =
                    [b EXCEPT !.docs = b.docs \cup {b.last + 1}, !.last = b.last + 1, !.type = t, !.page = g]
  BY DEF InsertDocument
<1>. QED  BY <1>1 DEF BookShape, Evolves

\* What the tasks and the user do to the book
LEMMA BookEvolves ==
  ASSUME BookShape(book)
  PROVE  /\ \A w \in Worker : Start(w) \/ Preflight(w) \/ Operate(w) \/ Stops(w) => Evolves(book, book')
         /\ \A d : Edit(d) => Evolves(book, book')
         /\ ImportDocuments => Evolves(book, book') /\ book'.rows = book.rows
         /\ Crash \/ UNCHANGED book => Evolves(book, book')
<1>1. UNCHANGED book => Evolves(book, book')
  BY DEF Evolves, BookShape
<1>2. ASSUME NEW w \in Worker, Start(w) \/ Preflight(w) \/ Operate(w) \/ Stops(w) PROVE Evolves(book, book')
  <2>1. \/ UNCHANGED book
        \/ \E new : book' = UpsertChunks(book, new)
        \/ \E d, p, t : book' = UpdateSourceOcr(book, d, p, t)
        \/ \E d : book' = MarkTextAdded(book, d)
        \/ book' = SetLanguage(book)
    <3>1. CASE Start(w) \/ Stops(w)
      BY <3>1 DEF Start, Stops
    <3>2. CASE PreflightBegins(w) \/ ReviewBegins(w) \/ PrepareDocument(w) \/ AddText(w) \/ LanguageKnown(w)
      BY <3>2 DEF PreflightBegins, ReviewBegins, PrepareDocument, AddText, LanguageKnown
    <3>3. CASE StoreChunks(w)
      BY <3>3 DEF StoreChunks
    <3>4. CASE MarkAdded(w) \/ LanguageDetected(w)
      BY <3>4 DEF MarkAdded, LanguageDetected
    <3>5. CASE Collect(w) \/ WorkDone(w) \/ OcrDone(w)
      BY <3>5 DEF Collect, WorkDone, OcrDone
    <3>6. CASE Answer(w)
      BY <3>6 DEF Answer
    <3>7. CASE MapOccurrences(w)
      BY <3>7 DEF MapOccurrences
    <3>8. CASE OcrPage(w)
      BY <3>8 DEF OcrPage
    <3>. QED
      BY <1>2, <3>1, <3>2, <3>3, <3>4, <3>5, <3>6, <3>7, <3>8 DEF Preflight, Operate
  <2>. QED  BY <1>1, <2>1, StoreEvolves
<1>3. ASSUME NEW d, Edit(d) PROVE Evolves(book, book')
  <2>1. CASE SaveOcr(d)
    <3>1. PICK p, t : book' = ResetDocumentStack(UpdateSourceOcr(book, d, p, t), d)
      BY <2>1 DEF SaveOcr
    <3>2. Evolves(book, UpdateSourceOcr(book, d, p, t))
      BY StoreEvolves
    <3>. DEFINE b == UpdateSourceOcr(book, d, p, t)
    <3>. HIDE DEF b
    <3>3. Evolves(book, b) /\ book' = ResetDocumentStack(b, d)
      BY <3>1, <3>2 DEF b
    <3>4. Evolves(b, book')
      BY <3>3, StoreEvolves DEF Evolves
    <3>. QED  BY <3>3, <3>4 DEF Evolves, BookShape
  <2>2. CASE SaveTranslation(d)
    <3>1. \E new : book' = UpsertChunks(book, new)
      BY <2>2 DEF SaveTranslation
    <3>. QED  BY <3>1, StoreEvolves
  <2>3. CASE ResetStack(d) \/ DeleteStack(d)
    BY <2>3, StoreEvolves DEF ResetStack, DeleteStack
  <2>. QED  BY <1>3, <2>1, <2>2, <2>3 DEF Edit
<1>4. ImportDocuments => Evolves(book, book') /\ book'.rows = book.rows
  <2>1. ASSUME ImportDocuments PROVE \E ty, pages : book' = InsertDocument(book, ty, pages)
    BY <2>1 DEF ImportDocuments
  <2>. QED  BY <2>1, ImportEvolves
<1>5. Crash => UNCHANGED book
  BY DEF Crash
<1>. QED  BY <1>1, <1>2, <1>3, <1>4, <1>5

-----------------------------------------------------------------------------
(* Pages, rows and what the tasks have in hand.                            *)

\* A set of naturals has a least element, and a greatest one below a bound, so
\* that Min and Max are they.
LEMMA MinIsLeast ==
  ASSUME NEW S \in SUBSET Nat, S # {}
  PROVE  Min(S) \in S /\ \A x \in S : Min(S) <= x
<1>1. IsWellFoundedOn(OpToRel(<, Nat), Nat)
  BY NatLessThanWellFounded
<1>2. PICK m \in S : \A x \in S : ~(<<x, m>> \in OpToRel(<, Nat))
  BY <1>1, WFMin
<1>3. \A x \in S : m <= x
  <2>. SUFFICES ASSUME NEW x \in S, ~(m <= x) PROVE FALSE
    OBVIOUS
  <2>1. x \in Nat /\ m \in Nat /\ x < m
    OBVIOUS
  <2>2. <<x, m>> \in {ss \in Nat \X Nat : ss[1] < ss[2]}
    BY <2>1
  <2>3. {ss \in Nat \X Nat : ss[1] < ss[2]} = OpToRel(<, Nat)
    BY Zenon DEF OpToRel
  <2>. QED  BY <1>2, <2>2, <2>3
<1>4. \E k \in S : \A x \in S : k =< x
  BY <1>3
<1>. QED  BY <1>4, Zenon DEF Min
LEMMA MaxIsGreatest ==
  ASSUME NEW S \in SUBSET Nat, S # {}, NEW n \in Nat, \A x \in S : x <= n
  PROVE  Max(S) \in S /\ \A x \in S : x <= Max(S)
<1>. DEFINE below == {n - x : x \in S}
<1>1. below \in SUBSET Nat /\ below # {}
  <2>1. \A x \in S : n - x \in Nat
    OBVIOUS
  <2>2. PICK x \in S : TRUE
    OBVIOUS
  <2>. QED  BY <2>1, <2>2
<1>2. Min(below) \in below /\ \A y \in below : Min(below) <= y
  <2>. HIDE DEF below
  <2>. QED  BY <1>1, MinIsLeast
<1>3. PICK m \in S : Min(below) = n - m
  BY <1>2
<1>4. \A x \in S : m >= x
  <2>. SUFFICES ASSUME NEW x \in S PROVE m >= x
    OBVIOUS
  <2>1. n - x \in below
    OBVIOUS
  <2>2. n - m <= n - x
    BY <1>2, <1>3, <2>1
  <2>. QED  BY <2>2
<1>5. \E k \in S : \A x \in S : k >= x
  BY <1>4
<1>6. Max(S) \in S /\ \A x \in S : Max(S) >= x
  BY <1>5, Zenon DEF Max
<1>. QED  BY <1>6

\* A document that has pages, all of them with their text
Whole(b, d) == DOMAIN b.page[d] # {} /\ \A p \in DOMAIN b.page[d] : b.page[d][p].ready
\* A chunk row, stored or in hand, was cut from such a document, unless that is gone.
RowOK(b, r) ==
  /\ {"doc", "text"} \subseteq DOMAIN r /\ r.doc \in 1..b.last
  /\ r.doc \in b.docs => Whole(b, r.doc)
RowsOK(b, rows) == \A i \in DOMAIN rows : RowOK(b, rows[i])
PagesOK(b) ==
  /\ DOMAIN b.page = DocId /\ DOMAIN b.type = DocId /\ b.docs \subseteq DocId
  /\ \A d \in b.docs : DOMAIN b.page[d] = {} => b.page[d] = <<>>
  /\ \A d \in b.docs : b.type[d] = "text" => \A p \in DOMAIN b.page[d] : b.page[d][p].ready
StoreOK(b) == BookShape(b) /\ PagesOK(b) /\ RowsOK(b, b.rows)

\* What a task has in hand.  While it prepares documents they have numbers that
\* were given, and the one whose text it read was whole.
JobOK(b, j) ==
  /\ {"task", "pc", "todo", "doc", "pieces", "rows"} \subseteq DOMAIN j
  /\ RowsOK(b, j.rows)
  /\ j.pc = "lock" => j.doc \in 1..b.last
  /\ j.pc \in {"prepare", "text", "store"} => j.todo \subseteq 1..b.last
  /\ j.pc \in {"text", "store"} => /\ j.todo # {}
                                   /\ Min(j.todo) \in b.docs => Whole(b, Min(j.todo))
BookInv ==
  /\ StoreOK(book) /\ DOMAIN job = Worker /\ \A w \in Worker : JobOK(book, job[w])

\* A document that was whole stays so while it is there.
Grows(b, c) == Evolves(b, c) /\ \A d \in c.docs : d \in b.docs /\ Whole(b, d) => Whole(c, d)

LEMMA RowsStayOK ==
  ASSUME NEW b, BookShape(b), NEW c, Grows(b, c), NEW rows, RowsOK(b, rows)
  PROVE  RowsOK(c, rows)
<1>. SUFFICES ASSUME NEW i \in DOMAIN rows PROVE RowOK(c, rows[i])
  BY DEF RowsOK
<1>1. RowOK(b, rows[i])
  BY DEF RowsOK
<1>. QED  BY <1>1 DEF RowOK, Grows, Evolves, BookShape

LEMMA JobStaysOK ==
  ASSUME NEW b, BookShape(b), NEW c, Grows(b, c), NEW j, JobOK(b, j)
  PROVE  JobOK(c, j)
<1>1. RowsOK(c, j.rows)
  BY RowsStayOK DEF JobOK
<1>2. b.last \in Nat /\ c.last \in Nat /\ b.last <= c.last
  BY DEF Grows, Evolves, BookShape
<1>3. 1..b.last \subseteq 1..c.last
  BY <1>2
<1>4. ASSUME j.pc \in {"text", "store"}, Min(j.todo) \in c.docs PROVE Whole(c, Min(j.todo))
  <2>1. j.todo \subseteq 1..b.last /\ j.todo # {}
    BY <1>4 DEF JobOK
  <2>2. j.todo \in SUBSET Nat
    BY <1>2, <2>1
  <2>3. Min(j.todo) \in 1..b.last
    BY <2>1, <2>2, MinIsLeast
  <2>4. Min(j.todo) \in 0..b.last
    BY <1>2, <2>3
  <2>5. Min(j.todo) \in b.docs
    BY <1>4, <2>4 DEF Grows, Evolves
  <2>. QED  BY <1>4, <2>5 DEF JobOK, Grows
<1>. QED  BY <1>1, <1>3, <1>4 DEF JobOK

\* A transaction that adds no document and takes no text of a page away
PagesFollow(b, c) ==
  /\ DOMAIN c = DOMAIN b /\ c.docs \subseteq b.docs /\ c.last = b.last /\ c.type = b.type
  /\ DOMAIN c.page = DOMAIN b.page
  /\ \A d \in c.docs : /\ DOMAIN c.page[d] = DOMAIN b.page[d]
                       /\ \A p \in DOMAIN b.page[d] : b.page[d][p].ready => c.page[d][p].ready
                       /\ b.page[d] = <<>> => c.page[d] = <<>>
LEMMA PagesKept ==
  ASSUME NEW b, StoreOK(b), NEW c, PagesFollow(b, c)
  PROVE  Grows(b, c) /\ PagesOK(c)
<1>1. Evolves(b, c)
  BY KeptEvolves DEF StoreOK, PagesFollow
<1>. QED  BY <1>1 DEF StoreOK, PagesOK, Grows, Whole, PagesFollow

\* Rows that were cut, or read, may be written whatever happened since.
LEMMA UpsertKeepsStore ==
  ASSUME NEW b, StoreOK(b), NEW new, RowsOK(b, new)
  PROVE  StoreOK(UpsertChunks(b, new)) /\ Grows(b, UpsertChunks(b, new))
<1>. DEFINE c == UpsertChunks(b, new)
            ins == Inserted(b.rows, new)
            upd == {Hash(new[i]) : i \in DOMAIN new \ ins}
            rows == [i \in DOMAIN b.rows \cup ins |->
                       IF i \notin DOMAIN b.rows THEN new[i]
                       ELSE IF Hash(b.rows[i]) \in upd THEN new[RowWithHash(new, Hash(b.rows[i]))]
                       ELSE b.rows[i]]
<1>1. c = [b EXCEPT !.rows = rows]
  BY DEF UpsertChunks
<1>2. RowsOK(b, rows)
  <2>. SUFFICES ASSUME NEW i \in DOMAIN b.rows \cup ins PROVE RowOK(b, rows[i])
    BY DEF RowsOK
  <2>1. ins \subseteq DOMAIN new
    BY DEF Inserted
  <2>2. CASE i \notin DOMAIN b.rows
    BY <2>1, <2>2 DEF RowsOK
  <2>3. CASE i \in DOMAIN b.rows /\ Hash(b.rows[i]) \in upd
    <3>1. \E k \in DOMAIN new : Hash(new[k]) = Hash(b.rows[i])
      BY <2>3
    <3>2. RowWithHash(new, Hash(b.rows[i])) \in DOMAIN new
      BY <3>1 DEF RowWithHash
    <3>. QED  BY <2>3, <3>2 DEF RowsOK
  <2>4. CASE i \in DOMAIN b.rows /\ Hash(b.rows[i]) \notin upd
    BY <2>4 DEF RowsOK, StoreOK
  <2>. QED  BY <2>2, <2>3, <2>4
<1>. HIDE DEF rows
<1>3. /\ DOMAIN c = DOMAIN b /\ c.docs = b.docs /\ c.last = b.last /\ c.page = b.page
      /\ c.type = b.type /\ c.rows = rows
  BY <1>1 DEF StoreOK, BookShape
<1>. HIDE DEF c
<1>4. Grows(b, c) /\ PagesOK(c)
  BY <1>3, PagesKept DEF PagesFollow
<1>. QED  BY <1>2, <1>3, <1>4, RowsStayOK DEF StoreOK, Grows, Evolves, c

\* A page that is recognised, or corrected, is ready.
LEMMA OcrKeepsStore ==
  ASSUME NEW b, StoreOK(b), NEW d, NEW p, NEW t
  PROVE  StoreOK(UpdateSourceOcr(b, d, p, t)) /\ Grows(b, UpdateSourceOcr(b, d, p, t))
<1>. DEFINE c == UpdateSourceOcr(b, d, p, t)
            read == [text |-> t, ready |-> TRUE]
            page == [b.page EXCEPT ![d] = [b.page[d] EXCEPT ![p] = read]]
<1>1. /\ DOMAIN c = DOMAIN b /\ c.docs = b.docs /\ c.last = b.last /\ c.page = page
      /\ c.type = b.type /\ c.rows = b.rows
  BY DEF StoreOK, BookShape, UpdateSourceOcr
<1>2. DOMAIN page = DOMAIN b.page /\ read.ready
  OBVIOUS
<1>. HIDE DEF read, c
<1>3. \A e \in DOMAIN page : page[e] = b.page[e] \/ page[e] = [b.page[e] EXCEPT ![p] = read]
  OBVIOUS
<1>4. \A e : LET g == [b.page[e] EXCEPT ![p] = read] IN
        /\ DOMAIN g = DOMAIN b.page[e] /\ \A q \in DOMAIN g : g[q] = b.page[e][q] \/ g[q] = read
        /\ b.page[e] = <<>> => g = <<>>
  OBVIOUS
<1>. HIDE DEF page
<1>5. \A e \in b.docs : e \in DOMAIN page
  BY <1>2 DEF StoreOK, PagesOK
<1>6. \A e \in c.docs : /\ DOMAIN c.page[e] = DOMAIN b.page[e]
                        /\ \A q \in DOMAIN b.page[e] : b.page[e][q].ready => c.page[e][q].ready
                        /\ b.page[e] = <<>> => c.page[e] = <<>>
  <2>. SUFFICES ASSUME NEW e \in b.docs
                PROVE  /\ DOMAIN page[e] = DOMAIN b.page[e]
                       /\ \A q \in DOMAIN b.page[e] : b.page[e][q].ready => page[e][q].ready
                       /\ b.page[e] = <<>> => page[e] = <<>>
    BY <1>1
  <2>. DEFINE g == [b.page[e] EXCEPT ![p] = read]
  <2>1. /\ DOMAIN g = DOMAIN b.page[e] /\ \A q \in DOMAIN g : g[q] = b.page[e][q] \/ g[q] = read
        /\ b.page[e] = <<>> => g = <<>>
    BY <1>4
  <2>2. page[e] = b.page[e] \/ page[e] = g
    BY <1>3, <1>5
  <2>. HIDE DEF g
  <2>. QED  BY <1>2, <2>1, <2>2
<1>7. PagesFollow(b, c)
  BY <1>1, <1>2, <1>6 DEF PagesFollow
<1>8. Grows(b, c) /\ PagesOK(c)
  BY <1>7, PagesKept
<1>. QED  BY <1>1, <1>8, RowsStayOK DEF StoreOK, Grows, Evolves, c

LEMMA FlagsKeepStore ==
  ASSUME NEW b, StoreOK(b), NEW d
  PROVE  /\ StoreOK(MarkTextAdded(b, d)) /\ Grows(b, MarkTextAdded(b, d))
         /\ StoreOK(SetLanguage(b)) /\ Grows(b, SetLanguage(b))
<1>1. ASSUME NEW c, PagesFollow(b, c), c.rows = b.rows
      PROVE  StoreOK(c) /\ Grows(b, c)
  BY <1>1, PagesKept, RowsStayOK DEF StoreOK, Grows, Evolves
<1>2. PagesFollow(b, MarkTextAdded(b, d)) /\ MarkTextAdded(b, d).rows = b.rows
  BY DEF MarkTextAdded, StoreOK, BookShape, PagesFollow
<1>3. PagesFollow(b, SetLanguage(b)) /\ SetLanguage(b).rows = b.rows
  BY DEF SetLanguage, StoreOK, BookShape, PagesFollow
<1>. QED  BY <1>1, <1>2, <1>3

\* A reset takes rows away, a deletion documents as well.
LEMMA StackKeepsStore ==
  ASSUME NEW b, StoreOK(b), NEW d
  PROVE  /\ StoreOK(ResetDocumentStack(b, d)) /\ Grows(b, ResetDocumentStack(b, d))
         /\ StoreOK(DeleteDocumentsStack(b, d)) /\ Grows(b, DeleteDocumentsStack(b, d))
<1>. DEFINE c == ResetDocumentStack(b, d)
            ids == FromFirstRowOf(b, StackOf(b, d))
            left == OnlyRows(b.rows, DOMAIN b.rows \ ids)
            added == b.added \ {b.rows[i].doc : i \in ids}
<1>1. c = [b EXCEPT !.rows = left, !.added = added, !.lang = FALSE]
  BY DEF ResetDocumentStack, ResetRows
<1>2. DOMAIN left \subseteq DOMAIN b.rows /\ \A i \in DOMAIN left : left[i] = b.rows[i]
  BY DEF OnlyRows
<1>. HIDE DEF left, added
<1>3. /\ DOMAIN c = DOMAIN b /\ c.docs = b.docs /\ c.last = b.last /\ c.page = b.page
      /\ c.type = b.type /\ c.rows = left
  BY <1>1 DEF StoreOK, BookShape
<1>. HIDE DEF c
<1>4. RowsOK(b, left)
  BY <1>2 DEF RowsOK, StoreOK
<1>5. Grows(b, c) /\ PagesOK(c)
  BY <1>3, PagesKept DEF PagesFollow
<1>6. StoreOK(c)
  BY <1>3, <1>4, <1>5, RowsStayOK DEF StoreOK, Grows, Evolves
<1>. DEFINE e == DeleteDocumentsStack(b, d)
            stack == StackOf(b, d)
            page == [k \in DOMAIN c.page |-> IF k \in stack THEN <<>> ELSE c.page[k]]
            kept == c.added \ stack
<1>7. e = [c EXCEPT !.docs = c.docs \ stack, !.added = kept, !.page = page]
  BY DEF DeleteDocumentsStack, c
<1>8. DOMAIN page = DOMAIN c.page /\ \A k \in DOMAIN c.page \ stack : page[k] = c.page[k]
  OBVIOUS
<1>. HIDE DEF stack, page, kept
<1>9. /\ DOMAIN e = DOMAIN c /\ e.docs = c.docs \ stack /\ e.last = c.last /\ e.page = page
      /\ e.type = c.type /\ e.rows = c.rows
  BY <1>6, <1>7 DEF StoreOK, BookShape
<1>. HIDE DEF e
<1>10. PagesFollow(c, e)
  BY <1>6, <1>8, <1>9 DEF PagesFollow, StoreOK, PagesOK
<1>11. Grows(c, e) /\ PagesOK(e)
  BY <1>6, <1>10, PagesKept
<1>12. StoreOK(e)
  BY <1>6, <1>9, <1>11, RowsStayOK DEF StoreOK, Grows, Evolves
<1>13. Grows(b, e)
  BY <1>5, <1>6, <1>9, <1>11 DEF Grows, Evolves, BookShape, StoreOK
<1>. QED  BY <1>5, <1>6, <1>12, <1>13 DEF c, e

\* An import brings a text whole, and a new number that no row has.
LEMMA ImportKeepsStore ==
  ASSUME NEW b, StoreOK(b), b.last + 1 \in DocId, NEW ty
  PROVE  LET c == InsertDocument(b, ty, ImportedPages(ty)) IN StoreOK(c) /\ Grows(b, c)
<1>. DEFINE c == InsertDocument(b, ty, ImportedPages(ty))
            n == b.last + 1
            pages == ImportedPages(ty)
            page == [b.page EXCEPT ![n] = pages]
            type == [b.type EXCEPT ![n] = ty]
            docs == b.docs \cup {n}
<1>1. c = [b EXCEPT !.docs = docs, !.last = n, !.type = type, !.page = page]
  BY DEF InsertDocument
<1>2. /\ ty = "text" => \A p \in DOMAIN pages : pages[p].ready
      /\ DOMAIN pages = {} => pages = <<>>
  BY DEF ImportedPages
<1>. HIDE DEF pages
<1>3. /\ DOMAIN page = DOMAIN b.page /\ page[n] = pages /\ \A e \in DOMAIN b.page \ {n} : page[e] = b.page[e]
      /\ DOMAIN type = DOMAIN b.type /\ type[n] = ty /\ \A e \in DOMAIN b.type \ {n} : type[e] = b.type[e]
  BY DEF StoreOK, PagesOK
<1>. HIDE DEF page, type
<1>4. /\ DOMAIN c = DOMAIN b /\ c.docs = docs /\ c.last = n /\ c.page = page
      /\ c.type = type /\ c.rows = b.rows
  BY <1>1 DEF StoreOK, BookShape
<1>5. Evolves(b, c)
  BY ImportEvolves DEF StoreOK
<1>. HIDE DEF c
<1>6. n \notin b.docs /\ b.docs \subseteq DocId /\ n \in DocId
  BY DEF StoreOK, BookShape, PagesOK
<1>7. PagesOK(c)
  <2>1. \A e \in b.docs : e # n /\ page[e] = b.page[e] /\ type[e] = b.type[e]
    BY <1>3, <1>6 DEF StoreOK, PagesOK
  <2>2. \A e \in docs : DOMAIN page[e] = {} => page[e] = <<>>
    BY <1>2, <1>3, <2>1 DEF StoreOK, PagesOK
  <2>3. \A e \in docs : type[e] = "text" => \A p \in DOMAIN page[e] : page[e][p].ready
    BY <1>2, <1>3, <2>1 DEF StoreOK, PagesOK
  <2>. QED  BY <1>3, <1>4, <1>6, <2>2, <2>3 DEF StoreOK, PagesOK
<1>8. Grows(b, c)
  BY <1>3, <1>4, <1>5, <1>6 DEF Grows, Whole, StoreOK, PagesOK
<1>. QED  BY <1>4, <1>5, <1>7, <1>8, RowsStayOK DEF StoreOK, Evolves, c

\* What a worker may make of its job, and of the job of nobody else.
JobStep(w) == job' = [job EXCEPT ![w] = job'[w]]
LEMMA WorkerKeepsBook ==
  ASSUME BookInv, NEW w \in Worker, JobStep(w), StoreOK(book'), Grows(book, book'),
         JobOK(book', job'[w])
  PROVE  BookInv'
<1>1. DOMAIN job' = Worker /\ \A u \in Worker \ {w} : job'[u] = job[u]
  BY DEF BookInv, JobStep
<1>2. \A u \in Worker : JobOK(book', job'[u])
  BY <1>1, JobStaysOK DEF BookInv, StoreOK
<1>. QED  BY <1>1, <1>2 DEF BookInv

\* A worker with nothing in hand, or that has just been given a task
LEMMA EmptyHands ==
  ASSUME NEW b, NEW j, {"task", "pc", "todo", "doc", "pieces", "rows"} \subseteq DOMAIN j, DOMAIN j.rows = {},
         j.pc \notin {"prepare", "text", "store"}, j.pc = "lock" => j.doc \in 1..b.last
  PROVE  JobOK(b, j)
BY DEF JobOK, RowsOK
LEMMA NoJobIsOK ==
  ASSUME NEW b PROVE JobOK(b, NoJob)
<1>1. /\ {"task", "pc", "todo", "doc", "pieces", "rows"} \subseteq DOMAIN NoJob
      /\ DOMAIN NoJob.rows = {} /\ NoJob.pc = "idle"
  BY DEF NoJob
<1>. QED  BY <1>1, EmptyHands
LEMMA EndsKeepsBook ==
  ASSUME BookInv, NEW w \in Worker, Ends(w), StoreOK(book'), Grows(book, book')
  PROVE  BookInv'
<1>1. JobStep(w) /\ job'[w] = NoJob
  BY DEF Ends, JobStep, BookInv
<1>. QED  BY <1>1, NoJobIsOK, WorkerKeepsBook

\* The book as it was
LEMMA SameBook ==
  ASSUME BookInv, book' = book PROVE StoreOK(book') /\ Grows(book, book')
BY DEF BookInv, StoreOK, Grows, Evolves, BookShape

LEMMA StartKeepsBook ==
  ASSUME BookInv, NEW w \in Worker, Start(w) PROVE BookInv'
<1>. DEFINE Pc(t) == CASE t.type = "ocr"             -> "ocr"
                       [] t.type = "glossary_review" -> "review"
                       [] OTHER                      -> "lock"
            Todo(t, d) == IF t.type # "ocr" THEN {}
                          ELSE IF t.sources = {} THEN PendingPages(book, d)
                          ELSE {p \in DOMAIN book.page[d] : Key(<<d, p>>) \in t.sources}
<1>0. PICK d \in book.docs : \E t \in Startable(d) :
        /\ job' = [job EXCEPT ![w] = [NoJob EXCEPT !.task = t, !.doc = d, !.pc = Pc(t), !.todo = Todo(t, d)]]
        /\ book' = book
  BY Zenon DEF Start
<1>a. PICK t \in Startable(d) :
        /\ job' = [job EXCEPT ![w] = [NoJob EXCEPT !.task = t, !.doc = d, !.pc = Pc(t), !.todo = Todo(t, d)]]
        /\ book' = book
  BY <1>0
<1>. DEFINE pc == Pc(t)
            todo == Todo(t, d)
<1>1. /\ job' = [job EXCEPT ![w] = [NoJob EXCEPT !.task = t, !.doc = d, !.pc = pc, !.todo = todo]]
      /\ pc \in {"ocr", "review", "lock"} /\ book' = book
  BY <1>a
<1>. HIDE DEF pc, todo, Pc, Todo
<1>. DEFINE j == [NoJob EXCEPT !.task = t, !.doc = d, !.pc = pc, !.todo = todo]
<1>2. /\ {"task", "pc", "todo", "doc", "pieces", "rows"} \subseteq DOMAIN j
      /\ DOMAIN j.rows = {} /\ j.pc = pc /\ j.doc = d
  BY DEF NoJob
<1>3. JobStep(w) /\ job'[w] = j
  BY <1>1 DEF JobStep, BookInv
<1>. HIDE DEF j
<1>4. d \in 1..book.last
  BY DEF BookInv, StoreOK, BookShape
<1>5. JobOK(book, j)
  BY <1>1, <1>2, <1>4, EmptyHands
<1>. QED  BY <1>1, <1>3, <1>5, SameBook, WorkerKeepsBook

\* The preparation of documents
LEMMA PreflightKeepsBook ==
  ASSUME BookInv, NEW w \in Worker, Preflight(w) PROVE BookInv'
<1>. DEFINE j == job[w]
            n == job'[w]
<1>0. StoreOK(book) /\ BookShape(book) /\ JobOK(book, j) /\ DOMAIN job = Worker
  BY DEF BookInv, StoreOK
<1>1. ASSUME j.pc \in {"prepare", "text", "store"}, j.todo # {} PROVE NextDocument(w) \in j.todo
  <2>1. j.todo \in SUBSET Nat
    BY <1>0, <1>1 DEF JobOK, BookShape
  <2>. QED  BY <1>1, <2>1, MinIsLeast DEF NextDocument
<1>2. CASE PreflightBegins(w)
  <2>1. /\ JobStep(w) /\ book' = book /\ j.pc = "lock"
        /\ n = [j EXCEPT !.pc = "prepare", !.todo = PreflightDocuments(j.doc)]
    BY <1>0, <1>2 DEF PreflightBegins, JobStep
  <2>2. PreflightDocuments(j.doc) \subseteq 1..book.last
    BY <1>0, <2>1 DEF PreflightDocuments, JobOK, BookShape
  <2>3. JobOK(book, n)
    BY <1>0, <2>1, <2>2 DEF JobOK
  <2>. QED  BY <2>1, <2>3, SameBook, WorkerKeepsBook
<1>3. CASE ReviewBegins(w)
  <2>1. CASE book.lang
    BY <1>3, <2>1, SameBook, EndsKeepsBook DEF ReviewBegins
  <2>2. CASE ~book.lang
    <3>1. JobStep(w) /\ book' = book /\ n = [j EXCEPT !.pc = "prepare", !.todo = book.docs]
      BY <1>0, <1>3, <2>2 DEF ReviewBegins, JobStep
    <3>2. JobOK(book, n)
      BY <1>0, <3>1 DEF JobOK, BookShape
    <3>. QED  BY <3>1, <3>2, SameBook, WorkerKeepsBook
  <2>. QED  BY <2>1, <2>2
<1>4. CASE PrepareDocument(w)
  <2>. DEFINE d == NextDocument(w)
  <2>0. book' = book /\ j.pc = "prepare" /\ j.todo # {} /\ d \in j.todo
    BY <1>1, <1>4 DEF PrepareDocument
  <2>1. CASE Ends(w)
    BY <2>0, <2>1, SameBook, EndsKeepsBook
  <2>2. CASE job' = [job EXCEPT ![w].todo = @ \ {d}]
    <3>1. JobStep(w) /\ n = [j EXCEPT !.todo = j.todo \ {d}]
      BY <1>0, <2>2 DEF JobStep
    <3>2. JobOK(book, n)
      BY <1>0, <2>0, <3>1 DEF JobOK
    <3>. QED  BY <2>0, <3>1, <3>2, SameBook, WorkerKeepsBook
  <2>3. CASE /\ ~IsTextAdded(book, d) /\ ~OcrMissing(d)
             /\ job' = [job EXCEPT ![w].pc = "text", ![w].pieces = DocumentText(book, d)]
    <3>1. JobStep(w) /\ n = [j EXCEPT !.pc = "text", !.pieces = DocumentText(book, d)]
      BY <1>0, <2>3 DEF JobStep
    <3>2. d \in book.docs => Whole(book, d)
      BY <1>0, <2>3 DEF IsTextAdded, OcrMissing, OcrRequired, IsOcrCompleted, PendingPages, Whole, StoreOK, PagesOK
    <3>3. d = Min(j.todo)
      BY DEF NextDocument
    <3>. HIDE DEF d
    <3>4. JobOK(book, n)
      BY <1>0, <2>0, <3>1, <3>2, <3>3 DEF JobOK
    <3>. QED  BY <2>0, <3>1, <3>4, SameBook, WorkerKeepsBook
  <2>. QED  BY <1>4, <2>1, <2>2, <2>3 DEF PrepareDocument
<1>5. CASE AddText(w)
  <2>. DEFINE d == NextDocument(w)
              rows == NewRows(d, Call(w), NextChunkId(book.rows))
  <2>1. JobStep(w) /\ book' = book /\ j.pc = "text" /\ n = [j EXCEPT !.pc = "store", !.rows = rows]
    BY <1>0, <1>5 DEF AddText, JobStep
  <2>2. d \in 1..book.last /\ (d \in book.docs => Whole(book, d))
    BY <1>0, <1>1, <2>1 DEF JobOK, NextDocument
  <2>3. RowsOK(book, rows)
    BY <2>2 DEF RowsOK, RowOK, NewRows, Row
  <2>. HIDE DEF rows
  <2>4. JobOK(book, n)
    BY <1>0, <2>1, <2>3 DEF JobOK
  <2>. QED  BY <2>1, <2>4, SameBook, WorkerKeepsBook
<1>6. CASE StoreChunks(w)
  <2>1. CASE UpsertFails(book, j.rows)
    BY <1>6, <2>1, SameBook, EndsKeepsBook DEF StoreChunks
  <2>2. CASE ~UpsertFails(book, j.rows)
    <3>1. StoreOK(book') /\ Grows(book, book')
      BY <1>0, <1>6, <2>2, UpsertKeepsStore DEF StoreChunks, JobOK
    <3>. DEFINE pieces == SubSeq(j.pieces, Len(Call(w)) + 1, Len(j.pieces))
    <3>a. /\ j.pc = "store"
          /\ job' = [job EXCEPT ![w] = [job[w] EXCEPT !.pc = "text", !.rows = <<>>, !.pieces = pieces]]
      BY <1>0, <1>6, <2>2 DEF StoreChunks
    <3>. HIDE DEF pieces
    <3>2. JobStep(w) /\ j.pc = "store" /\ n = [j EXCEPT !.pc = "text", !.rows = <<>>, !.pieces = pieces]
      BY <1>0, <3>a DEF JobStep
    <3>3. JobOK(book, n)
      BY <1>0, <3>2 DEF JobOK, RowsOK
    <3>4. JobOK(book', n)
      BY <1>0, <3>1, <3>3, JobStaysOK
    <3>. QED  BY <3>1, <3>2, <3>4, WorkerKeepsBook
  <2>. QED  BY <2>1, <2>2
<1>7. CASE MarkAdded(w)
  <2>1. StoreOK(book') /\ Grows(book, book')
    BY <1>0, <1>7, FlagsKeepStore DEF MarkAdded
  <2>2. JobStep(w) /\ j.pc = "text" /\ n = [j EXCEPT !.pc = "prepare", !.todo = j.todo \ {NextDocument(w)}]
    BY <1>0, <1>7 DEF MarkAdded, JobStep
  <2>3. JobOK(book, n)
    BY <1>0, <2>2 DEF JobOK
  <2>. QED  BY <1>0, <2>1, <2>2, <2>3, JobStaysOK, WorkerKeepsBook
<1>8. ASSUME NEW pc, pc \in {"collect", "detect"}, Goto(w, pc), StoreOK(book'), Grows(book, book')
      PROVE  BookInv'
  <2>1. JobStep(w) /\ n = [j EXCEPT !.pc = pc]
    BY <1>0, <1>8 DEF Goto, JobStep
  <2>2. JobOK(book, n)
    BY <1>0, <1>8, <2>1 DEF JobOK
  <2>. QED  BY <1>0, <1>8, <2>1, <2>2, JobStaysOK, WorkerKeepsBook
<1>9. ASSUME Prepared(w), StoreOK(book'), Grows(book, book') PROVE BookInv'
  BY <1>8, <1>9, EndsKeepsBook DEF Prepared
<1>10. CASE LanguageKnown(w)
  BY <1>8, <1>9, <1>10, SameBook, EndsKeepsBook DEF LanguageKnown
<1>11. CASE LanguageDetected(w)
  BY <1>0, <1>9, <1>11, FlagsKeepStore DEF LanguageDetected
<1>. QED  BY <1>2, <1>3, <1>4, <1>5, <1>6, <1>7, <1>10, <1>11 DEF Preflight

\* The operation
LEMMA WorkedRow ==
  ASSUME NEW b, NEW r, RowOK(b, r), NEW t
  PROVE  RowOK(b, Worked(t, r)) /\ RowOK(b, [r EXCEPT !.mapped = TRUE])
BY DEF RowOK, Worked
LEMMA ReadRowsOK ==
  ASSUME StoreOK(book), NEW ids \in SUBSET DOMAIN book.rows
  PROVE  RowsOK(book, OnlyRows(book.rows, ids))
BY DEF StoreOK, RowsOK, OnlyRows

LEMMA OperateKeepsBook ==
  ASSUME BookInv, NEW w \in Worker, Operate(w) \/ Stops(w) PROVE BookInv'
<1>. DEFINE j == job[w]
            n == job'[w]
<1>0. StoreOK(book) /\ BookShape(book) /\ JobOK(book, j) /\ DOMAIN job = Worker /\ RowsOK(book, j.rows)
  BY DEF BookInv, StoreOK, JobOK
<1>1. ASSUME NEW pc, NEW rows, job' = [job EXCEPT ![w] = [job[w] EXCEPT !.pc = pc, !.rows = rows]],
             pc \in {"work", "map"}, RowsOK(book, rows), StoreOK(book'), Grows(book, book')
      PROVE  BookInv'
  <2>1. JobStep(w) /\ n = [j EXCEPT !.pc = pc, !.rows = rows]
    BY <1>0, <1>1 DEF JobStep
  <2>2. JobOK(book, n)
    BY <1>0, <1>1, <2>1 DEF JobOK
  <2>. QED  BY <1>0, <1>1, <2>1, <2>2, JobStaysOK, WorkerKeepsBook
<1>2. CASE Collect(w)
  <2>1. CASE Ends(w)
    BY <1>2, <2>1, SameBook, EndsKeepsBook DEF Collect
  <2>2. CASE ~Ends(w)
    <3>. DEFINE ids == Selected(j.task, j.doc)
                rows == OnlyRows(book.rows, ids)
    <3>1. ids \in SUBSET DOMAIN book.rows
      BY DEF Selected, RowsOf, ChunksToTranslate
    <3>2. RowsOK(book, rows)
      BY <1>0, <3>1, ReadRowsOK
    <3>3. job' = [job EXCEPT ![w] = [job[w] EXCEPT !.pc = "work", !.rows = rows]] /\ book' = book
      BY <1>2, <2>2 DEF Collect
    <3>. HIDE DEF rows
    <3>. QED  BY <1>1, <3>2, <3>3, SameBook
  <2>. QED  BY <2>1, <2>2
<1>3. CASE Answer(w)
  <2>1. PICK i \in DOMAIN j.rows :
          LET new == [k \in {i} |-> Worked(j.task, j.rows[i])] IN
          IF UpsertFails(book, new) THEN Ends(w) /\ UNCHANGED book
          ELSE /\ book' = UpsertChunks(book, new)
               /\ job' = [job EXCEPT ![w].rows = OnlyRows(@, DOMAIN @ \ {i})]
    BY <1>3 DEF Answer
  <2>. DEFINE new == [k \in {i} |-> Worked(j.task, j.rows[i])]
              rows == OnlyRows(j.rows, DOMAIN j.rows \ {i})
  <2>2. RowsOK(book, new)
    BY <1>0, WorkedRow DEF RowsOK
  <2>3. CASE UpsertFails(book, new)
    BY <2>1, <2>3, SameBook, EndsKeepsBook
  <2>4. CASE ~UpsertFails(book, new)
    <3>1. book' = UpsertChunks(book, new) /\ job' = [job EXCEPT ![w].rows = rows] /\ j.pc = "work"
      BY <1>3, <2>1, <2>4 DEF Answer
    <3>2. RowsOK(book, rows)
      BY <1>0 DEF RowsOK, OnlyRows
    <3>. HIDE DEF new, rows
    <3>3. StoreOK(book') /\ Grows(book, book')
      BY <1>0, <2>2, <3>1, UpsertKeepsStore
    <3>4. JobStep(w) /\ n = [j EXCEPT !.rows = rows]
      BY <1>0, <3>1 DEF JobStep
    <3>5. JobOK(book, n)
      BY <1>0, <3>1, <3>2, <3>4 DEF JobOK
    <3>. QED  BY <1>0, <3>3, <3>4, <3>5, JobStaysOK, WorkerKeepsBook
  <2>. QED  BY <2>3, <2>4
<1>4. CASE WorkDone(w)
  <2>1. CASE Ends(w)
    BY <1>4, <2>1, SameBook, EndsKeepsBook DEF WorkDone
  <2>2. CASE ~Ends(w)
    <3>. DEFINE ids == {i \in RowsOf(book.rows, j.doc) : ~book.rows[i].mapped}
                rows == OnlyRows(book.rows, ids)
    <3>1. ids \in SUBSET DOMAIN book.rows
      BY DEF RowsOf
    <3>2. RowsOK(book, rows)
      BY <1>0, <3>1, ReadRowsOK
    <3>3. job' = [job EXCEPT ![w] = [job[w] EXCEPT !.pc = "map", !.rows = rows]] /\ book' = book
      BY <1>4, <2>2 DEF WorkDone
    <3>. HIDE DEF rows
    <3>. QED  BY <1>1, <3>2, <3>3, SameBook
  <2>. QED  BY <2>1, <2>2
<1>5. CASE MapOccurrences(w)
  <2>. DEFINE new == [i \in DOMAIN j.rows |-> [j.rows[i] EXCEPT !.mapped = TRUE]]
  <2>1. RowsOK(book, new)
    BY <1>0, WorkedRow DEF RowsOK
  <2>2. Ends(w) /\ (book' = book \/ book' = UpsertChunks(book, new))
    BY <1>5 DEF MapOccurrences
  <2>. HIDE DEF new
  <2>. QED  BY <1>0, <2>1, <2>2, UpsertKeepsStore, SameBook, EndsKeepsBook
<1>6. CASE OcrPage(w)
  <2>1. PICK p, t : /\ book' = UpdateSourceOcr(book, j.doc, p, t) /\ j.pc = "ocr"
                    /\ job' = [job EXCEPT ![w].todo = j.todo \ {p}]
    BY <1>6 DEF OcrPage
  <2>2. StoreOK(book') /\ Grows(book, book')
    BY <1>0, <2>1, OcrKeepsStore
  <2>3. JobStep(w) /\ n = [j EXCEPT !.todo = j.todo \ {p}]
    BY <1>0, <2>1 DEF JobStep
  <2>4. JobOK(book, n)
    BY <1>0, <2>1, <2>3 DEF JobOK
  <2>. QED  BY <1>0, <2>2, <2>3, <2>4, JobStaysOK, WorkerKeepsBook
<1>7. CASE OcrDone(w) \/ Stops(w)
  BY <1>7, SameBook, EndsKeepsBook DEF OcrDone, Stops
<1>. QED  BY <1>2, <1>3, <1>4, <1>5, <1>6, <1>7 DEF Operate

\* What the user does to the book leaves the jobs alone.
LEMMA UserKeepsBook ==
  ASSUME BookInv
  PROVE  /\ \A d : Edit(d) => BookInv'
         /\ ImportDocuments => BookInv'
         /\ Crash => BookInv'
         /\ UNCHANGED <<book, job>> => BookInv'
<1>0. StoreOK(book)
  BY DEF BookInv
<1>1. ASSUME job' = job, StoreOK(book'), Grows(book, book') PROVE BookInv'
  BY <1>0, <1>1, JobStaysOK DEF BookInv, StoreOK
<1>2. ASSUME NEW d, Edit(d) PROVE BookInv'
  <2>1. CASE SaveOcr(d)
    <3>1. PICK p, t : book' = ResetDocumentStack(UpdateSourceOcr(book, d, p, t), d) /\ job' = job
      BY <2>1 DEF SaveOcr
    <3>. DEFINE b == UpdateSourceOcr(book, d, p, t)
    <3>2. StoreOK(b) /\ Grows(book, b)
      BY <1>0, OcrKeepsStore
    <3>. HIDE DEF b
    <3>3. StoreOK(book') /\ Grows(b, book') /\ book'.docs = b.docs
      <4>1. PICK r, a : ResetDocumentStack(b, d) = [b EXCEPT !.rows = r, !.added = a, !.lang = FALSE]
        BY DEF ResetDocumentStack, ResetRows
      <4>. QED  BY <3>1, <3>2, <4>1, StackKeepsStore DEF b, StoreOK, BookShape
    <3>4. Grows(book, book')
      BY <1>0, <3>2, <3>3 DEF Grows, Evolves, BookShape, StoreOK
    <3>. QED  BY <1>1, <3>1, <3>3, <3>4
  <2>2. CASE SaveTranslation(d)
    <3>1. PICK i \in RowsOf(book.rows, d), t \in {"user", NotTranslated} :
             book' = UpsertChunks(book, [k \in {i} |-> [book.rows[i] EXCEPT !.translation = t]])
      BY <2>2 DEF SaveTranslation
    <3>. DEFINE new == [k \in {i} |-> [book.rows[i] EXCEPT !.translation = t]]
    <3>2. RowsOK(book, new)
      BY <1>0 DEF RowsOK, RowOK, RowsOf, StoreOK
    <3>. HIDE DEF new
    <3>. QED  BY <1>0, <1>1, <2>2, <3>1, <3>2, UpsertKeepsStore DEF SaveTranslation, new
  <2>3. CASE ResetStack(d) \/ DeleteStack(d)
    BY <1>0, <1>1, <2>3, StackKeepsStore DEF ResetStack, DeleteStack
  <2>. QED  BY <1>2, <2>1, <2>2, <2>3 DEF Edit
<1>3. ImportDocuments => BookInv'
  BY <1>0, <1>1, ImportKeepsStore DEF ImportDocuments
<1>4. Crash => BookInv'
  <2>. SUFFICES ASSUME Crash PROVE BookInv'
    OBVIOUS
  <2>1. book' = book /\ job' = [w \in Worker |-> NoJob]
    BY DEF Crash
  <2>. QED  BY <2>1, NoJobIsOK, SameBook DEF BookInv
<1>5. UNCHANGED <<book, job>> => BookInv'
  BY <1>1, SameBook
<1>. QED  BY <1>2, <1>3, <1>4, <1>5
-----------------------------------------------------------------------------
(* The chunk rows under the tasks and the user.                            *)

\* The claims of chunks are told apart: ToString gives different numbers different texts.
KeysDiffer == \A i, k \in Nat : Key(i) = Key(k) => i = k

\* The ids of rows are numbers, with a largest one.
Numbered(rows) ==
  /\ DOMAIN rows \subseteq Nat /\ \E n \in Nat : \A i \in DOMAIN rows : i <= n
  /\ DOMAIN rows = {} => rows = <<>>
HashesDiffer(rows) == \A i, k \in DOMAIN rows : Hash(rows[i]) = Hash(rows[k]) => i = k
RowsSound(rows) == Numbered(rows) /\ HashesDiffer(rows)

\* A transaction that keeps the rows, and writes those with these ids only
Keeps(rows, new, ids) ==
  \A i \in DOMAIN rows : /\ i \in DOMAIN new /\ Hash(new[i]) = Hash(rows[i])
                         /\ i \notin ids => new[i] = rows[i]

\* Rows that are put beside those there are
Joined(rows, new, all) ==
  /\ DOMAIN all = DOMAIN rows \cup DOMAIN new
  /\ \A i \in DOMAIN rows : all[i] = rows[i]
  /\ \A i \in DOMAIN new : all[i] = new[i]

\* Rows cut from a text that has none yet are inserted, and nothing else is written.
LEMMA InsertKeepsRows ==
  ASSUME NEW b, BookShape(b), RowsSound(b.rows), NEW new, RowsSound(new), ~UpsertFails(b, new),
         \A k \in DOMAIN new : Hash(new[k]) \notin Hashes(b.rows)
  PROVE  LET rows == UpsertChunks(b, new).rows IN
         RowsSound(rows) /\ Keeps(b.rows, rows, {}) /\ Joined(b.rows, new, rows)
<1>. DEFINE ins == Inserted(b.rows, new)
            upd == {Hash(new[i]) : i \in DOMAIN new \ ins}
            rows == [i \in DOMAIN b.rows \cup ins |->
                       IF i \notin DOMAIN b.rows THEN new[i]
                       ELSE IF Hash(b.rows[i]) \in upd THEN new[RowWithHash(new, Hash(b.rows[i]))]
                       ELSE b.rows[i]]
<1>1. UpsertChunks(b, new) = [b EXCEPT !.rows = rows]
  BY DEF UpsertChunks
<1>2. ins = DOMAIN new
  BY DEF Inserted
<1>3. upd = {}
  BY <1>2
<1>4. /\ DOMAIN rows = DOMAIN b.rows \cup DOMAIN new
      /\ \A i \in DOMAIN b.rows : rows[i] = b.rows[i]
      /\ \A i \in DOMAIN new : i \notin DOMAIN b.rows /\ rows[i] = new[i]
      /\ DOMAIN rows = {} => rows = <<>>
  BY <1>2, <1>3 DEF UpsertFails
<1>. HIDE DEF rows, ins
<1>5. UpsertChunks(b, new).rows = rows
  BY <1>1 DEF BookShape
<1>6. HashesDiffer(rows)
  BY <1>4 DEF HashesDiffer, Hashes, RowsSound
<1>7. Numbered(rows)
  <2>1. PICK n \in Nat : \A i \in DOMAIN b.rows : i <= n
    BY DEF RowsSound, Numbered
  <2>2. PICK m \in Nat : \A i \in DOMAIN new : i <= m
    BY DEF RowsSound, Numbered
  <2>3. DOMAIN rows \subseteq Nat
    BY <1>4 DEF RowsSound, Numbered
  <2>4. n + m \in Nat /\ \A i \in DOMAIN rows : i <= n + m
    BY <1>4, <2>1, <2>2, <2>3
  <2>. QED  BY <1>4, <2>3, <2>4 DEF Numbered
<1>. QED  BY <1>4, <1>5, <1>6, <1>7 DEF RowsSound, Keeps, Joined

\* Rows that are stored under the same hash are written back under their own ids.
LEMMA UpdateKeepsRows ==
  ASSUME NEW b, BookShape(b), RowsSound(b.rows), NEW new,
         \A k \in DOMAIN new : k \in DOMAIN b.rows /\ Hash(new[k]) = Hash(b.rows[k])
  PROVE  LET rows == UpsertChunks(b, new).rows IN
         RowsSound(rows) /\ Keeps(b.rows, rows, DOMAIN new) /\ DOMAIN rows = DOMAIN b.rows
<1>. DEFINE ins == Inserted(b.rows, new)
            upd == {Hash(new[i]) : i \in DOMAIN new \ ins}
            rows == [i \in DOMAIN b.rows \cup ins |->
                       IF i \notin DOMAIN b.rows THEN new[i]
                       ELSE IF Hash(b.rows[i]) \in upd THEN new[RowWithHash(new, Hash(b.rows[i]))]
                       ELSE b.rows[i]]
<1>1. UpsertChunks(b, new) = [b EXCEPT !.rows = rows]
  BY DEF UpsertChunks
<1>2. ins = {}
  BY DEF Inserted, Hashes
<1>3. DOMAIN rows = DOMAIN b.rows /\ (DOMAIN rows = {} => rows = <<>>)
  BY <1>2
<1>4. ASSUME NEW i \in DOMAIN b.rows
      PROVE  Hash(rows[i]) = Hash(b.rows[i]) /\ (i \notin DOMAIN new => rows[i] = b.rows[i])
  <2>1. CASE Hash(b.rows[i]) \in upd
    <3>1. PICK k \in DOMAIN new : Hash(new[k]) = Hash(b.rows[i])
      BY <2>1
    <3>2. k = i
      BY <3>1 DEF RowsSound, HashesDiffer
    <3>3. Hash(new[RowWithHash(new, Hash(b.rows[i]))]) = Hash(b.rows[i])
      BY <3>1 DEF RowWithHash
    <3>4. rows[i] = new[RowWithHash(new, Hash(b.rows[i]))]
      BY <2>1
    <3>. QED  BY <3>2, <3>3, <3>4
  <2>2. CASE Hash(b.rows[i]) \notin upd
    BY <2>2
  <2>. QED  BY <2>1, <2>2
<1>. HIDE DEF rows
<1>5. UpsertChunks(b, new).rows = rows
  BY <1>1 DEF BookShape
<1>6. HashesDiffer(rows) /\ Numbered(rows)
  BY <1>3, <1>4 DEF HashesDiffer, Numbered, RowsSound
<1>. QED  BY <1>3, <1>4, <1>5, <1>6 DEF RowsSound, Keeps

LEMMA LeftRowsAreSound ==
  ASSUME NEW rows, RowsSound(rows), NEW ids
  PROVE  RowsSound(OnlyRows(rows, DOMAIN rows \ ids))
<1>. DEFINE left == OnlyRows(rows, DOMAIN rows \ ids)
<1>1. /\ DOMAIN left \subseteq DOMAIN rows /\ \A i \in DOMAIN left : left[i] = rows[i]
      /\ DOMAIN left = {} => left = <<>>
  BY DEF OnlyRows
<1>. HIDE DEF left
<1>2. RowsSound(left)
  BY <1>1 DEF RowsSound, Numbered, HashesDiffer
<1>. QED  BY <1>2 DEF left

\* What the transactions leave alone
Same(b, c) == c.last = b.last /\ c.type = b.type /\ c.docs = b.docs /\ DOMAIN c = DOMAIN b
LEMMA OcrKeepsRows ==
  ASSUME NEW b, BookShape(b), NEW d, NEW p, NEW t
  PROVE  Same(b, UpdateSourceOcr(b, d, p, t)) /\ UpdateSourceOcr(b, d, p, t).rows = b.rows
<1>1. PICK r : UpdateSourceOcr(b, d, p, t) = [b EXCEPT !.page = r]
  BY DEF UpdateSourceOcr
<1>. QED  BY <1>1 DEF Same, BookShape
LEMMA UpsertKeepsBook ==
  ASSUME NEW b, BookShape(b), NEW new
  PROVE  Same(b, UpsertChunks(b, new))
<1>1. PICK r : UpsertChunks(b, new) = [b EXCEPT !.rows = r]
  BY DEF UpsertChunks
<1>. QED  BY <1>1 DEF Same, BookShape
LEMMA FlagsKeepRows ==
  ASSUME NEW b, BookShape(b), NEW d
  PROVE  /\ Same(b, MarkTextAdded(b, d)) /\ MarkTextAdded(b, d).rows = b.rows
         /\ Same(b, SetLanguage(b)) /\ SetLanguage(b).rows = b.rows
BY DEF MarkTextAdded, SetLanguage, Same, BookShape
LEMMA StackKeepsRows ==
  ASSUME NEW b, BookShape(b), NEW d
  PROVE  /\ Same(b, ResetDocumentStack(b, d))
         /\ ResetDocumentStack(b, d).rows = OnlyRows(b.rows, DOMAIN b.rows \ FromFirstRowOf(b, StackOf(b, d)))
         /\ DeleteDocumentsStack(b, d).last = b.last /\ DeleteDocumentsStack(b, d).type = b.type
         /\ DeleteDocumentsStack(b, d).rows = ResetDocumentStack(b, d).rows
<1>. DEFINE c == ResetDocumentStack(b, d)
            left == OnlyRows(b.rows, DOMAIN b.rows \ FromFirstRowOf(b, StackOf(b, d)))
<1>1. Same(b, c) /\ c.rows = left
  <2>. HIDE DEF left
  <2>1. PICK a : c = [b EXCEPT !.rows = left, !.added = a, !.lang = FALSE]
    BY DEF ResetDocumentStack, ResetRows, left
  <2>. QED  BY <2>1 DEF Same, BookShape
<1>2. LET e == DeleteDocumentsStack(b, d) IN e.last = b.last /\ e.type = b.type /\ e.rows = c.rows
  <2>1. PICK k, a, g : DeleteDocumentsStack(b, d) = [c EXCEPT !.docs = k, !.added = a, !.page = g]
    BY DEF DeleteDocumentsStack
  <2>. HIDE DEF c
  <2>. QED  BY <1>1, <2>1 DEF Same, BookShape
<1>. QED  BY <1>1, <1>2

-----------------------------------------------------------------------------
(* The claims that keep the tasks apart.                                   *)

WriterTypes == {"translation_text", "translation_manga", "chunk_retranslation", "glossary_extraction"}
RunTypes == WriterTypes \cup {"ocr", "glossary_review"}
\* A task names its document, unless it is a review.
Named(t, d) ==
  /\ t.type \in RunTypes /\ t.book = "b"
  /\ t.type # "glossary_review" => t.docs = {Key(d)}

\* A task holds its document, or all of them, against exclusive claims.
LEMMA HoldsDocument ==
  ASSUME NEW t, NEW d, Named(t, d)
  PROVE  \E c \in HandlerClaims(t) :
           /\ c.namespace = "doc" /\ c.book = "b" /\ c.mode \in {WRITE_EXCLUSIVE, WRITE_COOPERATIVE}
           /\ IF t.type = "glossary_review" THEN c.key = AnyKey /\ c.mode = WRITE_EXCLUSIVE ELSE c.key = Key(d)
<1>1. CASE t.type = "glossary_review"
  <2>1. ResourceClaim("doc", t, AnyKey, WRITE_EXCLUSIVE) \in HandlerClaims(t)
    BY <1>1 DEF HandlerClaims, TranslationTypes, GlossaryRewriteTypes, GlossaryRewriteClaims
  <2>. QED  BY <1>1, <2>1 DEF ResourceClaim, Named
<1>2. CASE t.type # "glossary_review"
  <2>1. \E m \in {WRITE_EXCLUSIVE, WRITE_COOPERATIVE} : DocClaims(t, m) \subseteq HandlerClaims(t)
    BY <1>2 DEF Named, RunTypes, WriterTypes, HandlerClaims, TranslationTypes, GlossaryRewriteTypes,
       TranslationClaims, GlossaryExtractionClaims, ChunkRetranslationClaims, OcrClaims
  <2>2. PICK m \in {WRITE_EXCLUSIVE, WRITE_COOPERATIVE} : ResourceClaim("doc", t, Key(d), m) \in HandlerClaims(t)
    BY <1>2, <2>1 DEF Named, DocClaims
  <2>. QED  BY <1>2, <2>2 DEF ResourceClaim, Named
<1>. QED  BY <1>1, <1>2

\* Two tasks that write chunk rows of the same document never run together.
LEMMA WritersClash ==
  ASSUME NEW t, NEW u, NEW d, Named(t, d), Named(u, d), t.type \in WriterTypes, u.type \in WriterTypes
  PROVE  Conflicts(HandlerClaims(t), HandlerClaims(u))
<1>1. ASSUME NEW s, Named(s, d), s.type \in WriterTypes, s.type # "chunk_retranslation"
      PROVE  ResourceClaim("doc", s, Key(d), WRITE_EXCLUSIVE) \in HandlerClaims(s)
  BY <1>1 DEF Named, RunTypes, WriterTypes, HandlerClaims, TranslationTypes, GlossaryRewriteTypes,
     TranslationClaims, GlossaryExtractionClaims, DocClaims
<1>2. ASSUME NEW s, Named(s, d), s.type = "chunk_retranslation"
      PROVE  ResourceClaim("translation_snapshot", s, Key(d), WRITE_EXCLUSIVE) \in HandlerClaims(s)
  BY <1>2 DEF Named, HandlerClaims, TranslationTypes, GlossaryRewriteTypes, ChunkRetranslationClaims
<1>3. CASE t.type # "chunk_retranslation"
  <2>1. PICK c \in HandlerClaims(u) :
          /\ c.namespace = "doc" /\ c.book = "b" /\ c.mode \in {WRITE_EXCLUSIVE, WRITE_COOPERATIVE} /\ c.key = Key(d)
    BY HoldsDocument DEF WriterTypes
  <2>2. ClaimsClash(ResourceClaim("doc", t, Key(d), WRITE_EXCLUSIVE), c)
    BY <2>1 DEF ClaimsClash, ResourceClaim, ModesConflict, Named, WRITE_EXCLUSIVE, WRITE_COOPERATIVE, READ_SHARED
  <2>. QED  BY <1>1, <1>3, <2>2 DEF Conflicts
<1>4. CASE u.type # "chunk_retranslation"
  <2>1. PICK c \in HandlerClaims(t) :
          /\ c.namespace = "doc" /\ c.book = "b" /\ c.mode \in {WRITE_EXCLUSIVE, WRITE_COOPERATIVE} /\ c.key = Key(d)
    BY HoldsDocument DEF WriterTypes
  <2>2. ClaimsClash(c, ResourceClaim("doc", u, Key(d), WRITE_EXCLUSIVE))
    BY <2>1 DEF ClaimsClash, ResourceClaim, ModesConflict, Named, WRITE_EXCLUSIVE, WRITE_COOPERATIVE, READ_SHARED
  <2>. QED  BY <1>1, <1>4, <2>2 DEF Conflicts
<1>5. CASE t.type = "chunk_retranslation" /\ u.type = "chunk_retranslation"
  <2>1. ClaimsClash(ResourceClaim("translation_snapshot", t, Key(d), WRITE_EXCLUSIVE),
                    ResourceClaim("translation_snapshot", u, Key(d), WRITE_EXCLUSIVE))
    BY DEF ClaimsClash, ResourceClaim, ModesConflict, Named, WRITE_EXCLUSIVE, WRITE_COOPERATIVE, READ_SHARED
  <2>. QED  BY <1>2, <1>5, <2>1 DEF Conflicts
<1>. QED  BY <1>3, <1>4, <1>5

\* A review runs alone.
LEMMA ReviewClashes ==
  ASSUME NEW t, NEW u, NEW d, NEW e, Named(t, d), Named(u, e), t.type = "glossary_review"
  PROVE  Conflicts(HandlerClaims(t), HandlerClaims(u))
<1>1. PICK c \in HandlerClaims(t) :
        c.namespace = "doc" /\ c.book = "b" /\ c.key = AnyKey /\ c.mode = WRITE_EXCLUSIVE
  BY HoldsDocument
<1>2. PICK a \in HandlerClaims(u) :
        a.namespace = "doc" /\ a.book = "b" /\ a.mode \in {WRITE_EXCLUSIVE, WRITE_COOPERATIVE}
  BY HoldsDocument
<1>3. ClaimsClash(c, a)
  BY <1>1, <1>2 DEF ClaimsClash, ModesConflict, WRITE_EXCLUSIVE, WRITE_COOPERATIVE, READ_SHARED
<1>. QED  BY <1>3 DEF Conflicts

LEMMA ConflictsBothWays ==
  ASSUME NEW A, NEW B, Conflicts(A, B) PROVE Conflicts(B, A)
<1>1. \A c, a : ClaimsClash(c, a) => ClaimsClash(a, c)
  BY DEF ClaimsClash, ModesConflict
<1>. QED  BY <1>1 DEF Conflicts

\* A mutation of the stack, or a save of a document, waits for the tasks.
LEMMA TasksHoldOff ==
  ASSUME NEW w \in Busy, NEW d, Named(job[w].task, d)
  PROVE  StackBusy /\ SaveBusy(d)
<1>1. PICK c \in HandlerClaims(job[w].task) :
        /\ c.namespace = "doc" /\ c.book = "b" /\ c.mode \in {WRITE_EXCLUSIVE, WRITE_COOPERATIVE}
        /\ c.key = Key(d) \/ c.key = AnyKey
  BY HoldsDocument
<1>2. c \in ActiveClaims
  BY DEF ActiveClaims
<1>3. NoTask.book = "b"
  BY DEF NoTask
<1>4. ClaimsClash(ResourceClaim("doc", NoTask, AnyKey, WRITE_EXCLUSIVE), c)
  BY <1>1, <1>3 DEF ClaimsClash, ResourceClaim, ModesConflict, WRITE_EXCLUSIVE, WRITE_COOPERATIVE, READ_SHARED
<1>5. ClaimsClash(ResourceClaim("doc", NoTask, Key(d), WRITE_EXCLUSIVE), c)
  BY <1>1, <1>3 DEF ClaimsClash, ResourceClaim, ModesConflict, WRITE_EXCLUSIVE, WRITE_COOPERATIVE, READ_SHARED
<1>6. SaveBusy(d)
  BY <1>2, <1>5 DEF SaveBusy, HasActiveClaims, Claimed, Conflicts
<1>7. Claimed("doc", AnyKey) \subseteq UNION {Claimed(ns, AnyKey) : ns \in {"doc", "glossary_state", "term_memory", "ocr"}}
  BY Zenon
<1>8. StackBusy
  BY <1>2, <1>4, <1>7 DEF StackBusy, HasActiveClaims, Claimed, Conflicts
<1>. QED  BY <1>6, <1>8

-----------------------------------------------------------------------------
(* What the tasks have in hand.                                            *)

Writing  == {"work", "map"}
Chunking == {"prepare", "text", "store", "detect"}
\* The row that a retranslation was started for stays a row of its document, and
\* the steps of a task are those of its type.
JobNamed(rows, j) ==
  /\ Named(j.task, j.doc)
  /\ j.task.type = "chunk_retranslation" => \E i \in RowsOf(rows, j.doc) : j.task.chunk = Key(i)
  /\ j.task.type = "ocr" => j.pc = "ocr"
  /\ j.task.type = "glossary_review" => j.pc \in Chunking \cup {"review"}
  /\ j.pc = "review" => j.task.type = "glossary_review"
\* What a task writes back is what is stored; what it has cut is new.
Mirrors(rows, j) ==
  j.pc \in Writing =>
    \A k \in DOMAIN j.rows : k \in DOMAIN rows /\ rows[k] = j.rows[k] /\ rows[k].doc = j.doc
Fresh(rows, j) ==
  j.pc = "store" => RowsSound(j.rows) /\ \A k \in DOMAIN j.rows : Hash(j.rows[k]) \notin Hashes(rows)
Holds(rows, j) == (j # NoJob => JobNamed(rows, j)) /\ Mirrors(rows, j) /\ Fresh(rows, j)

\* The tasks at work hold claims that do not conflict, and one at most cuts documents.
ClaimsApart ==
  \A u, v \in Busy : u # v => ~Conflicts(HandlerClaims(job[u].task), HandlerClaims(job[v].task))
Locked == \A w \in Worker : job[w].pc \in Chunking => lock = w \/ IsReview(w)

WritesInv ==
  /\ RowsSound(book.rows) /\ \A w \in Worker : Holds(book.rows, job[w])
  /\ ClaimsApart /\ Locked

\* Another's transaction leaves in hand what is in hand.
LEMMA OthersHold ==
  ASSUME NEW rows, NEW new, NEW ids, Keeps(rows, new, ids), NEW j, Holds(rows, j),
         j.pc \in Writing => \A k \in DOMAIN j.rows : k \notin ids,
         j.pc = "store" => Hashes(new) \subseteq Hashes(rows)
  PROVE  Holds(new, j)
<1>1. \A i \in DOMAIN rows : i \in DOMAIN new /\ new[i].doc = rows[i].doc
  BY DEF Keeps, Hash
<1>2. RowsOf(rows, j.doc) \subseteq RowsOf(new, j.doc)
  BY <1>1 DEF RowsOf
<1>3. j # NoJob => JobNamed(new, j)
  BY <1>2 DEF Holds, JobNamed
<1>4. Mirrors(new, j)
  BY DEF Holds, Mirrors, Keeps
<1>5. Fresh(new, j)
  BY DEF Holds, Fresh
<1>. QED  BY <1>3, <1>4, <1>5 DEF Holds

LEMMA IdleHolds ==
  ASSUME NEW rows PROVE Holds(rows, NoJob) /\ NoJob.pc = "idle" /\ NoJob.pc \notin Chunking
BY DEF Holds, Mirrors, Fresh, NoJob, Writing, Chunking

LEMMA WorkerKeepsWrites ==
  ASSUME DOMAIN job = Worker, WritesInv, NEW w \in Worker, JobStep(w), NEW ids,
         Keeps(book.rows, book'.rows, ids), RowsSound(book'.rows),
         \A u \in Worker \ {w} : /\ job[u].pc \in Writing => \A k \in DOMAIN job[u].rows : k \notin ids
                                 /\ job[u].pc = "store" => Hashes(book'.rows) \subseteq Hashes(book.rows),
         Holds(book'.rows, job'[w]), job'[w] = NoJob \/ (job[w] # NoJob /\ job'[w].task = job[w].task),
         Locked'
  PROVE  WritesInv'
<1>1. \A u \in Worker \ {w} : job'[u] = job[u]
  BY DEF JobStep
<1>2. \A u \in Worker : Holds(book'.rows, job'[u])
  BY <1>1, OthersHold DEF WritesInv
<1>3. \A u \in Busy' : u \in Busy /\ job'[u].task = job[u].task
  BY <1>1 DEF Busy
<1>4. ClaimsApart'
  BY <1>3 DEF WritesInv, ClaimsApart
<1>. QED  BY <1>2, <1>4 DEF WritesInv

LEMMA LockKept ==
  ASSUME DOMAIN job = Worker, Locked, NEW w \in Worker, JobStep(w),
         \/ lock' = lock /\ (job'[w].pc \in Chunking => lock = w \/ job'[w].task.type = "glossary_review")
         \/ lock = Free /\ lock' = w
         \/ lock' = (IF lock = w THEN Free ELSE lock) /\ job'[w].pc \notin Chunking
  PROVE  Locked'
<1>1. \A u \in Worker \ {w} : job'[u] = job[u]
  BY DEF JobStep
<1>. QED  BY <1>1, FreeAssumption DEF Locked, IsReview

LEMMA OneChunks ==
  ASSUME WritesInv, NEW u \in Worker, NEW w \in Worker, u # w, job[u].pc \in Chunking, job[w].pc \in Chunking
  PROVE  FALSE
<1>1. u \in Busy /\ w \in Busy
  BY IdleHolds DEF Busy
<1>2. Named(job[u].task, job[u].doc) /\ Named(job[w].task, job[w].doc)
  BY <1>1 DEF WritesInv, Holds, JobNamed, Busy
<1>3. IsReview(u) \/ IsReview(w)
  BY DEF WritesInv, Locked
<1>4. Conflicts(HandlerClaims(job[u].task), HandlerClaims(job[w].task))
  BY <1>2, <1>3, ReviewClashes, ConflictsBothWays DEF IsReview
<1>. QED  BY <1>1, <1>4 DEF WritesInv, ClaimsApart

\* Two tasks that write rows do so in different documents.
LEMMA WritersApart ==
  ASSUME WritesInv, NEW u \in Worker, NEW w \in Worker, u # w, job[u].pc \in Writing, job[w].pc \in Writing
  PROVE  job[u].doc # job[w].doc
<1>1. u \in Busy /\ w \in Busy
  BY IdleHolds DEF Busy, Writing
<1>2. /\ JobNamed(book.rows, job[u]) /\ job[u].task.type \in WriterTypes
      /\ JobNamed(book.rows, job[w]) /\ job[w].task.type \in WriterTypes
  BY <1>1 DEF WritesInv, Holds, JobNamed, Busy, Named, RunTypes, Writing, Chunking
<1>. QED  BY <1>1, <1>2, WritersClash DEF JobNamed, WritesInv, ClaimsApart

\* A step that leaves the rows alone
LEMMA QuietStep ==
  ASSUME DOMAIN job = Worker, WritesInv, NEW w \in Worker, JobStep(w), book'.rows = book.rows,
         Holds(book.rows, job'[w]), job'[w] = NoJob \/ (job[w] # NoJob /\ job'[w].task = job[w].task),
         Locked'
  PROVE  WritesInv'
<1>1. Keeps(book.rows, book'.rows, {})
  BY DEF Keeps
<1>. QED  BY <1>1, WorkerKeepsWrites DEF WritesInv

\* The end of a task, whatever rows it wrote last
LEMMA EndsKeepsWrites ==
  ASSUME DOMAIN job = Worker, WritesInv, NEW w \in Worker, Ends(w), NEW ids,
         Keeps(book.rows, book'.rows, ids), RowsSound(book'.rows),
         \A u \in Worker \ {w} : /\ job[u].pc \in Writing => \A k \in DOMAIN job[u].rows : k \notin ids
                                 /\ job[u].pc = "store" => Hashes(book'.rows) \subseteq Hashes(book.rows)
  PROVE  WritesInv'
<1>1. JobStep(w) /\ job'[w] = NoJob
  BY DEF Ends, JobStep
<1>2. Locked'
  BY <1>1, IdleHolds, LockKept DEF Ends, WritesInv
<1>. QED  BY <1>1, <1>2, IdleHolds, WorkerKeepsWrites
LEMMA StopKeepsWrites ==
  ASSUME DOMAIN job = Worker, WritesInv, NEW w \in Worker, Ends(w), book'.rows = book.rows
  PROVE  WritesInv'
<1>1. Keeps(book.rows, book'.rows, {})
  BY DEF Keeps
<1>. QED  BY <1>1, EndsKeepsWrites DEF WritesInv

-----------------------------------------------------------------------------
(* The preparation of documents, and the rows.                             *)

LEMMA NoRowsAtAll ==
  ASSUME NEW f, f = [i \in DOMAIN f |-> f[i]], DOMAIN f = {} PROVE f = <<>>
OBVIOUS

\* A text is cut into rows that are not stored, one for each text.
LEMMA CutRowsAreFresh ==
  ASSUME Numbered(book.rows), NEW d, NEW pieces
  PROVE  LET new == NewRows(d, pieces, NextChunkId(book.rows)) IN
         RowsSound(new) /\ \A k \in DOMAIN new : Hash(new[k]) \notin Hashes(book.rows)
<1>. DEFINE first == NextChunkId(book.rows)
            fresh == {k \in 1..Len(pieces) : /\ <<d, pieces[k]>> \notin Hashes(book.rows)
                                             /\ \A j \in 1..(k - 1) : pieces[j] # pieces[k]}
            new == [i \in {first + k - 1 : k \in fresh} |-> Row(d, pieces[i - first + 1])]
<1>1. first \in Nat
  <2>1. CASE book.rows = <<>>
    BY <2>1 DEF NextChunkId
  <2>2. CASE book.rows # <<>>
    <3>1. Max(DOMAIN book.rows) \in DOMAIN book.rows
      BY <2>2, MaxIsGreatest DEF Numbered
    <3>. QED  BY <2>2, <3>1 DEF NextChunkId, Numbered
  <2>. QED  BY <2>1, <2>2
<1>2. NewRows(d, pieces, first) = new
  BY DEF NewRows
<1>3. Len(pieces) \in Nat
  OBVIOUS
<1>. HIDE DEF first
<1>4. \A k \in fresh : first + k - 1 \in Nat /\ first + k - 1 <= first + Len(pieces)
  BY <1>1, <1>3
<1>5. \A i \in DOMAIN new : \E k \in fresh : i = first + k - 1 /\ Hash(new[i]) = <<d, pieces[k]>>
  <2>. SUFFICES ASSUME NEW k \in fresh PROVE Hash(new[first + k - 1]) = <<d, pieces[k]>>
    OBVIOUS
  <2>1. (first + k - 1) - first + 1 = k
    BY <1>1
  <2>2. new[first + k - 1] = Row(d, pieces[k])
    BY <2>1
  <2>. QED  BY <2>2 DEF Hash, Row
<1>6. DOMAIN new = {} => new = <<>>
  <2>1. new = [i \in DOMAIN new |-> new[i]]
    OBVIOUS
  <2>. HIDE DEF new
  <2>. QED  BY <2>1, NoRowsAtAll
<1>7. DOMAIN new \subseteq Nat /\ \A i \in DOMAIN new : i <= first + Len(pieces)
  BY <1>4
<1>8. \A k, l \in fresh : pieces[k] = pieces[l] => k = l
  OBVIOUS
<1>. HIDE DEF new
<1>9. Numbered(new)
  BY <1>1, <1>3, <1>6, <1>7 DEF Numbered
<1>10. HashesDiffer(new)
  <2>. SUFFICES ASSUME NEW i \in DOMAIN new, NEW l \in DOMAIN new, Hash(new[i]) = Hash(new[l]) PROVE i = l
    BY DEF HashesDiffer
  <2>1. PICK k \in fresh : i = first + k - 1 /\ Hash(new[i]) = <<d, pieces[k]>>
    BY <1>5
  <2>2. PICK m \in fresh : l = first + m - 1 /\ Hash(new[l]) = <<d, pieces[m]>>
    BY <1>5
  <2>3. pieces[k] = pieces[m]
    BY <2>1, <2>2
  <2>4. k = m
    BY <1>8, <2>3
  <2>. QED  BY <2>1, <2>2, <2>4
<1>11. \A k \in DOMAIN new : Hash(new[k]) \notin Hashes(book.rows)
  BY <1>5
<1>. QED  BY <1>2, <1>9, <1>10, <1>11 DEF RowsSound, first

\* A task that goes on preparing documents
LEMMA ChunkingHolds ==
  ASSUME NEW rows, NEW j, Holds(rows, j), j.pc \in Chunking, NEW n, n.task = j.task, n.doc = j.doc,
         \/ n.pc \in {"prepare", "text", "detect"}
         \/ n.pc = "store" /\ RowsSound(n.rows) /\ \A k \in DOMAIN n.rows : Hash(n.rows[k]) \notin Hashes(rows)
         \/ n.pc = "collect" /\ n.task.type # "glossary_review"
  PROVE  Holds(rows, n)
<1>1. JobNamed(rows, j)
  BY IdleHolds DEF Holds
<1>2. JobNamed(rows, n)
  BY <1>1 DEF JobNamed, Chunking
<1>. QED  BY <1>2 DEF Holds, Mirrors, Fresh, Writing

LEMMA PreflightKeepsWrites ==
  ASSUME BookInv, WritesInv, NEW w \in Worker, Preflight(w)
  PROVE  WritesInv' /\ Keeps(book.rows, book'.rows, {})
<1>. DEFINE j == job[w]
            n == job'[w]
<1>0. /\ DOMAIN job = Worker /\ BookShape(book) /\ RowsSound(book.rows) /\ Locked /\ Holds(book.rows, j)
      /\ {"task", "pc", "todo", "doc", "pieces", "rows"} \subseteq DOMAIN j
  BY DEF BookInv, StoreOK, JobOK, WritesInv
<1>1. Keeps(book.rows, book.rows, {})
  BY DEF Keeps
<1>2. j.pc \in Chunking \cup {"lock", "review"} => j # NoJob /\ JobNamed(book.rows, j)
  BY <1>0, IdleHolds DEF Holds, Chunking, NoJob
\* The task goes on.
<1>3. ASSUME JobStep(w), book'.rows = book.rows, n.task = j.task, n.doc = j.doc, j.pc \in Chunking, lock' = lock,
             \/ n.pc \in {"prepare", "text", "detect"}
             \/ n.pc = "store" /\ RowsSound(n.rows) /\ \A k \in DOMAIN n.rows : Hash(n.rows[k]) \notin Hashes(book.rows)
      PROVE  WritesInv'
  <2>1. Holds(book.rows, n)
    BY <1>0, <1>3, ChunkingHolds
  <2>2. Locked'
    BY <1>0, <1>3, LockKept DEF Locked, IsReview, Chunking
  <2>. QED  BY <1>0, <1>2, <1>3, <2>1, <2>2, QuietStep
<1>4. CASE PreflightBegins(w)
  <2>1. /\ JobStep(w) /\ book' = book /\ j.pc = "lock" /\ lock = Free /\ lock' = w
        /\ n = [j EXCEPT !.pc = "prepare", !.todo = PreflightDocuments(j.doc)]
    BY <1>0, <1>4 DEF PreflightBegins, JobStep
  <2>2. n.pc = "prepare" /\ n.task = j.task /\ n.doc = j.doc
    BY <1>0, <2>1
  <2>3. Holds(book.rows, n)
    BY <1>2, <2>1, <2>2 DEF Holds, JobNamed, Mirrors, Fresh, Writing, Chunking
  <2>4. Locked'
    BY <1>0, <2>1, LockKept
  <2>. QED  BY <1>0, <1>1, <1>2, <2>1, <2>2, <2>3, <2>4, QuietStep
<1>5. CASE ReviewBegins(w)
  <2>1. CASE book.lang
    BY <1>0, <1>1, <1>5, <2>1, StopKeepsWrites DEF ReviewBegins
  <2>2. CASE ~book.lang
    <3>1. /\ JobStep(w) /\ book' = book /\ j.pc = "review" /\ lock' = lock
          /\ n = [j EXCEPT !.pc = "prepare", !.todo = book.docs]
      BY <1>0, <1>5, <2>2 DEF ReviewBegins, JobStep
    <3>2. n.pc = "prepare" /\ n.task = j.task /\ n.doc = j.doc /\ n.task.type = "glossary_review"
      BY <1>0, <1>2, <3>1 DEF JobNamed
    <3>3. Holds(book.rows, n)
      BY <1>2, <3>1, <3>2 DEF Holds, JobNamed, Mirrors, Fresh, Writing, Chunking
    <3>4. Locked'
      BY <1>0, <3>1, <3>2, LockKept
    <3>. QED  BY <1>0, <1>1, <1>2, <3>1, <3>2, <3>3, <3>4, QuietStep
  <2>. QED  BY <2>1, <2>2
<1>6. CASE PrepareDocument(w)
  <2>0. book' = book /\ j.pc = "prepare"
    BY <1>6 DEF PrepareDocument
  <2>1. CASE Ends(w)
    BY <1>0, <1>1, <2>0, <2>1, StopKeepsWrites
  <2>2. CASE job' = [job EXCEPT ![w].todo = @ \ {NextDocument(w)}] /\ lock' = lock
    <3>1. JobStep(w) /\ n = [j EXCEPT !.todo = j.todo \ {NextDocument(w)}]
      BY <1>0, <2>2 DEF JobStep
    <3>2. n.task = j.task /\ n.doc = j.doc /\ n.pc = "prepare"
      BY <1>0, <2>0, <3>1
    <3>. QED  BY <1>1, <1>3, <2>0, <2>2, <3>1, <3>2 DEF Chunking
  <2>3. CASE job' = [job EXCEPT ![w].pc = "text", ![w].pieces = DocumentText(book, NextDocument(w))] /\ lock' = lock
    <3>1. JobStep(w) /\ n = [j EXCEPT !.pc = "text", !.pieces = DocumentText(book, NextDocument(w))]
      BY <1>0, <2>3 DEF JobStep
    <3>2. n.task = j.task /\ n.doc = j.doc /\ n.pc = "text"
      BY <1>0, <3>1
    <3>. QED  BY <1>1, <1>3, <2>0, <2>3, <3>1, <3>2 DEF Chunking
  <2>. QED  BY <1>6, <2>1, <2>2, <2>3 DEF PrepareDocument
<1>7. CASE AddText(w)
  <2>. DEFINE rows == NewRows(NextDocument(w), Call(w), NextChunkId(book.rows))
  <2>1. RowsSound(rows) /\ \A k \in DOMAIN rows : Hash(rows[k]) \notin Hashes(book.rows)
    BY <1>0, CutRowsAreFresh DEF RowsSound
  <2>2. JobStep(w) /\ book' = book /\ lock' = lock /\ j.pc = "text" /\ n = [j EXCEPT !.pc = "store", !.rows = rows]
    BY <1>0, <1>7 DEF AddText, JobStep
  <2>. HIDE DEF rows
  <2>3. n.task = j.task /\ n.doc = j.doc /\ n.pc = "store" /\ n.rows = rows
    BY <1>0, <2>2
  <2>. QED  BY <1>1, <1>3, <2>1, <2>2, <2>3 DEF Chunking
<1>8. CASE StoreChunks(w)
  <2>1. CASE UpsertFails(book, j.rows)
    BY <1>0, <1>1, <1>8, <2>1, StopKeepsWrites DEF StoreChunks
  <2>2. CASE ~UpsertFails(book, j.rows)
    <3>1. /\ j.pc = "store" /\ book' = UpsertChunks(book, j.rows) /\ lock' = lock
          /\ \E p : job' = [job EXCEPT ![w] = [job[w] EXCEPT !.pc = "text", !.rows = <<>>, !.pieces = p]]
      BY <1>0, <1>8, <2>2 DEF StoreChunks
    <3>2. Fresh(book.rows, j)
      BY <1>0 DEF Holds
    <3>3. RowsSound(book'.rows) /\ Keeps(book.rows, book'.rows, {})
      BY <1>0, <2>2, <3>1, <3>2, InsertKeepsRows DEF Fresh
    <3>5. PICK p : job' = [job EXCEPT ![w] = [job[w] EXCEPT !.pc = "text", !.rows = <<>>, !.pieces = p]]
      BY <3>1
    <3>6. JobStep(w) /\ n = [j EXCEPT !.pc = "text", !.rows = <<>>, !.pieces = p]
      BY <1>0, <3>5 DEF JobStep
    <3>7. n.task = j.task /\ n.doc = j.doc /\ n.pc = "text"
      BY <1>0, <3>6
    <3>a. j.pc \in Chunking
      BY <3>1 DEF Chunking
    <3>8. Holds(book.rows, n)
      BY <1>0, <3>a, <3>7, ChunkingHolds
    <3>9. Holds(book'.rows, n)
      BY <3>3, <3>7, <3>8, OthersHold DEF Writing
    <3>10. Locked'
      BY <1>0, <3>1, <3>6, <3>7, LockKept DEF Locked, IsReview, Chunking
    <3>11. \A u \in Worker \ {w} : job[u].pc # "store"
      BY <3>1, OneChunks DEF Chunking
    <3>12. WritesInv'
      BY <1>0, <1>2, <3>1, <3>3, <3>6, <3>7, <3>9, <3>10, <3>11, WorkerKeepsWrites DEF Chunking
    <3>. QED  BY <3>3, <3>12
  <2>. QED  BY <2>1, <2>2
<1>9. CASE MarkAdded(w)
  <2>1. JobStep(w) /\ lock' = lock /\ j.pc = "text" /\ n = [j EXCEPT !.pc = "prepare", !.todo = j.todo \ {NextDocument(w)}]
    BY <1>0, <1>9 DEF MarkAdded, JobStep
  <2>2. book'.rows = book.rows
    BY <1>0, <1>9, FlagsKeepRows DEF MarkAdded
  <2>3. n.task = j.task /\ n.doc = j.doc /\ n.pc = "prepare"
    BY <1>0, <2>1
  <2>. QED  BY <1>1, <1>3, <2>1, <2>2, <2>3 DEF Chunking
\* What the preparation was for
<1>10. ASSUME Prepared(w), j.pc \in Chunking, book'.rows = book.rows PROVE WritesInv'
  <2>1. CASE IsReview(w)
    BY <1>0, <1>10, <2>1, StopKeepsWrites DEF Prepared
  <2>2. CASE ~IsReview(w)
    <3>1. JobStep(w) /\ n = [j EXCEPT !.pc = "collect"] /\ lock' = Free /\ lock = w
      BY <1>0, <1>10, <2>2 DEF Prepared, Goto, JobStep, Locked
    <3>2. n.task = j.task /\ n.doc = j.doc /\ n.pc = "collect" /\ n.task.type # "glossary_review"
      BY <1>0, <2>2, <3>1 DEF IsReview
    <3>3. Holds(book.rows, n)
      BY <1>0, <1>10, <3>2, ChunkingHolds
    <3>4. Locked'
      BY <1>0, <3>1, <3>2, LockKept DEF Chunking
    <3>. QED  BY <1>0, <1>2, <1>10, <3>1, <3>2, <3>3, <3>4, QuietStep
  <2>. QED  BY <2>1, <2>2
<1>11. CASE LanguageKnown(w)
  <2>0. book' = book /\ j.pc = "prepare"
    BY <1>11 DEF LanguageKnown
  <2>1. CASE Prepared(w)
    BY <1>1, <1>10, <2>0, <2>1 DEF Chunking
  <2>2. CASE Ends(w)
    BY <1>0, <1>1, <2>0, <2>2, StopKeepsWrites
  <2>3. CASE Goto(w, "detect") /\ lock' = lock
    <3>1. JobStep(w) /\ n = [j EXCEPT !.pc = "detect"]
      BY <1>0, <2>3 DEF Goto, JobStep
    <3>2. n.task = j.task /\ n.doc = j.doc /\ n.pc = "detect"
      BY <1>0, <3>1
    <3>. QED  BY <1>1, <1>3, <2>0, <2>3, <3>1, <3>2 DEF Chunking
  <2>. QED  BY <1>11, <2>1, <2>2, <2>3 DEF LanguageKnown
<1>12. CASE LanguageDetected(w)
  <2>1. book'.rows = book.rows
    BY <1>0, <1>12, FlagsKeepRows DEF LanguageDetected
  <2>. QED  BY <1>1, <1>10, <1>12, <2>1 DEF LanguageDetected, Chunking
<1>. QED  BY <1>4, <1>5, <1>6, <1>7, <1>8, <1>9, <1>11, <1>12 DEF Preflight

-----------------------------------------------------------------------------
(* The operation, and what it writes back.                                 *)

LEMMA WorkedHash ==
  ASSUME NEW b, NEW r, RowOK(b, r), NEW t
  PROVE  Hash(Worked(t, r)) = Hash(r) /\ Hash([r EXCEPT !.mapped = TRUE]) = Hash(r)
BY DEF RowOK, Worked, Hash

\* A row that a step changes is one that the task had read, as it was.
Returns(w) ==
  \A i \in DOMAIN book.rows :
    book'.rows[i] # book.rows[i] =>
      job'[w] # job[w] /\ \E k \in DOMAIN job[w].rows : job[w].rows[k] = book.rows[i]

\* A task writes rows that it holds back, with their hashes.
LEMMA WriteBack ==
  ASSUME BookInv, WritesInv, NEW w \in Worker, job[w].pc \in Writing, NEW new, DOMAIN new \subseteq DOMAIN job[w].rows,
         \A k \in DOMAIN new : Hash(new[k]) = Hash(job[w].rows[k]), book' = UpsertChunks(book, new)
  PROVE  /\ RowsSound(book'.rows) /\ Keeps(book.rows, book'.rows, DOMAIN new)
         /\ DOMAIN book'.rows = DOMAIN book.rows
         /\ Hashes(book'.rows) = Hashes(book.rows)
         /\ \A u \in Worker \ {w} : job[u].pc \in Writing => \A k \in DOMAIN job[u].rows : k \notin DOMAIN new
         /\ \A i \in DOMAIN book.rows : book'.rows[i] # book.rows[i] => i \in DOMAIN new /\ job[w].rows[i] = book.rows[i]
<1>0. BookShape(book) /\ RowsSound(book.rows)
  BY DEF BookInv, StoreOK, WritesInv
<1>1. \A k \in DOMAIN job[w].rows :
        k \in DOMAIN book.rows /\ book.rows[k] = job[w].rows[k] /\ book.rows[k].doc = job[w].doc
  BY DEF WritesInv, Holds, Mirrors
<1>2. /\ RowsSound(book'.rows) /\ Keeps(book.rows, book'.rows, DOMAIN new)
      /\ DOMAIN book'.rows = DOMAIN book.rows
  BY <1>0, <1>1, UpdateKeepsRows
<1>3. Hashes(book'.rows) = Hashes(book.rows)
  BY <1>2 DEF Keeps, Hashes
<1>5. ASSUME NEW u \in Worker \ {w}, job[u].pc \in Writing, NEW k \in DOMAIN job[u].rows PROVE k \notin DOMAIN new
  <2>1. book.rows[k].doc = job[u].doc
    BY <1>5 DEF WritesInv, Holds, Mirrors
  <2>2. job[u].doc # job[w].doc
    BY <1>5, WritersApart
  <2>. QED  BY <1>1, <2>1, <2>2
<1>. QED  BY <1>1, <1>2, <1>3, <1>5 DEF Keeps

LEMMA OperateKeepsWrites ==
  ASSUME KeysDiffer, BookInv, WritesInv, NEW w \in Worker, Operate(w) \/ Stops(w)
  PROVE  WritesInv' /\ Returns(w)
<1>. DEFINE j == job[w]
            n == job'[w]
<1>0. /\ DOMAIN job = Worker /\ BookShape(book) /\ RowsSound(book.rows) /\ Holds(book.rows, j) /\ Locked
      /\ {"task", "pc", "todo", "doc", "pieces", "rows"} \subseteq DOMAIN j /\ RowsOK(book, j.rows)
  BY DEF BookInv, StoreOK, JobOK, WritesInv
<1>1. book' = book => Returns(w)
  BY DEF Returns
<1>2. j.pc \in Writing \cup {"collect", "ocr"} => j # NoJob /\ JobNamed(book.rows, j)
  BY <1>0, IdleHolds DEF Holds, Writing, NoJob
\* Reading the rows to work on
<1>3. ASSUME NEW pc \in Writing, NEW ids, ids \subseteq RowsOf(book.rows, j.doc), j.pc \in Writing \cup {"collect"},
             job' = [job EXCEPT ![w] = [job[w] EXCEPT !.pc = pc, !.rows = OnlyRows(book.rows, ids)]],
             book' = book, lock' = lock
      PROVE  WritesInv'
  <2>. DEFINE rows == OnlyRows(book.rows, ids)
  <2>1. \A k \in DOMAIN rows : k \in DOMAIN book.rows /\ book.rows[k] = rows[k] /\ book.rows[k].doc = j.doc
    BY <1>3 DEF OnlyRows, RowsOf
  <2>2. JobStep(w) /\ n = [j EXCEPT !.pc = pc, !.rows = rows]
    BY <1>0, <1>3 DEF JobStep
  <2>. HIDE DEF rows
  <2>3. n.task = j.task /\ n.doc = j.doc /\ n.pc = pc /\ n.rows = rows
    BY <1>0, <2>2
  <2>4. JobNamed(book.rows, n)
    BY <1>2, <1>3, <2>3 DEF JobNamed, Writing, Chunking
  <2>5. Holds(book.rows, n)
    BY <1>3, <2>1, <2>3, <2>4 DEF Holds, Mirrors, Fresh, Writing
  <2>6. Locked'
    BY <1>0, <1>3, <2>2, <2>3, LockKept DEF Writing, Chunking
  <2>. QED  BY <1>0, <1>2, <1>3, <2>2, <2>3, <2>5, <2>6, QuietStep
<1>4. CASE Collect(w)
  <2>0. book' = book /\ j.pc = "collect"
    BY <1>4 DEF Collect
  <2>1. CASE Ends(w)
    BY <1>0, <1>1, <2>0, <2>1, StopKeepsWrites
  <2>2. CASE ~Ends(w)
    <3>. DEFINE ids == Selected(j.task, j.doc)
    <3>1. /\ job' = [job EXCEPT ![w] = [job[w] EXCEPT !.pc = "work", !.rows = OnlyRows(book.rows, ids)]]
          /\ lock' = lock
      BY <1>4, <2>2 DEF Collect
    <3>2. ids \subseteq RowsOf(book.rows, j.doc)
      <4>1. CASE j.task.type = "chunk_retranslation"
        <5>1. PICK i \in RowsOf(book.rows, j.doc) : j.task.chunk = Key(i)
          BY <1>2, <2>0, <4>1 DEF JobNamed
        <5>2. \A k \in DOMAIN book.rows : Key(k) = Key(i) => k = i
          BY <1>0, <5>1 DEF KeysDiffer, RowsSound, Numbered, RowsOf
        <5>3. ids = {k \in DOMAIN book.rows : Key(k) = j.task.chunk}
          BY <4>1 DEF Selected
        <5>. QED  BY <5>1, <5>2, <5>3
      <4>2. CASE j.task.type # "chunk_retranslation"
        BY <4>2 DEF Selected, ChunksToTranslate
      <4>. QED  BY <4>1, <4>2
    <3>. HIDE DEF ids
    <3>3. WritesInv'
      BY <1>3, <2>0, <3>1, <3>2 DEF Writing
    <3>. QED  BY <1>1, <2>0, <3>3
  <2>. QED  BY <2>1, <2>2
<1>5. CASE Answer(w)
  <2>0. j.pc = "work" /\ j.pc \in Writing
    BY <1>5 DEF Answer, Writing
  <2>1. PICK i \in DOMAIN j.rows :
          LET new == [k \in {i} |-> Worked(j.task, j.rows[i])] IN
          IF UpsertFails(book, new) THEN Ends(w) /\ UNCHANGED book
          ELSE /\ book' = UpsertChunks(book, new)
               /\ job' = [job EXCEPT ![w].rows = OnlyRows(@, DOMAIN @ \ {i})]
               /\ UNCHANGED lock
    BY <1>5 DEF Answer
  <2>. DEFINE new == [k \in {i} |-> Worked(j.task, j.rows[i])]
              left == OnlyRows(j.rows, DOMAIN j.rows \ {i})
  <2>2. DOMAIN new = {i} /\ \A k \in DOMAIN new : Hash(new[k]) = Hash(j.rows[k])
    <3>1. RowOK(book, j.rows[i])
      BY <1>0 DEF RowsOK
    <3>2. Hash(Worked(j.task, j.rows[i])) = Hash(j.rows[i])
      BY <3>1, WorkedHash
    <3>. QED  BY <3>2
  <2>3. DOMAIN left = DOMAIN j.rows \ {i} /\ \A k \in DOMAIN left : left[k] = j.rows[k]
    BY DEF OnlyRows
  <2>4. CASE UpsertFails(book, new)
    BY <1>0, <1>1, <2>1, <2>4, StopKeepsWrites
  <2>5. CASE ~UpsertFails(book, new)
    <3>1. book' = UpsertChunks(book, new) /\ job' = [job EXCEPT ![w].rows = left] /\ lock' = lock
      BY <2>1, <2>5
    <3>. HIDE DEF new, left
    <3>2. JobStep(w) /\ n = [j EXCEPT !.rows = left]
      BY <1>0, <3>1 DEF JobStep
    <3>3. n.task = j.task /\ n.doc = j.doc /\ n.pc = "work" /\ n.rows = left
      BY <1>0, <2>0, <3>2
    <3>4. /\ RowsSound(book'.rows) /\ Keeps(book.rows, book'.rows, {i})
          /\ Hashes(book'.rows) = Hashes(book.rows)
          /\ \A u \in Worker \ {w} : job[u].pc \in Writing => \A k \in DOMAIN job[u].rows : k \notin {i}
          /\ \A k \in DOMAIN book.rows : book'.rows[k] # book.rows[k] => k \in {i} /\ j.rows[k] = book.rows[k]
      BY <2>0, <2>2, <3>1, WriteBack
    <3>5. JobNamed(book.rows, n) /\ Mirrors(book.rows, n) /\ Fresh(book.rows, n)
      BY <1>0, <1>2, <2>0, <2>3, <3>3 DEF Holds, JobNamed, Mirrors, Fresh
    <3>6. Holds(book'.rows, n)
      BY <2>3, <3>3, <3>4, <3>5, OthersHold DEF Holds
    <3>7. Locked'
      BY <1>0, <3>1, <3>2, <3>3, LockKept DEF Chunking
    <3>8. WritesInv'
      BY <1>0, <1>2, <2>0, <3>2, <3>3, <3>4, <3>6, <3>7, WorkerKeepsWrites
    <3>9. n # j
      BY <2>3, <3>3
    <3>. QED  BY <3>4, <3>8, <3>9 DEF Returns
  <2>. QED  BY <2>4, <2>5
<1>6. CASE WorkDone(w)
  <2>0. book' = book /\ j.pc = "work"
    BY <1>6 DEF WorkDone
  <2>1. CASE Ends(w)
    BY <1>0, <1>1, <2>0, <2>1, StopKeepsWrites
  <2>2. CASE ~Ends(w)
    <3>. DEFINE ids == {i \in RowsOf(book.rows, j.doc) : ~book.rows[i].mapped}
    <3>1. /\ job' = [job EXCEPT ![w] = [job[w] EXCEPT !.pc = "map", !.rows = OnlyRows(book.rows, ids)]]
          /\ lock' = lock
      BY <1>6, <2>2 DEF WorkDone
    <3>2. ids \subseteq RowsOf(book.rows, j.doc)
      OBVIOUS
    <3>. HIDE DEF ids
    <3>3. WritesInv'
      BY <1>3, <2>0, <3>1, <3>2 DEF Writing
    <3>. QED  BY <1>1, <2>0, <3>3
  <2>. QED  BY <2>1, <2>2
<1>7. CASE MapOccurrences(w)
  <2>. DEFINE new == [i \in DOMAIN j.rows |-> [j.rows[i] EXCEPT !.mapped = TRUE]]
  <2>0. j.pc = "map" /\ j.pc \in Writing /\ Ends(w)
    BY <1>7 DEF MapOccurrences, Writing
  <2>1. book' = book \/ book' = UpsertChunks(book, new)
    BY <1>7 DEF MapOccurrences
  <2>2. DOMAIN new = DOMAIN j.rows /\ \A k \in DOMAIN new : Hash(new[k]) = Hash(j.rows[k])
    BY <1>0, WorkedHash DEF RowsOK
  <2>. HIDE DEF new
  <2>3. CASE book' = book
    BY <1>0, <1>1, <2>0, <2>3, StopKeepsWrites
  <2>4. CASE book' = UpsertChunks(book, new)
    <3>1. /\ RowsSound(book'.rows) /\ Keeps(book.rows, book'.rows, DOMAIN new)
          /\ Hashes(book'.rows) = Hashes(book.rows)
          /\ \A u \in Worker \ {w} : job[u].pc \in Writing => \A k \in DOMAIN job[u].rows : k \notin DOMAIN new
          /\ \A k \in DOMAIN book.rows : book'.rows[k] # book.rows[k] => k \in DOMAIN new /\ j.rows[k] = book.rows[k]
      BY <2>0, <2>2, <2>4, WriteBack
    <3>2. WritesInv'
      BY <1>0, <2>0, <3>1, EndsKeepsWrites
    <3>3. n # j
      BY <1>0, <1>2, <2>0 DEF Ends
    <3>. QED  BY <2>2, <3>1, <3>2, <3>3 DEF Returns
  <2>. QED  BY <2>1, <2>3, <2>4
<1>8. CASE OcrPage(w)
  <2>1. PICK p, t : /\ book' = UpdateSourceOcr(book, j.doc, p, t) /\ j.pc = "ocr" /\ lock' = lock
                    /\ job' = [job EXCEPT ![w].todo = j.todo \ {p}]
    BY <1>8 DEF OcrPage
  <2>2. book'.rows = book.rows
    BY <1>0, <2>1, OcrKeepsRows
  <2>3. JobStep(w) /\ n = [j EXCEPT !.todo = j.todo \ {p}]
    BY <1>0, <2>1 DEF JobStep
  <2>4. n.task = j.task /\ n.doc = j.doc /\ n.pc = "ocr"
    BY <1>0, <2>1, <2>3
  <2>5. Holds(book.rows, n)
    BY <1>2, <2>1, <2>4 DEF Holds, JobNamed, Mirrors, Fresh, Writing
  <2>6. Locked'
    BY <1>0, <2>1, <2>3, <2>4, LockKept DEF Chunking
  <2>7. WritesInv'
    BY <1>0, <1>2, <2>1, <2>2, <2>3, <2>4, <2>5, <2>6, QuietStep
  <2>. QED  BY <2>2, <2>7 DEF Returns
<1>9. CASE OcrDone(w) \/ Stops(w)
  BY <1>0, <1>1, <1>9, StopKeepsWrites DEF OcrDone, Stops
<1>. QED  BY <1>4, <1>5, <1>6, <1>7, <1>8, <1>9 DEF Operate

-----------------------------------------------------------------------------
(* The start of a task, and the user.                                      *)

LEMMA TaskFields ==
  ASSUME NEW ty, NEW d, NEW ps, NEW c, NEW f
  PROVE  LET t == Task(ty, d, ps, c, f) IN
         t.type = ty /\ t.book = "b" /\ t.docs = {Key(d)} /\ t.chunk = Key(c)
<1>1. ASSUME NEW r, {"type", "book", "docs", "chunk", "force", "sources"} \subseteq DOMAIN r, NEW ds, NEW k, NEW s
      PROVE  LET t == [r EXCEPT !.type = ty, !.docs = ds, !.chunk = k, !.force = f, !.sources = s] IN
             t.type = ty /\ t.book = r.book /\ t.docs = ds /\ t.chunk = k
  BY <1>1
<1>2. {"type", "book", "docs", "chunk", "force", "sources"} \subseteq DOMAIN NoTask /\ NoTask.book = "b"
  BY DEF NoTask
<1>. HIDE DEF NoTask
<1>. QED  BY <1>1, <1>2 DEF Task

\* A task names the document and, to translate a chunk again, one of its chunks.
LEMMA StartableIsNamed ==
  ASSUME NEW d, NEW t \in Startable(d)
  PROVE  /\ Named(t, d)
         /\ t.type = "chunk_retranslation" => \E i \in RowsOf(book.rows, d) : t.chunk = Key(i)
<1>. DEFINE Called(ty, c) == \E ps, f : t = Task(ty, d, ps, c, f)
<1>0. ASSUME NEW ty, NEW c, Called(ty, c) PROVE t.type = ty /\ t.book = "b" /\ t.docs = {Key(d)} /\ t.chunk = Key(c)
  <2>1. PICK ps, f : t = Task(ty, d, ps, c, f)
    BY <1>0
  <2>. QED  BY <2>1, TaskFields
<1>1. CASE t \in OcrTasks(d)
  <2>1. Called("ocr", 0)
    BY <1>1, Zenon DEF OcrTasks
  <2>. HIDE DEF Called
  <2>. QED  BY <1>0, <2>1 DEF Named, RunTypes
<1>2. CASE t \in TranslationTasks(d)
  <2>1. Called("translation_manga", 0) \/ Called("translation_text", 0)
    BY <1>2, Zenon DEF TranslationTasks
  <2>. HIDE DEF Called
  <2>. QED  BY <1>0, <2>1 DEF Named, RunTypes, WriterTypes
<1>3. CASE t \in RetranslationTasks(d)
  <2>1. \E i \in RowsOf(book.rows, d) : Called("chunk_retranslation", i)
    BY <1>3, Zenon DEF RetranslationTasks
  <2>. HIDE DEF Called
  <2>. QED  BY <1>0, <2>1 DEF Named, RunTypes, WriterTypes
<1>4. CASE t \in ExtractionTasks(d)
  <2>1. Called("glossary_extraction", 0)
    BY <1>4, Zenon DEF ExtractionTasks
  <2>. HIDE DEF Called
  <2>. QED  BY <1>0, <2>1 DEF Named, RunTypes, WriterTypes
<1>5. CASE t = ReviewTask
  <2>1. t.type = "glossary_review" /\ t.book = "b"
    BY <1>5 DEF ReviewTask, NoTask
  <2>. QED  BY <2>1 DEF Named, RunTypes
<1>. QED  BY <1>1, <1>2, <1>3, <1>4, <1>5 DEF Startable

LEMMA StartKeepsWrites ==
  ASSUME BookInv, WritesInv, NEW w \in Worker, Start(w)
  PROVE  WritesInv' /\ book' = book
<1>. DEFINE Pc(t) == CASE t.type = "ocr"             -> "ocr"
                       [] t.type = "glossary_review" -> "review"
                       [] OTHER                      -> "lock"
            Todo(t, d) == IF t.type # "ocr" THEN {}
                          ELSE IF t.sources = {} THEN PendingPages(book, d)
                          ELSE {p \in DOMAIN book.page[d] : Key(<<d, p>>) \in t.sources}
<1>0. PICK d \in book.docs : \E t \in Startable(d) :
        /\ ~HasActiveClaims(HandlerClaims(t))
        /\ job' = [job EXCEPT ![w] = [NoJob EXCEPT !.task = t, !.doc = d, !.pc = Pc(t), !.todo = Todo(t, d)]]
        /\ book' = book /\ lock' = lock /\ job[w] = NoJob
  BY Zenon DEF Start
<1>a. PICK t \in Startable(d) :
        /\ ~HasActiveClaims(HandlerClaims(t))
        /\ job' = [job EXCEPT ![w] = [NoJob EXCEPT !.task = t, !.doc = d, !.pc = Pc(t), !.todo = Todo(t, d)]]
        /\ book' = book /\ lock' = lock /\ job[w] = NoJob
  BY <1>0
<1>. DEFINE pc == Pc(t)
            todo == Todo(t, d)
            j == [NoJob EXCEPT !.task = t, !.doc = d, !.pc = pc, !.todo = todo]
<1>1. /\ job' = [job EXCEPT ![w] = j] /\ ~HasActiveClaims(HandlerClaims(t))
      /\ book' = book /\ lock' = lock /\ job[w] = NoJob
      /\ IF t.type = "ocr" THEN pc = "ocr" ELSE IF t.type = "glossary_review" THEN pc = "review" ELSE pc = "lock"
  BY <1>a
<1>. HIDE DEF pc, todo, Pc, Todo
<1>2. j.task = t /\ j.doc = d /\ j.pc = pc
  BY DEF NoJob
<1>. HIDE DEF j
<1>3. DOMAIN job = Worker
  BY DEF BookInv
<1>4. JobStep(w) /\ job'[w] = j /\ \A u \in Worker \ {w} : job'[u] = job[u]
  BY <1>1, <1>3 DEF JobStep
<1>5. Holds(book.rows, j)
  <2>1. Named(t, d) /\ (t.type = "chunk_retranslation" => \E i \in RowsOf(book.rows, d) : t.chunk = Key(i))
    BY StartableIsNamed
  <2>2. JobNamed(book.rows, j)
    BY <1>1, <1>2, <2>1 DEF JobNamed
  <2>. QED  BY <1>1, <1>2, <2>2 DEF Holds, Mirrors, Fresh, Writing
<1>6. \A u \in Worker : Holds(book.rows, job'[u])
  BY <1>4, <1>5 DEF WritesInv
<1>7. Locked'
  BY <1>1, <1>2, <1>3, <1>4, LockKept DEF WritesInv, Chunking
<1>8. \A u \in Busy : /\ ~Conflicts(HandlerClaims(t), HandlerClaims(job[u].task))
                      /\ ~Conflicts(HandlerClaims(job[u].task), HandlerClaims(t))
  <2>. SUFFICES ASSUME NEW u \in Busy PROVE ~Conflicts(HandlerClaims(t), HandlerClaims(job[u].task))
    BY ConflictsBothWays
  <2>1. HandlerClaims(job[u].task) \subseteq ActiveClaims
    BY Zenon DEF ActiveClaims
  <2>. QED  BY <1>1, <2>1 DEF HasActiveClaims, Conflicts
<1>9. \A u \in Busy' : u # w => u \in Busy /\ job'[u].task = job[u].task
  BY <1>4 DEF Busy
<1>10. ClaimsApart'
  BY <1>2, <1>4, <1>8, <1>9 DEF WritesInv, ClaimsApart
<1>. QED  BY <1>1, <1>6, <1>7, <1>10 DEF WritesInv

\* The tasks as they were, over rows that changed
LEMMA UserKeepsJobs ==
  ASSUME WritesInv, job' = job, lock' = lock, RowsSound(book'.rows), NEW ids, Keeps(book.rows, book'.rows, ids),
         Hashes(book'.rows) \subseteq Hashes(book.rows),
         \A u \in Worker : job[u].pc \in Writing => \A k \in DOMAIN job[u].rows : k \notin ids
  PROVE  WritesInv'
<1>1. \A u \in Worker : Holds(book'.rows, job'[u])
  BY OthersHold DEF WritesInv
<1>. QED  BY <1>1 DEF WritesInv, ClaimsApart, Locked, IsReview, Busy

\* A book without tasks
LEMMA AtRest ==
  ASSUME \A u \in Worker : job'[u] = NoJob, RowsSound(book'.rows) PROVE WritesInv'
BY IdleHolds DEF WritesInv, ClaimsApart, Locked, Busy

\* A mutation of the stack finds no task at work.
LEMMA StackIsQuiet ==
  ASSUME WritesInv, ~StackBusy PROVE \A u \in Worker : job[u] = NoJob
<1>. SUFFICES ASSUME NEW u \in Worker, job[u] # NoJob PROVE FALSE
  OBVIOUS
<1>1. u \in Busy /\ Named(job[u].task, job[u].doc)
  BY DEF WritesInv, Holds, JobNamed, Busy
<1>. QED  BY <1>1, TasksHoldOff

LEMMA EditKeepsWrites ==
  ASSUME BookInv, WritesInv, ScanIsLast, NEW d \in book.docs, Edit(d)
  PROVE  WritesInv' /\ job' = job
<1>0. BookShape(book) /\ RowsSound(book.rows) /\ d \in 1..book.last /\ job' = job /\ lock' = lock
  BY DEF BookInv, StoreOK, BookShape, WritesInv, Edit, SaveOcr, SaveTranslation, ResetStack, DeleteStack
<1>1. CASE SaveOcr(d)
  <2>1. PICK p, t : book' = ResetDocumentStack(UpdateSourceOcr(book, d, p, t), d)
    BY <1>1 DEF SaveOcr
  <2>. DEFINE b == UpdateSourceOcr(book, d, p, t)
  <2>2. Same(book, b) /\ b.rows = book.rows /\ BookShape(b)
    BY <1>0, OcrKeepsRows DEF Same, BookShape
  <2>3. d = book.last /\ RowsOf(book.rows, d) = {}
    BY <1>0, <1>1 DEF SaveOcr, ScanIsLast
  <2>. HIDE DEF b
  <2>4. StackOf(b, d) \subseteq {d}
    BY <1>0, <2>2, <2>3 DEF StackOf, Same, BookShape
  <2>5. FromFirstRowOf(b, StackOf(b, d)) = {}
    BY <2>2, <2>3, <2>4 DEF FromFirstRowOf, RowsOf
  <2>6. book'.rows = OnlyRows(b.rows, DOMAIN b.rows \ FromFirstRowOf(b, StackOf(b, d)))
    BY <2>1, <2>2, StackKeepsRows DEF b
  <2>7. RowsSound(book'.rows) /\ DOMAIN book'.rows = DOMAIN book.rows
        /\ \A i \in DOMAIN book.rows : book'.rows[i] = book.rows[i]
    BY <1>0, <2>2, <2>5, <2>6, LeftRowsAreSound DEF OnlyRows
  <2>8. Keeps(book.rows, book'.rows, {}) /\ Hashes(book'.rows) = Hashes(book.rows)
    BY <2>7 DEF Keeps, Hashes
  <2>. QED  BY <1>0, <2>7, <2>8, UserKeepsJobs
<1>2. CASE SaveTranslation(d)
  <2>1. PICK i \in RowsOf(book.rows, d), t \in {"user", NotTranslated} :
           book' = UpsertChunks(book, [k \in {i} |-> [book.rows[i] EXCEPT !.translation = t]])
    BY <1>2 DEF SaveTranslation
  <2>. DEFINE new == [k \in {i} |-> [book.rows[i] EXCEPT !.translation = t]]
  <2>2. i \in DOMAIN book.rows /\ book.rows[i].doc = d
    BY DEF RowsOf
  <2>3. DOMAIN new = {i} /\ Hash(new[i]) = Hash(book.rows[i])
    BY <2>2 DEF BookInv, StoreOK, RowsOK, RowOK, Hash
  <2>. HIDE DEF new
  <2>4. /\ RowsSound(book'.rows) /\ Keeps(book.rows, book'.rows, {i}) /\ DOMAIN book'.rows = DOMAIN book.rows
    BY <1>0, <2>1, <2>2, <2>3, UpdateKeepsRows DEF new
  <2>5. Hashes(book'.rows) = Hashes(book.rows)
    BY <2>4 DEF Keeps, Hashes
  <2>6. ASSUME NEW u \in Worker, job[u].pc \in Writing, NEW k \in DOMAIN job[u].rows PROVE k \notin {i}
    <3>1. book.rows[k].doc = job[u].doc
      BY <2>6 DEF WritesInv, Holds, Mirrors
    <3>2. u \in Busy /\ Named(job[u].task, job[u].doc)
      BY <2>6, IdleHolds DEF Busy, Writing, WritesInv, Holds, JobNamed
    <3>3. SaveBusy(job[u].doc)
      BY <3>2, TasksHoldOff
    <3>. QED  BY <1>2, <2>2, <3>1, <3>3 DEF SaveTranslation
  <2>. QED  BY <1>0, <2>4, <2>5, <2>6, UserKeepsJobs
<1>3. CASE ResetStack(d) \/ DeleteStack(d)
  <2>1. \A u \in Worker : job'[u] = NoJob
    BY <1>0, <1>3, StackIsQuiet DEF ResetStack, DeleteStack
  <2>2. book'.rows = OnlyRows(book.rows, DOMAIN book.rows \ FromFirstRowOf(book, StackOf(book, d)))
    <3>1. book' = ResetDocumentStack(book, d) \/ book' = DeleteDocumentsStack(book, d)
      BY <1>3 DEF ResetStack, DeleteStack
    <3>. QED  BY <1>0, <3>1, StackKeepsRows
  <2>3. RowsSound(book'.rows)
    BY <1>0, <2>2, LeftRowsAreSound
  <2>. QED  BY <1>0, <2>1, <2>3, AtRest
<1>. QED  BY <1>0, <1>1, <1>2, <1>3 DEF Edit

\* A scan that is not the last stays one that is not the last.
LEMMA ScansStay ==
  ASSUME BookInv, BookNext, ScanIsLast' PROVE ScanIsLast
<1>0. BookShape(book)
  BY DEF BookInv, StoreOK
<1>1. ASSUME book'.last = book.last, book'.type = book.type PROVE ScanIsLast
  BY <1>1 DEF ScanIsLast, OcrRequired
<1>2. CASE ImportDocuments
  <2>1. PICK ty : book' = InsertDocument(book, ty, ImportedPages(ty))
    BY <1>2 DEF ImportDocuments
  <2>2. /\ book'.last = book.last + 1
        /\ \A e \in 1..book.last : book'.type[e] = book.type[e]
    <3>. DEFINE type == [book.type EXCEPT ![book.last + 1] = ty]
    <3>1. PICK g : book' = [book EXCEPT !.docs = book.docs \cup {book.last + 1}, !.last = book.last + 1,
                                        !.type = type, !.page = g]
      BY <2>1 DEF InsertDocument
    <3>2. book.last \in Nat
      BY <1>0 DEF BookShape
    <3>3. \A e \in 1..book.last : type[e] = book.type[e]
      BY <3>2
    <3>. HIDE DEF type
    <3>5. book'.last = book.last + 1 /\ book'.type = type
      BY <1>0, <3>1 DEF BookShape
    <3>. QED  BY <3>3, <3>5
  <2>. QED  BY <1>0, <2>2 DEF ScanIsLast, OcrRequired, BookShape
<1>3. ASSUME NEW d, Edit(d) PROVE ScanIsLast
  <2>1. CASE SaveOcr(d)
    <3>1. PICK p, t : book' = ResetDocumentStack(UpdateSourceOcr(book, d, p, t), d)
      BY <2>1 DEF SaveOcr
    <3>. DEFINE b == UpdateSourceOcr(book, d, p, t)
    <3>2. Same(book, b) /\ BookShape(b)
      BY <1>0, OcrKeepsRows DEF Same, BookShape
    <3>. HIDE DEF b
    <3>3. Same(b, book')
      BY <3>1, <3>2, StackKeepsRows DEF b
    <3>. QED  BY <1>1, <3>2, <3>3 DEF Same
  <2>2. CASE SaveTranslation(d)
    <3>1. PICK new : book' = UpsertChunks(book, new)
      BY <2>2 DEF SaveTranslation
    <3>2. Same(book, book')
      BY <1>0, <3>1, UpsertKeepsBook
    <3>. QED  BY <1>1, <3>2 DEF Same
  <2>3. CASE ResetStack(d) \/ DeleteStack(d)
    <3>1. book' = ResetDocumentStack(book, d) \/ book' = DeleteDocumentsStack(book, d)
      BY <2>3 DEF ResetStack, DeleteStack
    <3>2. CASE book' = ResetDocumentStack(book, d)
      <4>1. Same(book, book')
        BY <1>0, <3>2, StackKeepsRows
      <4>. QED  BY <1>1, <4>1 DEF Same
    <3>3. CASE book' = DeleteDocumentsStack(book, d)
      <4>1. book'.last = book.last /\ book'.type = book.type
        BY <1>0, <3>3, StackKeepsRows
      <4>. QED  BY <1>1, <4>1
    <3>. QED  BY <3>1, <3>2, <3>3
  <2>. QED  BY <1>3, <2>1, <2>2, <2>3 DEF Edit
<1>4. ASSUME NEW w \in Worker, Start(w) \/ Preflight(w) \/ Operate(w) \/ Stops(w) PROVE ScanIsLast
  <2>1. \/ book' = book
        \/ \E new : book' = UpsertChunks(book, new)
        \/ \E d : book' = MarkTextAdded(book, d)
        \/ book' = SetLanguage(book)
        \/ \E d, p, t : book' = UpdateSourceOcr(book, d, p, t)
    BY <1>4, Zenon
       DEF Start, Preflight, PreflightBegins, ReviewBegins, PrepareDocument, AddText, StoreChunks, MarkAdded,
           LanguageKnown, LanguageDetected, Operate, Collect, Answer, WorkDone, MapOccurrences, OcrPage, OcrDone, Stops
  <2>2. Same(book, book')
    <3>1. ASSUME NEW new, book' = UpsertChunks(book, new) PROVE Same(book, book')
      BY <1>0, <3>1, UpsertKeepsBook
    <3>2. ASSUME NEW d, book' = MarkTextAdded(book, d) PROVE Same(book, book')
      BY <1>0, <3>2, FlagsKeepRows
    <3>3. book' = SetLanguage(book) => Same(book, book')
      BY <1>0, FlagsKeepRows
    <3>4. ASSUME NEW d, NEW p, NEW t, book' = UpdateSourceOcr(book, d, p, t) PROVE Same(book, book')
      BY <1>0, <3>4, OcrKeepsRows
    <3>. QED  BY <2>1, <3>1, <3>2, <3>3, <3>4 DEF Same
  <2>. QED  BY <1>1, <2>2 DEF Same
<1>5. Crash => ScanIsLast
  BY <1>1 DEF Crash
<1>. QED  BY <1>2, <1>3, <1>4, <1>5 DEF BookNext

LEMMA BookInvariant ==
  ASSUME KeysDiffer PROVE BookSpec => [](BookInv /\ (ScanIsLast => WritesInv))
<1>. DEFINE Inv == BookInv /\ (ScanIsLast => WritesInv)
<1>1. BookInit => Inv
  <2>. SUFFICES ASSUME BookInit PROVE Inv
    OBVIOUS
  <2>1. StoreOK(book) /\ book.rows = <<>>
    BY DEF BookInit, EmptyBook, StoreOK, BookShape, PagesOK, RowsOK
  <2>2. DOMAIN job = Worker /\ \A w \in Worker : job[w] = NoJob
    BY DEF BookInit
  <2>3. RowsSound(book.rows)
    BY <2>1 DEF RowsSound, Numbered, HashesDiffer
  <2>4. WritesInv
    BY <2>2, <2>3, IdleHolds DEF WritesInv, ClaimsApart, Locked, Busy
  <2>. QED  BY <2>1, <2>2, <2>4, NoJobIsOK DEF BookInv
<1>2. Inv /\ [BookNext]_bookVars => Inv'
  <2>. SUFFICES ASSUME Inv, [BookNext]_bookVars PROVE Inv'
    OBVIOUS
  <2>1. BookInv'
    BY StartKeepsBook, PreflightKeepsBook, OperateKeepsBook, UserKeepsBook DEF BookNext, bookVars
  <2>2. ASSUME ScanIsLast', BookNext PROVE WritesInv'
    <3>0. ScanIsLast /\ WritesInv /\ BookInv
      BY <2>2, ScansStay
    <3>1. CASE ImportDocuments
      <4>1. PICK ty : book' = InsertDocument(book, ty, ImportedPages(ty))
        BY <3>1 DEF ImportDocuments
      <4>2. book'.rows = book.rows
        BY <3>0, <4>1, ImportEvolves DEF BookInv, StoreOK
      <4>3. Keeps(book.rows, book'.rows, {}) /\ RowsSound(book'.rows)
        BY <3>0, <4>2 DEF Keeps, WritesInv
      <4>. QED  BY <3>0, <3>1, <4>2, <4>3, UserKeepsJobs DEF ImportDocuments
    <3>2. CASE Crash
      BY <3>0, <3>2, AtRest DEF Crash, WritesInv
    <3>3. ASSUME NEW d \in book.docs, Edit(d) PROVE WritesInv'
      BY <3>0, <3>3, EditKeepsWrites
    <3>4. ASSUME NEW w \in Worker, Start(w) \/ Preflight(w) \/ Operate(w) \/ Stops(w) PROVE WritesInv'
      BY <3>0, <3>4, StartKeepsWrites, PreflightKeepsWrites, OperateKeepsWrites
    <3>. QED  BY <2>2, <3>1, <3>2, <3>3, <3>4 DEF BookNext
  <2>3. ASSUME UNCHANGED bookVars, ScanIsLast' PROVE WritesInv'
    BY <2>3 DEF bookVars, ScanIsLast, OcrRequired, WritesInv, Holds, JobNamed, Mirrors, Fresh, ClaimsApart, Locked, IsReview, Busy
  <2>. QED  BY <2>1, <2>2, <2>3
<1>. QED  BY <1>1, <1>2, PTL DEF BookSpec

\* A task writes a chunk row back only over the very row that it read, as long as no
\* document follows a scan, and chunk ids have different texts: what it holds is what
\* is stored, because the claims of two tasks that write rows of one document, or of
\* the user who saves one, conflict; because rows that are cut under the bootstrap
\* lock are rows that no one has; and because no rows are deleted under a task.
THEOREM TasksReturnWhatTheyRead == ASSUME KeysDiffer PROVE BookSpec => NoLostUpdate
<1>. DEFINE Inv == BookInv /\ (ScanIsLast => WritesInv)
            Kept == \A i \in DOMAIN book.rows \cap DOMAIN book'.rows :
                      ScanIsLast /\ book'.rows[i] # book.rows[i] /\ job' # job =>
                        \E w \in Worker : /\ job'[w] # job[w]
                                          /\ \E k \in DOMAIN job[w].rows : job[w].rows[k] = book.rows[i]
<1>1. Inv /\ [BookNext]_bookVars => [Kept]_bookVars
  <2>. SUFFICES ASSUME BookInv, WritesInv, BookNext, ScanIsLast, job' # job,
                       NEW i \in DOMAIN book.rows, book'.rows[i] # book.rows[i]
                PROVE  \E w \in Worker : /\ job'[w] # job[w]
                                         /\ \E k \in DOMAIN job[w].rows : job[w].rows[k] = book.rows[i]
    OBVIOUS
  <2>1. ASSUME NEW w \in Worker, Operate(w) \/ Stops(w)
        PROVE  job'[w] # job[w] /\ \E k \in DOMAIN job[w].rows : job[w].rows[k] = book.rows[i]
    BY <2>1, OperateKeepsWrites DEF Returns
  <2>2. ASSUME NEW w \in Worker, Preflight(w) PROVE FALSE
    BY <2>2, PreflightKeepsWrites DEF Keeps
  <2>3. ASSUME NEW w \in Worker, Start(w) PROVE FALSE
    BY <2>3, StartKeepsWrites
  <2>4. ASSUME NEW d \in book.docs, Edit(d) PROVE FALSE
    BY <2>4, EditKeepsWrites
  <2>5. ~ImportDocuments /\ ~Crash
    BY DEF ImportDocuments, Crash
  <2>. QED  BY <2>1, <2>2, <2>3, <2>4, <2>5 DEF BookNext
<1>2. BookSpec => []Inv
  BY BookInvariant
<1>. QED  BY <1>1, <1>2, PTL DEF BookSpec, NoLostUpdate

-----------------------------------------------------------------------------
(* The texts of documents, and the rows that are cut from them.            *)

\* What a scan's pages say came from OCR or from the user.
PagesRead(b, d) ==
  /\ IsFiniteSet(DOMAIN b.page[d])
  /\ b.type[d] # "text" =>
       \A p \in DOMAIN b.page[d] : b.page[d][p].ready => b.page[d][p].text \in OcrTexts
\* A scan without chunks, which may be blank
Blank(b, d) == b.type[d] # "text" /\ NoText \in OcrTexts /\ RowsOf(b.rows, d) = {}
\* The rows of d stand together.
Together(rows, d) ==
  \A i, k \in RowsOf(rows, d), m \in DOMAIN rows : i < m /\ m < k => rows[m].doc = d
\* The rows of a document are a beginning of its text; of any but a manga they are
\* all of it or none.
Beginning(b, d) ==
  LET s == DocumentText(b, d) IN
  /\ \E n \in 0..Len(s) : CutTo(b.rows, d, s, n)
  /\ b.type[d] # "manga" => RowsOf(b.rows, d) = {} \/ (IsCut(b, d) /\ Together(b.rows, d))
DocOK(b, d) ==
  /\ Beginning(b, d) /\ PagesRead(b, d)
  /\ d \in b.added => Whole(b, d) /\ (IsCut(b, d) \/ Blank(b, d))

LEMMA TextIsSequence ==
  ASSUME NEW b, NEW d, PagesRead(b, d)
  PROVE  LET s == DocumentText(b, d) IN
         /\ s \in Seq({s[k] : k \in 1..Len(s)}) /\ Len(s) \in Nat
         /\ Len(s) = 0 => \A p \in DOMAIN b.page[d] : b.page[d][p].text = NoText
<1>. DEFINE pages == b.page[d]
            read == {p \in DOMAIN pages : pages[p].text # NoText}
            Nth(k) == CHOOSE p \in read : Cardinality({q \in read : q < p}) = k - 1
            n == Cardinality(read)
            s == DocumentText(b, d)
<1>1. s = [k \in 1..n |-> pages[Nth(k)].text]
  BY DEF DocumentText
<1>2. IsFiniteSet(read)
  BY FS_Subset DEF PagesRead
<1>3. n \in Nat /\ (n = 0 => read = {})
  BY <1>2, FS_CardinalityType, FS_EmptySet
<1>4. DOMAIN s = 1..n /\ s = [k \in 1..n |-> s[k]]
  BY <1>1
<1>. HIDE DEF s, n
<1>5. s \in [1..n -> {s[k] : k \in 1..n}]
  BY <1>4
<1>6. s \in Seq({s[k] : k \in 1..n})
  BY <1>3, <1>5, SeqDef
<1>7. Len(s) = n
  BY <1>3, <1>4, <1>6, LenProperties
<1>. QED  BY <1>3, <1>6, <1>7 DEF s

\* The two inclusions of CutTo, and back
Shown(rows, d, s, n) ==
  /\ \A q \in 1..n : \E i \in RowsOf(rows, d) : rows[i].text = s[q]
  /\ \A i \in RowsOf(rows, d) : \E q \in 1..n : rows[i].text = s[q]
  /\ \A i, k \in RowsOf(rows, d) : i < k => Precedes(s, rows[i].text, rows[k].text)
LEMMA CutIsShown ==
  ASSUME NEW rows, NEW d, NEW s, NEW n
  PROVE  CutTo(rows, d, s, n) <=> Shown(rows, d, s, n)
<1>. DEFINE A == {rows[i].text : i \in RowsOf(rows, d)}
            B == {s[k] : k \in 1..n}
<1>1. A \subseteq B <=> \A i \in RowsOf(rows, d) : \E q \in 1..n : rows[i].text = s[q]
  OBVIOUS
<1>2. B \subseteq A <=> \A q \in 1..n : \E i \in RowsOf(rows, d) : rows[i].text = s[q]
  <2>1. \A q \in 1..n : s[q] \in A <=> \E i \in RowsOf(rows, d) : rows[i].text = s[q]
    OBVIOUS
  <2>. QED  BY <2>1
<1>. QED  BY <1>1, <1>2 DEF CutTo, Shown

\* Only what the rows of d say matters.
SameTexts(rows, new, d) ==
  RowsOf(new, d) = RowsOf(rows, d) /\ \A i \in RowsOf(rows, d) : new[i].text = rows[i].text
LEMMA SameCut ==
  ASSUME NEW rows, NEW new, NEW d, SameTexts(rows, new, d), NEW s, NEW n, CutTo(rows, d, s, n)
  PROVE  CutTo(new, d, s, n)
BY DEF CutTo, SameTexts

\* A document without rows
LEMMA NotCut ==
  ASSUME NEW rows, NEW d, RowsOf(rows, d) = {}, NEW s
  PROVE  CutTo(rows, d, s, 0)
BY DEF CutTo

\* What a task that prepares d has still to cut of its text
Rest(b, d, pieces) ==
  LET s == DocumentText(b, d) IN
  \E m \in 0..Len(s) :
    /\ pieces \in Seq({s[k] : k \in 1..Len(s)})
    /\ Len(pieces) = Len(s) - m /\ \A k \in 1..Len(pieces) : pieces[k] = s[m + k]
    /\ \E n \in m..Len(s) : CutTo(b.rows, d, s, n)
    /\ b.type[d] # "manga" => m \in {0, Len(s)}
\* Rows that have been cut from these pieces, to be stored
Cuts(rows, d, pieces, new) ==
  /\ \A i \in DOMAIN new : new[i].doc = d /\ new[i].text \in {pieces[k] : k \in 1..Len(pieces)}
  /\ \A k \in 1..Len(pieces) : <<d, pieces[k]>> \in Hashes(rows) \cup Hashes(new)
  /\ \A i, k \in DOMAIN new : i < k => Precedes(pieces, new[i].text, new[k].text)
  /\ \A i \in DOMAIN rows, k \in DOMAIN new : i < k

\* Of the text s, the rows of d are the first n pieces, and at least m; new has been
\* cut from the pieces after m, and all has both.
Adds(rows, d, s, m, n, call, new, all) ==
  /\ Len(s) \in Nat /\ m \in 0..Len(s) /\ n \in m..Len(s) /\ CutTo(rows, d, s, n)
  /\ Len(call) \in Nat /\ m + Len(call) <= Len(s) /\ \A k \in 1..Len(call) : call[k] = s[m + k]
  /\ Cuts(rows, d, call, new) /\ \A k \in DOMAIN new : Hash(new[k]) \notin Hashes(rows)
  /\ DOMAIN rows \subseteq Nat /\ DOMAIN new \subseteq Nat /\ Joined(rows, new, all)

\* Rows that are cut from the next pieces follow those there are.
LEMMA CutsFollow ==
  ASSUME NEW rows, NEW d, NEW s, NEW m, NEW n, NEW call, NEW new, NEW all, Adds(rows, d, s, m, n, call, new, all)
  PROVE  CutTo(all, d, s, IF n < m + Len(call) THEN m + Len(call) ELSE n)
<1>. DEFINE e == IF n < m + Len(call) THEN m + Len(call) ELSE n
<1>0. /\ m \in 0..Len(s) /\ n \in m..Len(s) /\ Len(s) \in Nat /\ Len(call) \in Nat /\ m + Len(call) <= Len(s)
      /\ CutTo(rows, d, s, n) /\ Cuts(rows, d, call, new)
      /\ \A k \in 1..Len(call) : call[k] = s[m + k]
      /\ \A k \in DOMAIN new : Hash(new[k]) \notin Hashes(rows)
      /\ DOMAIN rows \subseteq Nat /\ DOMAIN new \subseteq Nat
      /\ DOMAIN all = DOMAIN rows \cup DOMAIN new
      /\ \A i \in DOMAIN rows : all[i] = rows[i]
      /\ \A i \in DOMAIN new : all[i] = new[i]
  BY DEF Adds, Joined
<1>. USE <1>0
<1>. DEFINE old == RowsOf(rows, d)
<1>1. m \in Nat /\ n \in Nat /\ m <= n /\ n <= Len(s) /\ e \in Nat /\ e <= Len(s) /\ n <= e /\ m + Len(call) <= e
  OBVIOUS
<1>a. e = n \/ e = m + Len(call)
  OBVIOUS
<1>. HIDE DEF e
<1>2. RowsOf(all, d) = old \cup DOMAIN new
  BY DEF RowsOf, Cuts
<1>3. \A q \in 1..n : \E i \in old : rows[i].text = s[q]
  BY CutIsShown DEF Shown
<1>4. \A i \in old : \E q \in 1..n : rows[i].text = s[q]
  BY CutIsShown DEF Shown
\* A text cut now is none of the first n.
<1>5. \A k \in DOMAIN new, q \in 1..n : s[q] # new[k].text
  <2>. SUFFICES ASSUME NEW k \in DOMAIN new, NEW q \in 1..n, s[q] = new[k].text PROVE FALSE
    OBVIOUS
  <2>1. PICK i \in old : rows[i].text = s[q]
    BY <1>3
  <2>2. Hash(rows[i]) = Hash(new[k])
    BY <2>1 DEF Hash, RowsOf, Cuts
  <2>. QED  BY <2>1, <2>2 DEF Hashes, RowsOf
<1>6. \A k \in DOMAIN new : \E q \in 1..e : new[k].text = s[q]
  <2>. SUFFICES ASSUME NEW k \in DOMAIN new PROVE \E q \in 1..e : new[k].text = s[q]
    OBVIOUS
  <2>1. PICK l \in 1..Len(call) : new[k].text = call[l]
    BY DEF Cuts
  <2>2. m + l \in 1..e /\ new[k].text = s[m + l]
    BY <1>1, <2>1
  <2>. QED  BY <2>2
<1>7. \A q \in 1..e : \E i \in RowsOf(all, d) : all[i].text = s[q]
  <2>. SUFFICES ASSUME NEW q \in 1..e PROVE \E i \in RowsOf(all, d) : all[i].text = s[q]
    OBVIOUS
  <2>1. CASE q <= n
    <3>1. PICK i \in old : rows[i].text = s[q]
      BY <1>1, <1>3, <2>1
    <3>. QED  BY <1>2, <3>1 DEF RowsOf
  <2>2. CASE q > n
    <3>1. q - m \in 1..Len(call) /\ m + (q - m) = q
      BY <1>1, <1>a, <2>2
    <3>2. call[q - m] = s[q]
      BY <3>1
    <3>3. <<d, s[q]>> \in Hashes(rows) \cup Hashes(new)
      BY <3>1, <3>2 DEF Cuts
    <3>4. CASE <<d, s[q]>> \in Hashes(rows)
      <4>1. PICK i \in DOMAIN rows : rows[i].doc = d /\ rows[i].text = s[q]
        BY <3>4 DEF Hashes, Hash
      <4>. QED  BY <1>2, <4>1 DEF RowsOf
    <3>5. CASE <<d, s[q]>> \in Hashes(new)
      <4>1. PICK i \in DOMAIN new : new[i].text = s[q]
        BY <3>5 DEF Hashes, Hash
      <4>. QED  BY <1>2, <4>1
    <3>. QED  BY <3>3, <3>4, <3>5
  <2>. QED  BY <1>1, <2>1, <2>2
<1>8. \A i \in RowsOf(all, d) : \E q \in 1..e : all[i].text = s[q]
  <2>. SUFFICES ASSUME NEW i \in RowsOf(all, d) PROVE \E q \in 1..e : all[i].text = s[q]
    OBVIOUS
  <2>1. CASE i \in old
    <3>1. PICK q \in 1..n : rows[i].text = s[q]
      BY <1>4, <2>1
    <3>. QED  BY <1>1, <2>1, <3>1 DEF RowsOf
  <2>2. CASE i \in DOMAIN new
    BY <1>6, <2>2
  <2>. QED  BY <1>2, <2>1, <2>2
<1>10. ASSUME NEW i \in RowsOf(all, d), NEW k \in RowsOf(all, d), i < k
       PROVE  Precedes(s, all[i].text, all[k].text)
  <2>1. CASE k \in old
    <3>1. i \in old
      BY <1>2, <1>10, <2>1 DEF Cuts, RowsOf
    <3>. QED  BY <1>10, <2>1, <3>1 DEF CutTo, RowsOf
  <2>2. CASE k \in DOMAIN new /\ i \in old
    <3>1. PICK p \in 1..n : rows[i].text = s[p]
      BY <1>4, <2>2
    <3>2. p \in 1..Len(s) /\ \A q \in 1..p : q \in 1..n
      BY <1>1
    <3>3. \A q \in 1..p : s[q] # new[k].text
      BY <1>5, <2>2, <3>2
    <3>. QED  BY <2>2, <3>1, <3>2, <3>3 DEF Precedes, RowsOf
  <2>3. CASE k \in DOMAIN new /\ i \in DOMAIN new
    <3>1. PICK p \in 1..Len(call) : call[p] = new[i].text /\ \A q \in 1..p : call[q] # new[k].text
      BY <1>10, <2>3 DEF Cuts, Precedes
    <3>2. m + p \in 1..Len(s) /\ s[m + p] = new[i].text
      BY <1>1, <3>1
    <3>3. ASSUME NEW q \in 1..(m + p) PROVE s[q] # new[k].text
      <4>1. CASE q <= m
        BY <1>1, <1>5, <2>3, <4>1
      <4>2. CASE q > m
        <5>1. q - m \in 1..p /\ q - m \in 1..Len(call) /\ m + (q - m) = q
          BY <1>1, <4>2
        <5>2. call[q - m] = s[q]
          BY <5>1
        <5>. QED  BY <3>1, <5>1, <5>2
      <4>. QED  BY <1>1, <4>1, <4>2
    <3>. QED  BY <2>3, <3>2, <3>3 DEF Precedes
  <2>. QED  BY <1>2, <2>1, <2>2, <2>3
<1>. QED  BY <1>7, <1>8, <1>10, CutIsShown DEF Shown, e

\* A text is cut into the rows of its pieces that are not stored, in their order.
LEMMA NewRowsCut ==
  ASSUME Numbered(book.rows), NEW d, NEW pieces, Len(pieces) \in Nat
  PROVE  Cuts(book.rows, d, pieces, NewRows(d, pieces, NextChunkId(book.rows)))
<1>. DEFINE first == NextChunkId(book.rows)
            fresh == {k \in 1..Len(pieces) : /\ <<d, pieces[k]>> \notin Hashes(book.rows)
                                             /\ \A j \in 1..(k - 1) : pieces[j] # pieces[k]}
            new == [i \in {first + k - 1 : k \in fresh} |-> Row(d, pieces[i - first + 1])]
<1>1. first \in Nat /\ \A i \in DOMAIN book.rows : i < first
  <2>1. CASE book.rows = <<>>
    BY <2>1 DEF NextChunkId
  <2>2. CASE book.rows # <<>>
    <3>1. /\ Max(DOMAIN book.rows) \in DOMAIN book.rows
          /\ \A i \in DOMAIN book.rows : i <= Max(DOMAIN book.rows)
      BY <2>2, MaxIsGreatest DEF Numbered
    <3>. QED  BY <2>2, <3>1 DEF NextChunkId, Numbered
  <2>. QED  BY <2>1, <2>2
<1>2. NewRows(d, pieces, first) = new
  BY DEF NewRows
<1>. HIDE DEF first
<1>3. \A k \in fresh : first + k - 1 \in DOMAIN new
  OBVIOUS
<1>4. \A i \in DOMAIN new : \E k \in fresh : i = first + k - 1 /\ new[i].doc = d /\ new[i].text = pieces[k]
  <2>. SUFFICES ASSUME NEW k \in fresh
                PROVE  new[first + k - 1].doc = d /\ new[first + k - 1].text = pieces[k]
    OBVIOUS
  <2>1. (first + k - 1) - first + 1 = k
    BY <1>1
  <2>2. \A i \in DOMAIN new : new[i] = Row(d, pieces[i - first + 1])
    OBVIOUS
  <2>. HIDE DEF new
  <2>3. new[first + k - 1] = Row(d, pieces[k])
    BY <1>3, <2>1, <2>2
  <2>. QED  BY <2>3 DEF Row
<1>. HIDE DEF new
<1>5. ASSUME NEW k \in 1..Len(pieces) PROVE <<d, pieces[k]>> \in Hashes(book.rows) \cup Hashes(new)
  <2>. SUFFICES ASSUME <<d, pieces[k]>> \notin Hashes(book.rows) PROVE <<d, pieces[k]>> \in Hashes(new)
    OBVIOUS
  <2>. DEFINE same == {q \in 1..Len(pieces) : pieces[q] = pieces[k]}
              l == Min(same)
  <2>1. same \in SUBSET Nat /\ k \in same
    OBVIOUS
  <2>2. l \in same /\ \A q \in same : l <= q
    BY <2>1, MinIsLeast
  <2>. HIDE DEF l
  <2>3. \A q \in 1..(l - 1) : q \in 1..Len(pieces) /\ ~(l <= q)
    BY <2>2
  <2>4. l \in fresh
    BY <2>2, <2>3
  <2>5. PICK m \in fresh : first + l - 1 = first + m - 1 /\ Hash(new[first + l - 1]) = <<d, pieces[m]>>
    BY <1>3, <1>4, <2>4 DEF Hash
  <2>6. m = l
    BY <1>1, <2>4, <2>5
  <2>. QED  BY <1>3, <2>2, <2>4, <2>5, <2>6 DEF Hashes
<1>6. ASSUME NEW i \in DOMAIN new, NEW k \in DOMAIN new, i < k PROVE Precedes(pieces, new[i].text, new[k].text)
  <2>1. PICK p \in fresh : i = first + p - 1 /\ new[i].text = pieces[p]
    BY <1>4
  <2>2. PICK m \in fresh : k = first + m - 1 /\ new[k].text = pieces[m]
    BY <1>4
  <2>3. p < m
    BY <1>1, <1>6, <2>1, <2>2
  <2>4. \A q \in 1..p : q \in 1..(m - 1)
    BY <2>3
  <2>. QED  BY <2>1, <2>2, <2>4 DEF Precedes
<1>7. \A i \in DOMAIN book.rows, k \in DOMAIN new : i < k
  <2>. SUFFICES ASSUME NEW i \in DOMAIN book.rows, NEW k \in fresh PROVE i < first + k - 1
    BY <1>4
  <2>. QED  BY <1>1 DEF Numbered
<1>8. \A i \in DOMAIN new : new[i].doc = d /\ new[i].text \in {pieces[k] : k \in 1..Len(pieces)}
  BY <1>4
<1>. QED  BY <1>2, <1>5, <1>6, <1>7, <1>8 DEF Cuts, first

\* What is left of the rows of a document when the rows from one on are deleted is a
\* beginning of its text, if it was one before; rows that stand together are deleted
\* together.
LEMMA LeftOfCut ==
  ASSUME NEW rows, DOMAIN rows \subseteq Nat, NEW ids \in SUBSET DOMAIN rows,
         \A i \in ids, k \in DOMAIN rows : i <= k => k \in ids,
         NEW d, NEW s, NEW n \in 0..Len(s), Len(s) \in Nat, CutTo(rows, d, s, n)
  PROVE  \E m \in 0..Len(s) : CutTo(OnlyRows(rows, DOMAIN rows \ ids), d, s, m)
<1>. DEFINE left == OnlyRows(rows, DOMAIN rows \ ids)
            gone == RowsOf(rows, d) \cap ids
            i0 == Min(gone)
            at == {k \in 1..n : s[k] = rows[i0].text}
            k0 == Min(at)
<1>1. DOMAIN left = DOMAIN rows \ ids /\ \A i \in DOMAIN left : left[i] = rows[i]
  BY DEF OnlyRows
<1>. HIDE DEF left
<1>2. RowsOf(left, d) = RowsOf(rows, d) \ ids
  BY <1>1 DEF RowsOf
<1>3. CASE gone = {}
  <2>1. \A i \in RowsOf(rows, d) : i \notin ids /\ i \in DOMAIN left
    BY <1>1, <1>3 DEF RowsOf
  <2>2. RowsOf(left, d) = RowsOf(rows, d)
    BY <1>2, <2>1
  <2>3. SameTexts(rows, left, d)
    BY <1>1, <2>1, <2>2 DEF SameTexts
  <2>. QED  BY <2>3, SameCut DEF left
<1>4. CASE gone # {}
  <2>1. i0 \in gone /\ \A i \in gone : i0 <= i
    BY <1>4, MinIsLeast DEF RowsOf
  <2>. HIDE DEF i0
  <2>2. Shown(rows, d, s, n)
    BY CutIsShown
  <2>3. at \in SUBSET Nat /\ at # {}
    <3>1. PICK q \in 1..n : rows[i0].text = s[q]
      BY <2>1, <2>2 DEF Shown
    <3>2. q \in at
      BY <3>1
    <3>. QED  BY <3>2
  <2>4. k0 \in at /\ \A k \in at : k0 <= k
    BY <2>3, MinIsLeast
  <2>. HIDE DEF k0
  <2>5. k0 \in 1..n /\ s[k0] = rows[i0].text /\ n \in Nat /\ k0 - 1 \in 0..Len(s)
    BY <2>4
  <2>6. ASSUME NEW q \in 1..(k0 - 1) PROVE \E i \in RowsOf(left, d) : left[i].text = s[q]
    <3>1. q \in 1..n /\ s[q] # rows[i0].text /\ ~(k0 <= q)
      BY <2>4, <2>5
    <3>2. PICK i \in RowsOf(rows, d) : rows[i].text = s[q]
      BY <2>2, <3>1 DEF Shown
    <3>3. i \notin ids
      <4>. SUFFICES ASSUME i \in ids PROVE FALSE
        OBVIOUS
      <4>1. i0 < i
        BY <2>1, <3>1, <3>2 DEF RowsOf
      <4>2. PICK p \in 1..Len(s) : s[p] = rows[i0].text /\ \A r \in 1..p : s[r] # rows[i].text
        BY <2>1, <2>2, <4>1 DEF Shown, Precedes
      <4>3. p < q
        BY <2>5, <3>1, <3>2, <4>2
      <4>4. p \in at
        BY <2>5, <3>1, <4>2, <4>3
      <4>. QED  BY <2>4, <2>5, <3>1, <4>3, <4>4
    <3>. QED  BY <1>1, <1>2, <3>2, <3>3 DEF RowsOf
  <2>7. ASSUME NEW i \in RowsOf(left, d) PROVE \E q \in 1..(k0 - 1) : left[i].text = s[q]
    <3>1. i \in RowsOf(rows, d) /\ i \notin ids /\ left[i] = rows[i] /\ i < i0
      BY <1>1, <1>2, <2>1 DEF RowsOf
    <3>2. PICK p \in 1..Len(s) : s[p] = rows[i].text /\ \A r \in 1..p : s[r] # rows[i0].text
      BY <2>1, <2>2, <3>1 DEF Shown, Precedes
    <3>3. p \in 1..(k0 - 1)
      BY <2>5, <3>2
    <3>. QED  BY <3>1, <3>2, <3>3
  <2>8. \A i, k \in RowsOf(left, d) : i < k => Precedes(s, left[i].text, left[k].text)
    BY <1>1, <1>2, <2>2 DEF Shown, RowsOf
  <2>9. CutTo(left, d, s, k0 - 1)
    BY <2>6, <2>7, <2>8, CutIsShown DEF Shown
  <2>. QED  BY <2>5, <2>9 DEF left
<1>. QED  BY <1>3, <1>4

-----------------------------------------------------------------------------
(* What the transactions leave of a document.                              *)

\* A document whose pages and rows say what they said
DocAsWas(b, c, d) ==
  /\ c.type[d] = b.type[d] /\ c.page[d] = b.page[d] /\ SameTexts(b.rows, c.rows, d)
LEMMA TextAsWas ==
  ASSUME NEW b, NEW c, NEW d, DocAsWas(b, c, d)
  PROVE  /\ DocumentText(c, d) = DocumentText(b, d)
         /\ \A s, n : CutTo(b.rows, d, s, n) => CutTo(c.rows, d, s, n)
         /\ IsCut(b, d) => IsCut(c, d)
<1>1. DocumentText(c, d) = DocumentText(b, d)
  BY DEF DocumentText, DocAsWas
<1>2. \A s, n : CutTo(b.rows, d, s, n) => CutTo(c.rows, d, s, n)
  BY SameCut DEF DocAsWas
<1>. QED  BY <1>1, <1>2 DEF IsCut
LEMMA DocKept ==
  ASSUME NEW b, NEW c, NEW d, DocOK(b, d), DocAsWas(b, c, d),
         Together(b.rows, d) => Together(c.rows, d), d \in c.added => d \in b.added
  PROVE  DocOK(c, d)
<1>1. DocumentText(c, d) = DocumentText(b, d) /\ (IsCut(b, d) => IsCut(c, d))
  BY TextAsWas
<1>2. \A n : CutTo(b.rows, d, DocumentText(b, d), n) => CutTo(c.rows, d, DocumentText(b, d), n)
  BY TextAsWas
<1>3. Beginning(c, d)
  <2>1. PICK n \in 0..Len(DocumentText(b, d)) : CutTo(b.rows, d, DocumentText(b, d), n)
    BY DEF DocOK, Beginning
  <2>2. CutTo(c.rows, d, DocumentText(b, d), n)
    BY <1>2, <2>1
  <2>. QED  BY <1>1, <2>2 DEF DocOK, Beginning, DocAsWas, SameTexts
<1>. QED  BY <1>1, <1>3 DEF DocOK, PagesRead, Whole, Blank, DocAsWas, SameTexts

\* A scan that is whole, and of which nothing was cut, is blank.
LEMMA BlankPages ==
  ASSUME NEW b, NEW d, PagesRead(b, d), b.type[d] # "text", Whole(b, d), RowsOf(b.rows, d) = {}, IsCut(b, d)
  PROVE  Blank(b, d)
<1>. DEFINE s == DocumentText(b, d)
<1>1. Len(s) \in Nat /\ (Len(s) = 0 => \A p \in DOMAIN b.page[d] : b.page[d][p].text = NoText)
  BY TextIsSequence
<1>2. Shown(b.rows, d, s, Len(s))
  BY CutIsShown DEF IsCut
<1>3. Len(s) = 0
  <2>. HIDE DEF s
  <2>1. ~(1 \in 1..Len(s))
    BY <1>2 DEF Shown
  <2>. QED  BY <1>1, <2>1
<1>4. PICK p \in DOMAIN b.page[d] : TRUE
  BY DEF Whole
<1>. QED  BY <1>1, <1>3, <1>4 DEF Blank, Whole, PagesRead

\* A scan without chunks, of which a page is read or corrected
LEMMA DocReread ==
  ASSUME NEW b, NEW c, NEW d, DocOK(b, d), b.type[d] # "text", c.type[d] = b.type[d],
         RowsOf(b.rows, d) = {}, RowsOf(c.rows, d) = {}, d \in c.added => d \in b.added,
         DOMAIN c.page[d] = DOMAIN b.page[d],
         \A p \in DOMAIN b.page[d] : \/ c.page[d][p] = b.page[d][p]
                                     \/ c.page[d][p].ready /\ c.page[d][p].text \in OcrTexts
  PROVE  DocOK(c, d)
<1>1. PagesRead(c, d)
  BY DEF DocOK, PagesRead
<1>2. Len(DocumentText(c, d)) \in Nat
  BY <1>1, TextIsSequence
<1>3. Beginning(c, d)
  BY <1>2, NotCut DEF Beginning
<1>4. ASSUME d \in c.added PROVE Whole(c, d) /\ Blank(c, d)
  <2>1. Whole(b, d) /\ Blank(b, d)
    BY <1>4, BlankPages DEF DocOK
  <2>2. Whole(c, d)
    BY <2>1 DEF Whole
  <2>. QED  BY <2>1, <2>2 DEF Blank
<1>. QED  BY <1>1, <1>3, <1>4 DEF DocOK

\* A reset, or a deletion, deletes the rows from one on, and unmarks their documents.
LEMMA DocReset ==
  ASSUME NEW b, NEW c, NEW d, DocOK(b, d), DOMAIN b.rows \subseteq Nat, NEW stack,
         c.type[d] = b.type[d], c.page[d] = b.page[d],
         c.rows = OnlyRows(b.rows, DOMAIN b.rows \ FromFirstRowOf(b, stack)),
         d \in c.added => d \in b.added /\ RowsOf(b.rows, d) \cap FromFirstRowOf(b, stack) = {}
  PROVE  DocOK(c, d)
<1>. DEFINE ids == FromFirstRowOf(b, stack)
            s == DocumentText(b, d)
<1>1. /\ ids \in SUBSET DOMAIN b.rows /\ \A i \in ids, k \in DOMAIN b.rows : i <= k => k \in ids
      /\ \A i \in ids : \E k \in DOMAIN b.rows : b.rows[k].doc \in stack /\ k <= i
  BY DEF FromFirstRowOf
<1>2. Len(s) \in Nat /\ DocumentText(c, d) = s
  <2>1. PagesRead(b, d) /\ DocumentText(c, d) = DocumentText(b, d)
    BY DEF DocOK, DocumentText
  <2>. QED  BY <2>1, TextIsSequence
<1>3. /\ DOMAIN c.rows = DOMAIN b.rows \ ids /\ \A i \in DOMAIN c.rows : c.rows[i] = b.rows[i]
      /\ RowsOf(c.rows, d) = RowsOf(b.rows, d) \ ids
  BY DEF OnlyRows, RowsOf
<1>4. \E n \in 0..Len(s) : CutTo(c.rows, d, s, n)
  <2>1. PICK n \in 0..Len(s) : CutTo(b.rows, d, s, n)
    BY DEF DocOK, Beginning
  <2>. HIDE DEF ids, s
  <2>2. \E m \in 0..Len(s) : CutTo(OnlyRows(b.rows, DOMAIN b.rows \ ids), d, s, m)
    BY <1>1, <1>2, <2>1, LeftOfCut
  <2>. QED  BY <2>2 DEF ids
<1>. HIDE DEF ids
<1>5. CASE RowsOf(b.rows, d) \cap ids = {}
  <2>1. RowsOf(c.rows, d) = RowsOf(b.rows, d)
    BY <1>3, <1>5
  <2>2. DocAsWas(b, c, d)
    BY <1>3, <2>1 DEF DocAsWas, SameTexts, RowsOf
  <2>3. Together(b.rows, d) => Together(c.rows, d)
    BY <1>3, <2>1 DEF Together
  <2>. QED  BY <2>2, <2>3, DocKept
<1>6. CASE RowsOf(b.rows, d) \cap ids # {}
  <2>1. d \notin c.added
    BY <1>6 DEF ids
  <2>2. ASSUME b.type[d] # "manga" PROVE RowsOf(c.rows, d) = {}
    <3>1. Together(b.rows, d)
      BY <1>6, <2>2 DEF DocOK, Beginning
    <3>2. PICK i \in RowsOf(b.rows, d) : i \in ids
      BY <1>6
    <3>3. PICK m \in DOMAIN b.rows : b.rows[m].doc \in stack /\ m <= i
      BY <1>1, <3>2
    <3>4. m \in ids
      BY <3>3 DEF ids, FromFirstRowOf
    <3>5. ASSUME NEW k \in RowsOf(b.rows, d) PROVE k \in ids
      <4>1. CASE m <= k
        BY <1>1, <3>4, <4>1 DEF RowsOf
      <4>2. CASE k < m
        <5>1. b.rows[m].doc = d
          BY <3>1, <3>2, <3>3, <4>2 DEF Together, RowsOf
        <5>2. k \in DOMAIN b.rows /\ b.rows[k].doc \in stack /\ k <= k
          BY <3>3, <5>1 DEF RowsOf
        <5>. QED  BY <5>2 DEF ids, FromFirstRowOf
      <4>. QED  BY <3>3, <4>1, <4>2 DEF RowsOf
    <3>. QED  BY <1>3, <3>5
  <2>3. Beginning(c, d)
    BY <1>2, <1>4, <2>2 DEF Beginning
  <2>. QED  BY <2>1, <2>3 DEF DocOK, PagesRead
<1>. QED  BY <1>5, <1>6

-----------------------------------------------------------------------------
(* The documents and what the tasks have in hand.                          *)

CallOf(b, d, pieces) == IF b.type[d] = "manga" THEN SubSeq(pieces, 1, 1) ELSE pieces
\* OCR is at a scan without chunks.  A task prepares texts, and a scan only if it is
\* its own or the task is a review; it has read one that was not marked, and has cut
\* of it what it has no more in hand.
Prepares(b, j) ==
  /\ j.pc \in {"lock", "ocr"} => j.doc \in b.docs
  /\ j.pc = "ocr" => j.task.type = "ocr" /\ RowsOf(b.rows, j.doc) = {} /\ b.type[j.doc] # "text"
  /\ j.pc \in Chunking =>
       \A e \in j.todo : e \in b.docs /\ (j.task.type = "glossary_review" \/ b.type[e] = "text" \/ e = j.doc)
  /\ j.pc \in {"text", "store"} => Min(j.todo) \notin b.added /\ Rest(b, Min(j.todo), j.pieces)
  /\ j.pc = "store" =>
       j.pieces # <<>> /\ Cuts(b.rows, Min(j.todo), CallOf(b, Min(j.todo), j.pieces), j.rows)
TextInv ==
  /\ book.added \subseteq book.docs /\ \A d \in book.docs : DocOK(book, d)
  /\ \A w \in Worker : Prepares(book, job[w])

LEMMA NothingToPrepare ==
  ASSUME NEW b, NEW j, j.pc \notin Chunking, j.pc \notin {"lock", "ocr"} PROVE Prepares(b, j)
BY DEF Prepares, Chunking
LEMMA IdlePrepares ==
  ASSUME NEW b PROVE Prepares(b, NoJob)
<1>1. NoJob.pc = "idle"
  BY DEF NoJob
<1>. QED  BY <1>1, NothingToPrepare DEF Chunking

LEMMA RestKept ==
  ASSUME NEW b, NEW c, NEW d, DocAsWas(b, c, d), NEW pieces, Rest(b, d, pieces)
  PROVE  Rest(c, d, pieces)
<1>. DEFINE s == DocumentText(b, d)
<1>1. PICK m \in 0..Len(s) :
        /\ pieces \in Seq({s[k] : k \in 1..Len(s)})
        /\ Len(pieces) = Len(s) - m /\ \A k \in 1..Len(pieces) : pieces[k] = s[m + k]
        /\ \E n \in m..Len(s) : CutTo(b.rows, d, s, n)
        /\ b.type[d] # "manga" => m \in {0, Len(s)}
  BY Zenon DEF Rest
<1>2. DocumentText(c, d) = s /\ \A n : CutTo(b.rows, d, s, n) => CutTo(c.rows, d, s, n)
  BY TextAsWas
<1>3. c.type[d] = b.type[d]
  BY DEF DocAsWas
<1>. HIDE DEF s
<1>4. \E n \in m..Len(s) : CutTo(c.rows, d, s, n)
  BY <1>1, <1>2
<1>5. c.type[d] # "manga" => m \in {0, Len(s)}
  BY <1>1, <1>3
<1>6. DocumentText(c, d) = s
  BY <1>2
<1>. QED  BY <1>1, <1>4, <1>5, <1>6, Zenon DEF Rest

\* The chunks that are being stored go with the rows there are.
LEMMA JobPrepares ==
  ASSUME NEW b, NEW c, NEW j, Prepares(b, j), c.docs = b.docs, c.type = b.type,
         j.pc = "ocr" => RowsOf(c.rows, j.doc) = {},
         j.pc \in {"text", "store"} => Min(j.todo) \notin c.added /\ DocAsWas(b, c, Min(j.todo)),
         j.pc = "store" => DOMAIN c.rows = DOMAIN b.rows /\ Hashes(c.rows) = Hashes(b.rows)
  PROVE  Prepares(c, j)
<1>1. j.pc \in {"text", "store"} => Rest(c, Min(j.todo), j.pieces)
  BY RestKept DEF Prepares
<1>2. j.pc = "store" => Cuts(c.rows, Min(j.todo), CallOf(c, Min(j.todo), j.pieces), j.rows)
  BY DEF Prepares, Cuts, CallOf
<1>. QED  BY <1>1, <1>2 DEF Prepares

\* Rows that are written keep their ids and their hashes.
Rehashed(rows, new) ==
  DOMAIN new = DOMAIN rows /\ \A i \in DOMAIN rows : new[i].doc = rows[i].doc /\ new[i].text = rows[i].text
LEMMA RehashedRows ==
  ASSUME NEW rows, NEW new, Rehashed(rows, new)
  PROVE  /\ \A d : SameTexts(rows, new, d) /\ (Together(rows, d) => Together(new, d))
         /\ Hashes(new) = Hashes(rows)
<1>1. \A d : RowsOf(new, d) = RowsOf(rows, d)
  BY DEF Rehashed, RowsOf
<1>2. Hashes(new) = Hashes(rows)
  BY DEF Rehashed, Hashes, Hash
<1>. QED  BY <1>1, <1>2 DEF Rehashed, SameTexts, Together, RowsOf

\* A step that leaves every text alone
LEMMA TextKept ==
  ASSUME TextInv, book'.docs = book.docs, book'.type = book.type, book'.page = book.page, book'.added = book.added,
         Rehashed(book.rows, book'.rows), \A u \in Worker : job'[u] = job[u] \/ Prepares(book', job'[u])
  PROVE  TextInv'
<1>1. \A d : DocAsWas(book, book', d)
  BY RehashedRows DEF DocAsWas
<1>2. \A d : RowsOf(book'.rows, d) = RowsOf(book.rows, d)
  BY RehashedRows DEF SameTexts
<1>3. \A d \in book'.docs : DocOK(book', d)
  BY <1>1, RehashedRows, DocKept DEF TextInv
<1>4. ASSUME NEW u \in Worker, Prepares(book, job[u]) PROVE Prepares(book', job[u])
  <2>1. job[u].pc = "ocr" => RowsOf(book'.rows, job[u].doc) = {}
    BY <1>2, <1>4 DEF Prepares
  <2>2. job[u].pc \in {"text", "store"} => Min(job[u].todo) \notin book'.added
    BY <1>4 DEF Prepares
  <2>3. DOMAIN book'.rows = DOMAIN book.rows /\ Hashes(book'.rows) = Hashes(book.rows)
    BY RehashedRows DEF Rehashed
  <2>. QED  BY <1>1, <1>4, <2>1, <2>2, <2>3, JobPrepares
<1>5. \A u \in Worker : Prepares(book', job'[u])
  BY <1>4 DEF TextInv
<1>. QED  BY <1>3, <1>5 DEF TextInv

\* A page of a scan without chunks is read or corrected, while no task has its text in hand.
LEMMA PageReread ==
  ASSUME TextInv, NEW d \in book.docs, book.type[d] # "text", RowsOf(book.rows, d) = {},
         book'.docs = book.docs, book'.type = book.type, book'.added = book.added,
         Rehashed(book.rows, book'.rows), \A e \in book.docs \ {d} : book'.page[e] = book.page[e],
         DOMAIN book'.page[d] = DOMAIN book.page[d],
         \A p \in DOMAIN book.page[d] : \/ book'.page[d][p] = book.page[d][p]
                                        \/ book'.page[d][p].ready /\ book'.page[d][p].text \in OcrTexts,
         \A u \in Worker : job[u].pc \in {"text", "store"} => Min(job[u].todo) \in book.docs \ {d},
         \A u \in Worker : job'[u] = job[u] \/ Prepares(book', job'[u])
  PROVE  TextInv'
<1>1. \A e \in book.docs \ {d} : DocAsWas(book, book', e)
  BY RehashedRows DEF DocAsWas
<1>2. \A e : RowsOf(book'.rows, e) = RowsOf(book.rows, e)
  BY RehashedRows DEF SameTexts
<1>3. \A e \in book.docs \ {d} : DocOK(book', e)
  BY <1>1, RehashedRows, DocKept DEF TextInv
<1>4. DocOK(book', d)
  BY <1>2, DocReread DEF TextInv
<1>5. ASSUME NEW u \in Worker, Prepares(book, job[u]) PROVE Prepares(book', job[u])
  <2>1. job[u].pc = "ocr" => RowsOf(book'.rows, job[u].doc) = {}
    BY <1>2, <1>5 DEF Prepares
  <2>2. job[u].pc \in {"text", "store"} =>
          Min(job[u].todo) \notin book'.added /\ DocAsWas(book, book', Min(job[u].todo))
    BY <1>1, <1>5 DEF Prepares
  <2>3. DOMAIN book'.rows = DOMAIN book.rows /\ Hashes(book'.rows) = Hashes(book.rows)
    BY RehashedRows DEF Rehashed
  <2>. QED  BY <1>5, <2>1, <2>2, <2>3, JobPrepares
<1>6. \A u \in Worker : Prepares(book', job'[u])
  BY <1>5 DEF TextInv
<1>. QED  BY <1>3, <1>4, <1>6 DEF TextInv

-----------------------------------------------------------------------------
(* The tasks that prepare documents.                                       *)

\* What the transactions of a task leave alone
Left(b, c) == c.docs = b.docs /\ c.type = b.type /\ c.page = b.page
LEMMA TaskLeaves ==
  ASSUME NEW b, BookShape(b)
  PROVE  /\ \A new : Left(b, UpsertChunks(b, new)) /\ UpsertChunks(b, new).added = b.added
         /\ Left(b, SetLanguage(b)) /\ SetLanguage(b).added = b.added /\ SetLanguage(b).rows = b.rows
         /\ \A d : /\ Left(b, MarkTextAdded(b, d)) /\ MarkTextAdded(b, d).rows = b.rows
                   /\ MarkTextAdded(b, d).added = b.added \cup {d}
<1>1. ASSUME NEW new PROVE Left(b, UpsertChunks(b, new)) /\ UpsertChunks(b, new).added = b.added
  <2>1. PICK r : UpsertChunks(b, new) = [b EXCEPT !.rows = r]
    BY DEF UpsertChunks
  <2>. QED  BY <2>1 DEF Left, BookShape
<1>2. Left(b, SetLanguage(b)) /\ SetLanguage(b).added = b.added /\ SetLanguage(b).rows = b.rows
  BY DEF Left, SetLanguage, BookShape
<1>3. ASSUME NEW d
      PROVE  /\ Left(b, MarkTextAdded(b, d)) /\ MarkTextAdded(b, d).rows = b.rows
             /\ MarkTextAdded(b, d).added = b.added \cup {d}
  BY DEF Left, MarkTextAdded, BookShape
<1>. QED  BY <1>1, <1>2, <1>3

\* A task that reads the text of a document works on one of the book.
LEMMA NextIsKnown ==
  ASSUME BookInv, TextInv, NEW w \in Worker, job[w].pc \in {"text", "store"} \/ (job[w].pc = "prepare" /\ job[w].todo # {})
  PROVE  NextDocument(w) \in job[w].todo /\ NextDocument(w) \in book.docs
<1>1. job[w].todo \subseteq 1..book.last /\ job[w].todo # {}
  BY DEF BookInv, JobOK
<1>2. job[w].todo \in SUBSET Nat
  BY <1>1 DEF BookInv, StoreOK, BookShape
<1>3. NextDocument(w) \in job[w].todo
  BY <1>1, <1>2, MinIsLeast DEF NextDocument
<1>. QED  BY <1>3 DEF TextInv, Prepares, Chunking

\* OCR and the preparation of the same document never run together.
LEMMA OcrClashes ==
  ASSUME NEW t, NEW u, NEW d, Named(t, d), Named(u, d), u.type \in WriterTypes \ {"chunk_retranslation"}
  PROVE  Conflicts(HandlerClaims(t), HandlerClaims(u))
<1>1. ResourceClaim("doc", u, Key(d), WRITE_EXCLUSIVE) \in HandlerClaims(u)
  BY DEF Named, RunTypes, WriterTypes, HandlerClaims, TranslationTypes, GlossaryRewriteTypes,
     TranslationClaims, GlossaryExtractionClaims, DocClaims
<1>2. PICK c \in HandlerClaims(t) :
        /\ c.namespace = "doc" /\ c.book = "b" /\ c.mode \in {WRITE_EXCLUSIVE, WRITE_COOPERATIVE}
        /\ c.key = Key(d) \/ c.key = AnyKey
  BY HoldsDocument
<1>3. ClaimsClash(c, ResourceClaim("doc", u, Key(d), WRITE_EXCLUSIVE))
  BY <1>2 DEF ClaimsClash, ResourceClaim, ModesConflict, Named, WRITE_EXCLUSIVE, WRITE_COOPERATIVE, READ_SHARED
<1>. QED  BY <1>1, <1>3 DEF Conflicts
LEMMA OcrApart ==
  ASSUME BookInv, WritesInv, TextInv, NEW u \in Worker, job[u].pc = "ocr",
         NEW w \in Worker, job[w].pc \in {"text", "store"}
  PROVE  NextDocument(w) # job[u].doc
<1>. SUFFICES ASSUME NextDocument(w) = job[u].doc PROVE FALSE
  OBVIOUS
<1>. DEFINE d == job[u].doc
<1>1. /\ u # w /\ u \in Busy /\ w \in Busy
      /\ JobNamed(book.rows, job[u]) /\ JobNamed(book.rows, job[w])
  BY IdleHolds DEF Busy, WritesInv, Holds, Chunking
<1>2. RowsOf(book.rows, d) = {} /\ book.type[d] # "text"
  BY DEF TextInv, Prepares
<1>3. IsReview(w) \/ job[w].doc = d
  BY <1>2, NextIsKnown DEF TextInv, Prepares, IsReview, Chunking
<1>4. ~IsReview(w)
  BY <1>1, ReviewClashes DEF IsReview, JobNamed, WritesInv, ClaimsApart
<1>5. job[w].task.type \in WriterTypes \ {"chunk_retranslation"} /\ Named(job[w].task, d) /\ Named(job[u].task, d)
  BY <1>1, <1>2, <1>3, <1>4 DEF JobNamed, Named, RunTypes, IsReview
<1>. QED  BY <1>1, <1>5, OcrClashes DEF WritesInv, ClaimsApart

\* A step of a task that changes nothing that is stored of a text
LEMMA QuietKeepsText ==
  ASSUME BookInv, TextInv, NEW w \in Worker, JobStep(w), Left(book, book'), book'.added = book.added,
         Rehashed(book.rows, book'.rows), Prepares(book', job'[w])
  PROVE  TextInv'
<1>1. \A u \in Worker : job'[u] = job[u] \/ Prepares(book', job'[u])
  BY DEF BookInv, JobStep
<1>. QED  BY <1>1, TextKept DEF Left
LEMMA StillKeepsText ==
  ASSUME BookInv, TextInv, NEW w \in Worker, JobStep(w), book' = book, Prepares(book, job'[w])
  PROVE  TextInv'
BY QuietKeepsText DEF Left, Rehashed
LEMMA EndsKeepsText ==
  ASSUME BookInv, TextInv, NEW w \in Worker, Ends(w), Left(book, book'), book'.added = book.added,
         Rehashed(book.rows, book'.rows)
  PROVE  TextInv'
<1>1. JobStep(w) /\ job'[w] = NoJob
  BY DEF Ends, JobStep, BookInv
<1>. QED  BY <1>1, IdlePrepares, QuietKeepsText
LEMMA StopKeepsText ==
  ASSUME BookInv, TextInv, NEW w \in Worker, Ends(w), book' = book
  PROVE  TextInv'
BY EndsKeepsText DEF Left, Rehashed

\* The text is read: all of it is to be cut, but for the rows there are.
LEMMA ReadText ==
  ASSUME NEW b, NEW d, DocOK(b, d) PROVE Rest(b, d, DocumentText(b, d))
<1>. DEFINE s == DocumentText(b, d)
<1>1. s \in Seq({s[k] : k \in 1..Len(s)}) /\ Len(s) \in Nat
  BY TextIsSequence DEF DocOK
<1>2. PICK n \in 0..Len(s) : CutTo(b.rows, d, s, n)
  BY DEF DocOK, Beginning
<1>. HIDE DEF s
<1>3. 0 \in 0..Len(s) /\ Len(s) = Len(s) - 0 /\ \A k \in 1..Len(s) : s[k] = s[0 + k]
  BY <1>1
<1>. QED  BY <1>1, <1>2, <1>3, Zenon DEF Rest, s

\* The steps of a preparation that store no chunk
LEMMA ReadingKeepsText ==
  ASSUME BookInv, WritesInv, TextInv, ScanIsLast, NEW w \in Worker,
         \/ PreflightBegins(w) \/ ReviewBegins(w) \/ PrepareDocument(w) \/ AddText(w)
         \/ LanguageKnown(w) \/ LanguageDetected(w)
  PROVE  TextInv'
<1>. DEFINE j == job[w]
            n == job'[w]
<1>0. /\ DOMAIN job = Worker /\ BookShape(book) /\ Prepares(book, j) /\ JobOK(book, j)
      /\ {"task", "pc", "todo", "doc", "pieces", "rows"} \subseteq DOMAIN j
      /\ (j.pc \in Chunking \cup {"lock", "review"} => JobNamed(book.rows, j))
  BY IdleHolds DEF BookInv, StoreOK, JobOK, TextInv, WritesInv, Holds, Chunking, NoJob
<1>1. CASE PreflightBegins(w)
  <2>1. /\ JobStep(w) /\ book' = book /\ j.pc = "lock"
        /\ n = [j EXCEPT !.pc = "prepare", !.todo = PreflightDocuments(j.doc)]
    BY <1>0, <1>1 DEF PreflightBegins, JobStep
  <2>2. n.pc = "prepare" /\ n.todo = PreflightDocuments(j.doc) /\ n.doc = j.doc
    BY <1>0, <2>1
  <2>3. \A e \in PreflightDocuments(j.doc) : e \in book.docs /\ (book.type[e] = "text" \/ e = j.doc)
    <3>1. j.doc \in book.docs /\ book.docs \subseteq 1..book.last /\ book.last \in Nat
      BY <1>0, <2>1 DEF Prepares, BookShape
    <3>. QED  BY <3>1 DEF PreflightDocuments, ScanIsLast, OcrRequired
  <2>4. Prepares(book, n)
    BY <2>2, <2>3 DEF Prepares
  <2>. QED  BY <2>1, <2>4, StillKeepsText
<1>2. CASE ReviewBegins(w)
  <2>1. CASE book.lang
    BY <1>2, <2>1, StopKeepsText DEF ReviewBegins
  <2>2. CASE ~book.lang
    <3>1. /\ JobStep(w) /\ book' = book /\ j.pc = "review" /\ n = [j EXCEPT !.pc = "prepare", !.todo = book.docs]
      BY <1>0, <1>2, <2>2 DEF ReviewBegins, JobStep
    <3>2. n.pc = "prepare" /\ n.todo = book.docs /\ n.task.type = "glossary_review"
      BY <1>0, <3>1 DEF JobNamed
    <3>3. Prepares(book, n)
      BY <3>2 DEF Prepares
    <3>. QED  BY <3>1, <3>3, StillKeepsText
  <2>. QED  BY <2>1, <2>2
<1>3. CASE PrepareDocument(w)
  <2>. DEFINE d == NextDocument(w)
  <2>0. book' = book /\ j.pc = "prepare" /\ d \in book.docs
    BY <1>3, NextIsKnown DEF PrepareDocument
  <2>1. CASE Ends(w)
    BY <2>0, <2>1, StopKeepsText
  <2>2. CASE job' = [job EXCEPT ![w].todo = @ \ {d}]
    <3>. HIDE DEF d
    <3>1. JobStep(w) /\ n = [j EXCEPT !.todo = j.todo \ {d}]
      BY <1>0, <2>2 DEF JobStep
    <3>2. n.pc = "prepare" /\ n.todo = j.todo \ {d} /\ n.doc = j.doc /\ n.task = j.task
      BY <1>0, <2>0, <3>1
    <3>3. Prepares(book, n)
      BY <1>0, <2>0, <3>2 DEF Prepares, Chunking
    <3>. QED  BY <2>0, <3>1, <3>3, StillKeepsText
  <2>3. CASE /\ ~IsTextAdded(book, d)
             /\ job' = [job EXCEPT ![w].pc = "text", ![w].pieces = DocumentText(book, d)]
    <3>1. JobStep(w) /\ n = [j EXCEPT !.pc = "text", !.pieces = DocumentText(book, d)]
      BY <1>0, <2>3 DEF JobStep
    <3>2. n.pc = "text" /\ n.todo = j.todo /\ n.doc = j.doc /\ n.task = j.task /\ n.pieces = DocumentText(book, d)
      BY <1>0, <3>1
    <3>3. d \notin book.added /\ Rest(book, d, DocumentText(book, d)) /\ d = Min(j.todo)
      BY <2>0, <2>3, ReadText DEF TextInv, IsTextAdded, NextDocument
    <3>. HIDE DEF d
    <3>4. Prepares(book, n)
      BY <1>0, <2>0, <3>2, <3>3 DEF Prepares, Chunking
    <3>. QED  BY <2>0, <3>1, <3>4, StillKeepsText
  <2>. QED  BY <1>3, <2>1, <2>2, <2>3 DEF PrepareDocument
<1>4. CASE AddText(w)
  <2>. DEFINE d == NextDocument(w)
              rows == NewRows(d, Call(w), NextChunkId(book.rows))
  <2>1. JobStep(w) /\ book' = book /\ j.pc = "text" /\ j.pieces # <<>> /\ n = [j EXCEPT !.pc = "store", !.rows = rows]
    BY <1>0, <1>4 DEF AddText, JobStep
  <2>2. Call(w) = CallOf(book, d, j.pieces) /\ d = Min(j.todo)
    BY DEF Call, CallOf, NextDocument
  <2>3. Len(Call(w)) \in Nat
    <3>1. PICK S : j.pieces \in Seq(S)
      BY <1>0, <2>1, Zenon DEF Prepares, Rest
    <3>2. Len(j.pieces) \in Nat /\ Len(j.pieces) >= 1
      BY <2>1, <3>1, EmptySeq
    <3>3. \A k \in 1..1 : j.pieces[k] \in S
      BY <3>1, <3>2
    <3>4. Len(SubSeq(j.pieces, 1, 1)) = 1
      BY <3>3, SubSeqProperties
    <3>. QED  BY <2>2, <3>2, <3>4 DEF CallOf
  <2>4. Cuts(book.rows, d, Call(w), rows)
    BY <1>0, <2>3, NewRowsCut DEF WritesInv, RowsSound
  <2>. HIDE DEF rows, d
  <2>5. /\ n.pc = "store" /\ n.todo = j.todo /\ n.doc = j.doc /\ n.task = j.task /\ n.pieces = j.pieces
        /\ n.rows = rows
    BY <1>0, <2>1
  <2>6. Prepares(book, n)
    BY <1>0, <2>1, <2>2, <2>4, <2>5 DEF Prepares, Chunking
  <2>. QED  BY <2>1, <2>6, StillKeepsText
\* The language, and what the preparation was for
<1>5. ASSUME NEW pc \in {"collect", "detect"}, Goto(w, pc), j.pc \in Chunking, j.todo = {} \/ pc = "collect",
             Left(book, book'), book'.added = book.added, book'.rows = book.rows
      PROVE  TextInv'
  <2>1. JobStep(w) /\ n = [j EXCEPT !.pc = pc]
    BY <1>0, <1>5 DEF Goto, JobStep
  <2>2. n.pc = pc /\ n.todo = j.todo
    BY <1>0, <2>1
  <2>3. Prepares(book', n)
    BY <1>5, <2>2 DEF Prepares, Chunking
  <2>. QED  BY <1>5, <2>1, <2>3, QuietKeepsText DEF Rehashed
<1>6. ASSUME Prepared(w), j.pc \in Chunking, Left(book, book'), book'.added = book.added, book'.rows = book.rows
      PROVE  TextInv'
  <2>1. CASE IsReview(w)
    BY <1>6, <2>1, EndsKeepsText DEF Prepared, Rehashed
  <2>2. CASE ~IsReview(w)
    BY <1>5, <1>6, <2>2 DEF Prepared
  <2>. QED  BY <2>1, <2>2
<1>7. CASE LanguageKnown(w)
  <2>1. book' = book /\ j.pc \in Chunking /\ j.todo = {} /\ Left(book, book')
    BY <1>7 DEF LanguageKnown, Chunking, Left
  <2>. QED  BY <1>5, <1>6, <1>7, <2>1, StopKeepsText DEF LanguageKnown
<1>8. CASE LanguageDetected(w)
  <2>1. Left(book, book') /\ book'.added = book.added /\ book'.rows = book.rows
    BY <1>0, <1>8, TaskLeaves DEF LanguageDetected
  <2>. QED  BY <1>6, <1>8, <2>1 DEF LanguageDetected, Chunking
<1>. QED  BY <1>1, <1>2, <1>3, <1>4, <1>7, <1>8

\* Chunks are stored: of their document there are now as many pieces more.
LEMMA StoreKeepsText ==
  ASSUME BookInv, WritesInv, TextInv, NEW w \in Worker, StoreChunks(w)
  PROVE  TextInv'
<1>. DEFINE j == job[w]
            n == job'[w]
            d == NextDocument(w)
            s == DocumentText(book, d)
            call == Call(w)
            new == j.rows
<1>0. /\ DOMAIN job = Worker /\ BookShape(book) /\ RowsSound(book.rows) /\ Prepares(book, j) /\ j.pc = "store"
      /\ {"task", "pc", "todo", "doc", "pieces", "rows"} \subseteq DOMAIN j
      /\ RowsSound(new) /\ \A k \in DOMAIN new : Hash(new[k]) \notin Hashes(book.rows)
  BY DEF BookInv, StoreOK, JobOK, TextInv, WritesInv, Holds, Fresh, StoreChunks
<1>1. CASE UpsertFails(book, new)
  BY <1>1, StopKeepsText DEF StoreChunks
<1>2. CASE ~UpsertFails(book, new)
  <2>. DEFINE pieces == SubSeq(j.pieces, Len(call) + 1, Len(j.pieces))
  <2>1. /\ book' = UpsertChunks(book, new)
        /\ job' = [job EXCEPT ![w] = [job[w] EXCEPT !.pc = "text", !.rows = <<>>, !.pieces = pieces]]
    BY <1>0, <1>2 DEF StoreChunks
  <2>. HIDE DEF pieces
  <2>2. JobStep(w) /\ n = [j EXCEPT !.pc = "text", !.rows = <<>>, !.pieces = pieces]
    BY <1>0, <2>1 DEF JobStep
  <2>3. n.pc = "text" /\ n.todo = j.todo /\ n.doc = j.doc /\ n.task = j.task /\ n.pieces = pieces
    BY <1>0, <2>2
  <2>4. Left(book, book') /\ book'.added = book.added
    BY <1>0, <2>1, TaskLeaves
  <2>5. Joined(book.rows, new, book'.rows)
    BY <1>0, <1>2, <2>1, InsertKeepsRows
  <2>6. d \in j.todo /\ d \in book.docs /\ d = Min(j.todo)
    BY <1>0, NextIsKnown DEF NextDocument
  <2>7. call = CallOf(book, d, j.pieces) /\ Cuts(book.rows, d, call, new) /\ j.pieces # <<>> /\ d \notin book.added
    BY <1>0, <2>6 DEF Call, CallOf, Prepares, NextDocument
  <2>8. DocOK(book, d) /\ Len(s) \in Nat
    BY <2>6, TextIsSequence DEF TextInv, DocOK
  <2>9. PICK m \in 0..Len(s) :
          /\ j.pieces \in Seq({s[k] : k \in 1..Len(s)})
          /\ Len(j.pieces) = Len(s) - m /\ \A k \in 1..Len(j.pieces) : j.pieces[k] = s[m + k]
          /\ \E l \in m..Len(s) : CutTo(book.rows, d, s, l)
          /\ book.type[d] # "manga" => m \in {0, Len(s)}
    <3>1. Rest(book, d, j.pieces)
      BY <1>0, <2>6 DEF Prepares
    <3>. QED  BY <3>1, Zenon DEF Rest
  <2>10. PICK l \in m..Len(s) : CutTo(book.rows, d, s, l)
    BY <2>9
  <2>. HIDE DEF s
  <2>. DEFINE S == {s[k] : k \in 1..Len(s)}
  <2>11. Len(j.pieces) \in Nat /\ Len(j.pieces) >= 1 /\ m + Len(j.pieces) = Len(s)
    BY <2>7, <2>8, <2>9, EmptySeq
  <2>a. \A k \in 1..Len(j.pieces) : j.pieces[k] = s[m + k]
    BY <2>9
  <2>b. book.type[d] # "manga" => m \in {0, Len(s)}
    BY <2>9
  <2>. HIDE DEF S
  <2>12. /\ Len(call) \in Nat /\ Len(call) >= 1 /\ Len(call) <= Len(j.pieces)
         /\ \A k \in 1..Len(call) : call[k] = s[m + k]
         /\ book.type[d] # "manga" => m = 0 /\ m + Len(call) = Len(s)
    <3>1. CASE book.type[d] = "manga"
      <4>1. call = SubSeq(j.pieces, 1, 1)
        BY <2>7, <3>1 DEF CallOf
      <4>2. \A k \in 1..1 : j.pieces[k] \in {j.pieces[1]}
        OBVIOUS
      <4>3. Len(call) = 1 /\ \A i \in 1 .. 1 - 1 + 1 : call[i] = j.pieces[1 + i - 1]
        BY <4>1, <4>2, SubSeqProperties
      <4>4. call[1] = j.pieces[1]
        BY <4>3
      <4>5. j.pieces[1] = s[m + 1]
        BY <2>11, <2>a
      <4>6. \A k \in 1..Len(call) : call[k] = s[m + k]
        BY <4>3, <4>4, <4>5
      <4>. QED  BY <2>11, <3>1, <4>3, <4>6
    <3>2. CASE book.type[d] # "manga"
      <4>1. call = j.pieces
        BY <2>7, <3>2 DEF CallOf
      <4>2. m = 0
        BY <2>8, <2>11, <2>b, <3>2
      <4>. QED  BY <2>11, <2>a, <4>1, <4>2
    <3>. QED  BY <3>1, <3>2
  <2>. HIDE DEF call
  <2>. DEFINE e == IF l < m + Len(call) THEN m + Len(call) ELSE l
  <2>13. /\ e \in Nat /\ m + Len(call) <= Len(s) /\ m + Len(call) <= e /\ e <= Len(s) /\ m + Len(call) \in 0..Len(s)
         /\ book.type[d] # "manga" => e = Len(s) /\ m + Len(call) = Len(s)
    BY <2>8, <2>11, <2>12
  <2>14. DOMAIN book.rows \subseteq Nat /\ DOMAIN new \subseteq Nat
    BY <1>0 DEF RowsSound, Numbered
  <2>15. CutTo(book'.rows, d, s, e)
    <3>1. Adds(book.rows, d, s, m, l, call, new, book'.rows)
      BY <1>0, <2>5, <2>7, <2>8, <2>10, <2>12, <2>13, <2>14 DEF Adds
    <3>. QED  BY <3>1, CutsFollow
  <2>. HIDE DEF e
  \* The other documents
  <2>16. \A i \in DOMAIN new : new[i].doc = d
    BY <2>7 DEF Cuts
  <2>17. ASSUME NEW a, a # d PROVE SameTexts(book.rows, book'.rows, a) /\ (Together(book.rows, a) => Together(book'.rows, a))
    <3>1. RowsOf(book'.rows, a) = RowsOf(book.rows, a)
      BY <2>5, <2>16, <2>17 DEF Joined, RowsOf
    <3>2. SameTexts(book.rows, book'.rows, a)
      BY <2>5, <3>1 DEF SameTexts, Joined, RowsOf
    <3>3. ASSUME Together(book.rows, a), NEW i \in RowsOf(book.rows, a), NEW k \in RowsOf(book.rows, a),
                 NEW x \in DOMAIN book'.rows, i < x, x < k
          PROVE  book'.rows[x].doc = a
      <4>1. x \notin DOMAIN new
        BY <2>7, <2>14, <3>3 DEF Cuts, RowsOf
      <4>2. x \in DOMAIN book.rows /\ book'.rows[x] = book.rows[x]
        BY <2>5, <4>1 DEF Joined
      <4>. QED  BY <3>3, <4>2 DEF Together
    <3>. QED  BY <3>1, <3>2, <3>3 DEF Together
  <2>18. ASSUME NEW a \in book.docs, a # d PROVE DocOK(book', a)
    <3>1. DocAsWas(book, book', a)
      BY <2>4, <2>17, <2>18 DEF DocAsWas, Left
    <3>. QED  BY <2>4, <2>17, <2>18, <3>1, DocKept DEF TextInv
  \* The document itself
  <2>19. DocumentText(book', d) = s
    BY <2>4 DEF DocumentText, Left, s
  <2>20. DocOK(book', d)
    <3>1. PagesRead(book', d)
      BY <2>4, <2>8 DEF DocOK, PagesRead, Left
    <3>2. ASSUME book.type[d] # "manga" PROVE IsCut(book', d) /\ Together(book'.rows, d)
      <4>1. IsCut(book', d)
        BY <2>13, <2>15, <2>19, <3>2 DEF IsCut
      <4>2. CASE RowsOf(book.rows, d) = {}
        <5>1. ASSUME NEW i \in RowsOf(book'.rows, d), NEW x \in DOMAIN book'.rows, i < x PROVE book'.rows[x].doc = d
          <6>1. i \in DOMAIN new
            BY <2>5, <4>2 DEF Joined, RowsOf
          <6>2. x \notin DOMAIN book.rows
            BY <2>7, <2>14, <5>1, <6>1 DEF Cuts
          <6>. QED  BY <2>5, <2>16, <6>2 DEF Joined
        <5>. QED  BY <4>1, <5>1 DEF Together
      <4>3. CASE RowsOf(book.rows, d) # {}
        <5>1. Together(book.rows, d) /\ IsCut(book, d)
          BY <2>8, <3>2, <4>3 DEF DocOK, Beginning
        <5>2. Shown(book.rows, d, s, Len(s))
          BY <5>1, CutIsShown DEF IsCut, s
        <5>3. DOMAIN new = {}
          <6>. SUFFICES ASSUME NEW k \in DOMAIN new PROVE FALSE
            OBVIOUS
          <6>1. PICK q \in 1..Len(call) : new[k].doc = d /\ new[k].text = call[q]
            BY <2>7 DEF Cuts
          <6>a. q \in Nat /\ 1 <= q /\ q <= Len(call) /\ call[q] = s[m + q]
            BY <2>12
          <6>2. m + q \in 1..Len(s) /\ call[q] = s[m + q]
            BY <2>8, <2>12, <2>13, <6>a
          <6>3. PICK i \in RowsOf(book.rows, d) : book.rows[i].text = new[k].text
            BY <5>2, <6>1, <6>2 DEF Shown
          <6>4. Hash(book.rows[i]) = Hash(new[k]) /\ i \in DOMAIN book.rows
            BY <6>1, <6>3 DEF Hash, RowsOf
          <6>. QED  BY <1>0, <6>4 DEF Hashes
        <5>. QED  BY <2>5, <4>1, <5>1, <5>3 DEF Joined, Together, RowsOf
      <4>. QED  BY <4>2, <4>3
    <3>3. e \in 0..Len(s)
      BY <2>13
    <3>4. Beginning(book', d)
      BY <2>4, <2>15, <2>19, <3>2, <3>3 DEF Beginning, Left
    <3>. QED  BY <2>4, <2>7, <3>1, <3>4 DEF DocOK
  \* The task
  <2>21. Rest(book', d, pieces)
    <3>a. j.pieces \in Seq(S)
      BY <2>9 DEF S
    <3>1. \A k \in Len(call) + 1 .. Len(j.pieces) : j.pieces[k] \in S
      BY <2>11, <2>12, <3>a
    <3>2. /\ pieces \in Seq(S) /\ Len(pieces) = IF Len(call) + 1 <= Len(j.pieces) THEN Len(j.pieces) - (Len(call) + 1) + 1 ELSE 0
          /\ \A i \in 1 .. Len(j.pieces) - (Len(call) + 1) + 1 : pieces[i] = j.pieces[Len(call) + 1 + i - 1]
      BY <2>11, <2>12, <3>1, SubSeqProperties DEF pieces
    <3>3. Len(pieces) = Len(s) - (m + Len(call))
      BY <2>11, <2>12, <3>2
    <3>4. \A k \in 1..Len(pieces) : pieces[k] = s[(m + Len(call)) + k]
      <4>. SUFFICES ASSUME NEW k \in 1..Len(pieces) PROVE pieces[k] = s[(m + Len(call)) + k]
        OBVIOUS
      <4>1. k \in 1 .. Len(j.pieces) - (Len(call) + 1) + 1 /\ Len(call) + 1 + k - 1 = Len(call) + k
        BY <2>11, <2>12, <3>2
      <4>2. Len(call) + k \in 1..Len(j.pieces) /\ m + (Len(call) + k) = (m + Len(call)) + k
        BY <2>11, <2>12, <4>1
      <4>. QED  BY <2>9, <3>2, <4>1, <4>2
    <3>5. e \in (m + Len(call))..Len(s) /\ (book'.type[d] # "manga" => m + Len(call) \in {0, Len(s)})
      BY <2>4, <2>13 DEF Left
    <3>6. pieces \in Seq({s[k] : k \in 1..Len(s)})
      BY <3>2 DEF S
    <3>. HIDE DEF pieces
    <3>. QED  BY <2>13, <2>15, <2>19, <3>3, <3>4, <3>5, <3>6, Zenon DEF Rest
  <2>22. Prepares(book', n)
    BY <1>0, <2>3, <2>4, <2>6, <2>7, <2>21 DEF Prepares, Chunking, Left
  <2>23. ASSUME NEW u \in Worker, u # w PROVE Prepares(book', job[u])
    <3>1. job[u].pc \notin {"text", "store"}
      BY <1>0, <2>23, OneChunks DEF Chunking
    <3>2. job[u].pc = "ocr" => RowsOf(book'.rows, job[u].doc) = {}
      <4>. SUFFICES ASSUME job[u].pc = "ocr" PROVE RowsOf(book'.rows, job[u].doc) = {}
        OBVIOUS
      <4>1. job[u].doc # d
        BY <1>0, OcrApart
      <4>. QED  BY <2>17, <4>1 DEF SameTexts, TextInv, Prepares
    <3>3. Prepares(book, job[u])
      BY DEF TextInv
    <3>. QED  BY <2>4, <3>1, <3>2, <3>3, JobPrepares DEF Left
  <2>24. \A u \in Worker : Prepares(book', job'[u])
    BY <1>0, <2>2, <2>22, <2>23 DEF JobStep
  <2>25. book'.added \subseteq book'.docs /\ book'.docs = book.docs
    BY <2>4 DEF TextInv, Left
  <2>. QED  BY <2>18, <2>20, <2>24, <2>25 DEF TextInv
<1>. QED  BY <1>1, <1>2

\* A document is marked when nothing is left of its text to cut.
LEMMA MarkKeepsText ==
  ASSUME BookInv, WritesInv, TextInv, NEW w \in Worker, MarkAdded(w)
  PROVE  TextInv'
<1>. DEFINE j == job[w]
            n == job'[w]
            d == NextDocument(w)
            s == DocumentText(book, d)
<1>0. /\ DOMAIN job = Worker /\ BookShape(book) /\ Prepares(book, j) /\ j.pc = "text" /\ j.pieces = <<>>
      /\ {"task", "pc", "todo", "doc", "pieces", "rows"} \subseteq DOMAIN j /\ JobOK(book, j)
      /\ book' = MarkTextAdded(book, d)
  BY DEF BookInv, StoreOK, JobOK, TextInv, MarkAdded
<1>1. JobStep(w) /\ n = [j EXCEPT !.pc = "prepare", !.todo = j.todo \ {d}]
  BY <1>0 DEF MarkAdded, JobStep
<1>2. d \in j.todo /\ d \in book.docs /\ d = Min(j.todo) /\ DocOK(book, d)
  BY <1>0, NextIsKnown DEF NextDocument, TextInv
<1>3. Left(book, book') /\ book'.rows = book.rows /\ book'.added = book.added \cup {d}
  BY <1>0, TaskLeaves
<1>4. Whole(book, d)
  BY <1>0, <1>2 DEF JobOK
<1>5. IsCut(book, d)
  <2>1. PICK m \in 0..Len(s) : Len(j.pieces) = Len(s) - m /\ \E k \in m..Len(s) : CutTo(book.rows, d, s, k)
    <3>1. Rest(book, d, j.pieces)
      BY <1>0, <1>2 DEF Prepares
    <3>. QED  BY <3>1, Zenon DEF Rest
  <2>2. Len(s) \in Nat
    BY <1>2, TextIsSequence DEF DocOK
  <2>. HIDE DEF s
  <2>3. m = Len(s)
    BY <1>0, <2>1, <2>2
  <2>4. \E k \in m..Len(s) : CutTo(book.rows, d, s, k)
    BY <2>1
  <2>5. CutTo(book.rows, d, s, Len(s))
    BY <2>2, <2>3, <2>4
  <2>. QED  BY <2>5 DEF IsCut, s
<1>. HIDE DEF d
<1>6. \A e : DocAsWas(book, book', e)
  BY <1>3 DEF Left, DocAsWas, SameTexts
<1>7. \A e \in book.docs \ {d} : DocOK(book', e)
  BY <1>3, <1>6, DocKept DEF TextInv
<1>8. DocOK(book', d)
  <2>1. IsCut(book', d)
    BY <1>5, <1>6, TextAsWas
  <2>2. Beginning(book', d)
    <3>1. DocumentText(book', d) = DocumentText(book, d)
      BY <1>6, TextAsWas
    <3>. QED  BY <1>2, <1>3, <2>1, <3>1 DEF DocOK, Beginning, Left
  <2>. QED  BY <1>2, <1>3, <1>4, <2>1, <2>2 DEF DocOK, PagesRead, Whole, Left
<1>9. Prepares(book', n)
  <2>1. n.pc = "prepare" /\ n.todo = j.todo \ {d} /\ n.doc = j.doc /\ n.task = j.task
    BY <1>0, <1>1
  <2>. QED  BY <1>0, <1>3, <2>1 DEF Prepares, Chunking, Left
<1>10. ASSUME NEW u \in Worker, u # w PROVE Prepares(book', job[u])
  <2>1. job[u].pc \notin {"text", "store"}
    BY <1>0, <1>10, OneChunks DEF Chunking
  <2>2. Prepares(book, job[u])
    BY DEF TextInv
  <2>3. job[u].pc = "ocr" => RowsOf(book'.rows, job[u].doc) = {}
    BY <1>3, <2>2 DEF Prepares
  <2>. QED  BY <1>3, <2>1, <2>2, <2>3, JobPrepares DEF Left
<1>11. \A u \in Worker : Prepares(book', job'[u])
  BY <1>0, <1>1, <1>9, <1>10 DEF JobStep
<1>. QED  BY <1>2, <1>3, <1>7, <1>8, <1>11 DEF TextInv, Left

-----------------------------------------------------------------------------
(* The operations, and the user.                                           *)

\* What update_source_ocr leaves alone
LEMMA PageLeaves ==
  ASSUME NEW b, StoreOK(b), NEW d \in b.docs, NEW p, NEW t \in OcrTexts
  PROVE  LET c == UpdateSourceOcr(b, d, p, t) IN
         /\ c.docs = b.docs /\ c.type = b.type /\ c.added = b.added /\ c.rows = b.rows
         /\ \A e \in b.docs \ {d} : c.page[e] = b.page[e]
         /\ DOMAIN c.page[d] = DOMAIN b.page[d]
         /\ \A q \in DOMAIN b.page[d] : \/ c.page[d][q] = b.page[d][q]
                                        \/ c.page[d][q].ready /\ c.page[d][q].text \in OcrTexts
<1>. DEFINE c == UpdateSourceOcr(b, d, p, t)
            read == [text |-> t, ready |-> TRUE]
            pages == [b.page[d] EXCEPT ![p] = read]
            page == [b.page EXCEPT ![d] = pages]
<1>1. c = [b EXCEPT !.page = page]
  BY DEF UpdateSourceOcr
<1>2. read.ready /\ read.text \in OcrTexts
  OBVIOUS
<1>. HIDE DEF read
<1>3. DOMAIN pages = DOMAIN b.page[d] /\ \A q \in DOMAIN pages : pages[q] = b.page[d][q] \/ pages[q] = read
  OBVIOUS
<1>. HIDE DEF pages
<1>4. d \in DOMAIN b.page /\ b.docs \subseteq DOMAIN b.page
  BY DEF StoreOK, PagesOK
<1>5. page[d] = pages /\ \A e \in b.docs \ {d} : page[e] = b.page[e]
  BY <1>4
<1>. HIDE DEF page
<1>6. c.docs = b.docs /\ c.type = b.type /\ c.added = b.added /\ c.rows = b.rows /\ c.page = page
  BY <1>1 DEF StoreOK, BookShape
<1>. QED  BY <1>2, <1>3, <1>5, <1>6

\* A row that has been worked on is of the same text.
LEMMA WorkedText ==
  ASSUME NEW rows, NEW new, NEW ids, Keeps(rows, new, ids), DOMAIN new = DOMAIN rows
  PROVE  Rehashed(rows, new)
BY DEF Keeps, Rehashed, Hash

LEMMA OperateKeepsText ==
  ASSUME BookInv, WritesInv, TextInv, NEW w \in Worker, Operate(w) \/ Stops(w)
  PROVE  TextInv'
<1>. DEFINE j == job[w]
            n == job'[w]
<1>0. /\ DOMAIN job = Worker /\ BookShape(book) /\ Prepares(book, j) /\ RowsOK(book, j.rows)
      /\ {"task", "pc", "todo", "doc", "pieces", "rows"} \subseteq DOMAIN j
  BY DEF BookInv, StoreOK, JobOK, TextInv
\* A step past the preparation, that writes rows back or none
<1>1. ASSUME \/ Left(book, book') /\ book'.added = book.added /\ Rehashed(book.rows, book'.rows),
             \/ Ends(w)
             \/ JobStep(w) /\ n.pc \in Writing
      PROVE  TextInv'
  <2>1. n.pc \in Writing => Prepares(book', n)
    BY NothingToPrepare DEF Writing, Chunking
  <2>. QED  BY <1>1, <2>1, EndsKeepsText, QuietKeepsText
<1>2. book' = book => Left(book, book') /\ book'.added = book.added /\ Rehashed(book.rows, book'.rows)
  BY DEF Left, Rehashed
<1>3. ASSUME NEW pc \in Writing, NEW rows, job' = [job EXCEPT ![w] = [job[w] EXCEPT !.pc = pc, !.rows = rows]]
      PROVE  JobStep(w) /\ n.pc \in Writing
  <2>1. JobStep(w) /\ n = [j EXCEPT !.pc = pc, !.rows = rows]
    BY <1>0, <1>3 DEF JobStep
  <2>2. n.pc = pc
    BY <1>0, <2>1
  <2>. QED  BY <2>1, <2>2
<1>4. ASSUME NEW new, DOMAIN new \subseteq DOMAIN j.rows, \A k \in DOMAIN new : Hash(new[k]) = Hash(j.rows[k]),
             book' = UpsertChunks(book, new), j.pc \in Writing
      PROVE  Left(book, book') /\ book'.added = book.added /\ Rehashed(book.rows, book'.rows)
  <2>1. Keeps(book.rows, book'.rows, DOMAIN new) /\ DOMAIN book'.rows = DOMAIN book.rows
    BY <1>4, WriteBack
  <2>. QED  BY <1>0, <1>4, <2>1, TaskLeaves, WorkedText
<1>5. CASE Collect(w)
  <2>1. CASE Ends(w)
    BY <1>1, <1>2, <1>5, <2>1 DEF Collect
  <2>2. CASE ~Ends(w)
    <3>1. \E rows : job' = [job EXCEPT ![w] = [job[w] EXCEPT !.pc = "work", !.rows = rows]]
      BY <1>5, <2>2, Zenon DEF Collect
    <3>. QED  BY <1>1, <1>2, <1>3, <1>5, <3>1 DEF Collect, Writing
  <2>. QED  BY <2>1, <2>2
<1>6. CASE Answer(w)
  <2>0. j.pc = "work" /\ j.pc \in Writing
    BY <1>6 DEF Answer, Writing
  <2>1. PICK i \in DOMAIN j.rows :
          LET new == [k \in {i} |-> Worked(j.task, j.rows[i])] IN
          IF UpsertFails(book, new) THEN Ends(w) /\ UNCHANGED book
          ELSE /\ book' = UpsertChunks(book, new)
               /\ job' = [job EXCEPT ![w].rows = OnlyRows(@, DOMAIN @ \ {i})]
    BY <1>6 DEF Answer
  <2>. DEFINE new == [k \in {i} |-> Worked(j.task, j.rows[i])]
              rows == OnlyRows(j.rows, DOMAIN j.rows \ {i})
  <2>2. DOMAIN new \subseteq DOMAIN j.rows /\ \A k \in DOMAIN new : Hash(new[k]) = Hash(j.rows[k])
    <3>1. RowOK(book, j.rows[i])
      BY <1>0 DEF RowsOK
    <3>2. Hash(Worked(j.task, j.rows[i])) = Hash(j.rows[i])
      BY <3>1, WorkedHash
    <3>. QED  BY <3>2
  <2>3. CASE UpsertFails(book, new)
    BY <1>1, <1>2, <2>1, <2>3
  <2>4. CASE ~UpsertFails(book, new)
    <3>1. book' = UpsertChunks(book, new) /\ job' = [job EXCEPT ![w].rows = rows]
      BY <2>1, <2>4
    <3>. HIDE DEF new, rows
    <3>2. JobStep(w) /\ n = [j EXCEPT !.rows = rows]
      BY <1>0, <3>1 DEF JobStep
    <3>3. n.pc = "work"
      BY <1>0, <2>0, <3>2
    <3>. QED  BY <1>1, <1>4, <2>0, <2>2, <3>1, <3>2, <3>3 DEF Writing
  <2>. QED  BY <2>3, <2>4
<1>7. CASE WorkDone(w)
  <2>1. CASE Ends(w)
    BY <1>1, <1>2, <1>7, <2>1 DEF WorkDone
  <2>2. CASE ~Ends(w)
    <3>1. \E rows : job' = [job EXCEPT ![w] = [job[w] EXCEPT !.pc = "map", !.rows = rows]]
      BY <1>7, <2>2, Zenon DEF WorkDone
    <3>. QED  BY <1>1, <1>2, <1>3, <1>7, <3>1 DEF WorkDone, Writing
  <2>. QED  BY <2>1, <2>2
<1>8. CASE MapOccurrences(w)
  <2>. DEFINE new == [i \in DOMAIN j.rows |-> [j.rows[i] EXCEPT !.mapped = TRUE]]
  <2>0. j.pc \in Writing /\ Ends(w) /\ (book' = book \/ book' = UpsertChunks(book, new))
    BY <1>8 DEF MapOccurrences, Writing
  <2>1. DOMAIN new \subseteq DOMAIN j.rows /\ \A k \in DOMAIN new : Hash(new[k]) = Hash(j.rows[k])
    BY <1>0, WorkedHash DEF RowsOK
  <2>. HIDE DEF new
  <2>. QED  BY <1>1, <1>2, <1>4, <2>0, <2>1
<1>9. CASE OcrPage(w)
  <2>1. PICK p \in j.todo, t \in OcrTexts :
          /\ book' = UpdateSourceOcr(book, j.doc, p, t) /\ j.pc = "ocr"
          /\ job' = [job EXCEPT ![w].todo = j.todo \ {p}]
    BY <1>9 DEF OcrPage
  <2>. DEFINE d == j.doc
  <2>2. d \in book.docs /\ RowsOf(book.rows, d) = {} /\ book.type[d] # "text" /\ j.task.type = "ocr"
    BY <1>0, <2>1 DEF Prepares
  <2>3. /\ book'.docs = book.docs /\ book'.type = book.type /\ book'.added = book.added /\ book'.rows = book.rows
        /\ \A e \in book.docs \ {d} : book'.page[e] = book.page[e]
        /\ DOMAIN book'.page[d] = DOMAIN book.page[d]
        /\ \A q \in DOMAIN book.page[d] : \/ book'.page[d][q] = book.page[d][q]
                                          \/ book'.page[d][q].ready /\ book'.page[d][q].text \in OcrTexts
    BY <2>1, <2>2, PageLeaves DEF BookInv
  <2>4. JobStep(w) /\ n = [j EXCEPT !.todo = j.todo \ {p}]
    BY <1>0, <2>1 DEF JobStep
  <2>5. n.task = j.task /\ n.doc = j.doc /\ n.pc = "ocr"
    BY <1>0, <2>1, <2>4
  <2>6. Prepares(book', n)
    BY <2>2, <2>3, <2>5 DEF Prepares, Chunking
  <2>7. \A u \in Worker : job[u].pc \in {"text", "store"} => Min(job[u].todo) \in book.docs \ {d}
    BY <2>1, OcrApart, NextIsKnown DEF NextDocument
  <2>8. \A u \in Worker : job'[u] = job[u] \/ Prepares(book', job'[u])
    BY <1>0, <2>4, <2>6 DEF JobStep
  <2>. QED  BY <2>2, <2>3, <2>7, <2>8, PageReread DEF Rehashed
<1>10. CASE OcrDone(w) \/ Stops(w)
  BY <1>10, StopKeepsText DEF OcrDone, Stops
<1>. QED  BY <1>5, <1>6, <1>7, <1>8, <1>9, <1>10 DEF Operate

\* OCR is started on a scan without chunks.
LEMMA OcrIsOfScan ==
  ASSUME NEW d, NEW t \in Startable(d), t.type = "ocr"
  PROVE  book.type[d] # "text" /\ RowsOf(book.rows, d) = {}
<1>. DEFINE Called(ty) == \E ps, c, f : t = Task(ty, d, ps, c, f)
<1>0. ASSUME NEW ty, Called(ty) PROVE t.type = ty
  <2>1. PICK ps, c, f : t = Task(ty, d, ps, c, f)
    BY <1>0
  <2>. QED  BY <2>1, TaskFields
<1>1. CASE t \in OcrTasks(d)
  <2>1. \E ps : OcrAccepted(d, ps)
    BY <1>1 DEF OcrTasks
  <2>. QED  BY <2>1 DEF OcrAccepted, OcrRequired
<1>2. CASE t \in TranslationTasks(d)
  <2>1. Called("translation_manga") \/ Called("translation_text")
    BY <1>2, Zenon DEF TranslationTasks
  <2>. HIDE DEF Called
  <2>. QED  BY <1>0, <2>1
<1>3. CASE t \in RetranslationTasks(d)
  <2>1. Called("chunk_retranslation")
    BY <1>3, Zenon DEF RetranslationTasks
  <2>. HIDE DEF Called
  <2>. QED  BY <1>0, <2>1
<1>4. CASE t \in ExtractionTasks(d)
  <2>1. Called("glossary_extraction")
    BY <1>4, Zenon DEF ExtractionTasks
  <2>. HIDE DEF Called
  <2>. QED  BY <1>0, <2>1
<1>5. CASE t = ReviewTask
  BY <1>5 DEF ReviewTask, NoTask
<1>. QED  BY <1>1, <1>2, <1>3, <1>4, <1>5 DEF Startable

LEMMA StartKeepsText ==
  ASSUME BookInv, WritesInv, TextInv, NEW w \in Worker, Start(w)
  PROVE  TextInv'
<1>. DEFINE Pc(t) == CASE t.type = "ocr"             -> "ocr"
                       [] t.type = "glossary_review" -> "review"
                       [] OTHER                      -> "lock"
            Todo(t, d) == IF t.type # "ocr" THEN {}
                          ELSE IF t.sources = {} THEN PendingPages(book, d)
                          ELSE {p \in DOMAIN book.page[d] : Key(<<d, p>>) \in t.sources}
<1>0. PICK d \in book.docs : \E t \in Startable(d) :
        /\ job' = [job EXCEPT ![w] = [NoJob EXCEPT !.task = t, !.doc = d, !.pc = Pc(t), !.todo = Todo(t, d)]]
        /\ book' = book
  BY Zenon DEF Start
<1>a. PICK t \in Startable(d) :
        /\ job' = [job EXCEPT ![w] = [NoJob EXCEPT !.task = t, !.doc = d, !.pc = Pc(t), !.todo = Todo(t, d)]]
        /\ book' = book
  BY <1>0
<1>. DEFINE pc == Pc(t)
            todo == Todo(t, d)
            j == [NoJob EXCEPT !.task = t, !.doc = d, !.pc = pc, !.todo = todo]
<1>1. /\ job' = [job EXCEPT ![w] = j] /\ book' = book
      /\ IF t.type = "ocr" THEN pc = "ocr" ELSE pc \in {"lock", "review"}
  BY <1>a
<1>. HIDE DEF pc, todo, Pc, Todo
<1>2. j.task = t /\ j.doc = d /\ j.pc = pc
  BY DEF NoJob
<1>. HIDE DEF j
<1>3. JobStep(w) /\ job'[w] = j
  BY <1>1 DEF JobStep, BookInv
<1>4. Prepares(book, j)
  BY <1>1, <1>2, OcrIsOfScan DEF Prepares, Chunking
<1>. QED  BY <1>1, <1>3, <1>4, StillKeepsText

\* What a reset and a deletion leave
CutAway(b, d) == FromFirstRowOf(b, StackOf(b, d))

AfterReset(b, d, c) ==
  /\ Left(b, c) /\ c.added = b.added \ {b.rows[i].doc : i \in CutAway(b, d)}
  /\ c.rows = OnlyRows(b.rows, DOMAIN b.rows \ CutAway(b, d))

AfterDeletion(b, d, e) ==
  /\ e.docs = b.docs \ StackOf(b, d) /\ e.type = b.type /\ \A a \in e.docs : e.page[a] = b.page[a]
  /\ e.added = (b.added \ {b.rows[i].doc : i \in CutAway(b, d)}) \ StackOf(b, d)
  /\ e.rows = OnlyRows(b.rows, DOMAIN b.rows \ CutAway(b, d))

LEMMA StackLeaves ==
  ASSUME NEW b, StoreOK(b), NEW d
  PROVE  AfterReset(b, d, ResetDocumentStack(b, d)) /\ AfterDeletion(b, d, DeleteDocumentsStack(b, d))
<1>. DEFINE ids == FromFirstRowOf(b, StackOf(b, d))
            stack == StackOf(b, d)
            c == ResetDocumentStack(b, d)
            e == DeleteDocumentsStack(b, d)
            left == OnlyRows(b.rows, DOMAIN b.rows \ ids)
            added == b.added \ {b.rows[i].doc : i \in ids}
<1>1. c = [b EXCEPT !.rows = left, !.added = added, !.lang = FALSE]
  BY DEF ResetDocumentStack, ResetRows
<1>. HIDE DEF left, added
<1>2. Left(b, c) /\ c.added = added /\ c.rows = left /\ DOMAIN c = DOMAIN b
  BY <1>1 DEF StoreOK, BookShape, Left
<1>. DEFINE page == [k \in DOMAIN c.page |-> IF k \in stack THEN <<>> ELSE c.page[k]]
<1>3. e = [c EXCEPT !.docs = c.docs \ stack, !.added = c.added \ stack, !.page = page]
  BY DEF DeleteDocumentsStack
<1>4. \A k \in b.docs \ stack : page[k] = b.page[k]
  BY <1>2 DEF Left, StoreOK, PagesOK
<1>. HIDE DEF page, c, stack
<1>5. e.docs = c.docs \ stack /\ e.type = c.type /\ e.rows = c.rows /\ e.added = c.added \ stack /\ e.page = page
  BY <1>2, <1>3 DEF StoreOK, BookShape
<1>6. AfterReset(b, d, c)
  BY <1>2 DEF AfterReset, CutAway, left, added
<1>7. \A a \in e.docs : e.page[a] = b.page[a]
  BY <1>2, <1>4, <1>5 DEF Left
<1>8. AfterDeletion(b, d, e)
  BY <1>2, <1>5, <1>7 DEF AfterDeletion, CutAway, Left, left, added, stack
<1>. QED  BY <1>6, <1>8 DEF c

\* A book without tasks
LEMMA TextAtRest ==
  ASSUME \A u \in Worker : job'[u] = NoJob, book'.added \subseteq book'.docs, \A d \in book'.docs : DocOK(book', d)
  PROVE  TextInv'
BY IdlePrepares DEF TextInv

LEMMA EditKeepsText ==
  ASSUME BookInv, WritesInv, TextInv, ScanIsLast, NEW d \in book.docs, Edit(d)
  PROVE  TextInv'
<1>0. /\ StoreOK(book) /\ BookShape(book) /\ RowsSound(book.rows) /\ d \in 1..book.last /\ job' = job
      /\ DOMAIN book.rows \subseteq Nat
  BY DEF BookInv, StoreOK, BookShape, WritesInv, RowsSound, Numbered, Edit, SaveOcr, SaveTranslation, ResetStack, DeleteStack
<1>1. CASE SaveOcr(d)
  <2>1. PICK p \in DOMAIN book.page[d], t \in OcrTexts : book' = ResetDocumentStack(UpdateSourceOcr(book, d, p, t), d)
    BY <1>1 DEF SaveOcr
  <2>. DEFINE b == UpdateSourceOcr(book, d, p, t)
  <2>2. /\ b.docs = book.docs /\ b.type = book.type /\ b.added = book.added /\ b.rows = book.rows
        /\ \A e \in book.docs \ {d} : b.page[e] = book.page[e]
        /\ DOMAIN b.page[d] = DOMAIN book.page[d]
        /\ \A q \in DOMAIN book.page[d] : \/ b.page[d][q] = book.page[d][q]
                                          \/ b.page[d][q].ready /\ b.page[d][q].text \in OcrTexts
    BY <1>0, PageLeaves
  <2>3. StoreOK(b)
    BY <1>0, OcrKeepsStore
  <2>4. d = book.last /\ RowsOf(book.rows, d) = {} /\ book.type[d] # "text"
    BY <1>0, <1>1 DEF SaveOcr, ScanIsLast, OcrRequired
  <2>5. book' = ResetDocumentStack(b, d)
    BY <2>1
  <2>. HIDE DEF b
  <2>6. FromFirstRowOf(b, StackOf(b, d)) = {}
    <3>1. StackOf(b, d) \subseteq {d}
      BY <1>0, <2>2, <2>4 DEF StackOf, BookShape
    <3>. QED  BY <2>2, <2>4, <3>1 DEF FromFirstRowOf, RowsOf
  <2>7. /\ Left(b, book') /\ book'.added = book.added
        /\ DOMAIN book'.rows = DOMAIN book.rows /\ \A i \in DOMAIN book.rows : book'.rows[i] = book.rows[i]
    <3>1. /\ Left(b, book') /\ book'.added = b.added \ {b.rows[i].doc : i \in FromFirstRowOf(b, StackOf(b, d))}
          /\ book'.rows = OnlyRows(b.rows, DOMAIN b.rows \ FromFirstRowOf(b, StackOf(b, d)))
      BY <2>3, <2>5, StackLeaves DEF AfterReset, CutAway
    <3>. QED  BY <2>2, <2>6, <3>1 DEF OnlyRows
  <2>8. ASSUME NEW u \in Worker, job[u].pc \in {"text", "store"} PROVE NextDocument(u) # d
    <3>. SUFFICES ASSUME NextDocument(u) = d PROVE FALSE
      OBVIOUS
    <3>1. IsReview(u) \/ job[u].doc = d
      BY <2>4, <2>8, NextIsKnown DEF TextInv, Prepares, IsReview, Chunking
    <3>2. u \in Busy /\ JobNamed(book.rows, job[u])
      BY <2>8, IdleHolds DEF Busy, WritesInv, Holds, Chunking
    <3>3. Named(job[u].task, d)
      BY <3>1, <3>2 DEF JobNamed, Named, IsReview
    <3>4. SaveBusy(d)
      BY <3>2, <3>3, TasksHoldOff
    <3>5. OcrBusy(d)
      BY <3>4 DEF SaveBusy, OcrBusy, HasActiveClaims, Conflicts
    <3>. QED  BY <1>1, <3>5 DEF SaveOcr
  <2>9. \A u \in Worker : job[u].pc \in {"text", "store"} => Min(job[u].todo) \in book.docs \ {d}
    BY <2>8, NextIsKnown DEF NextDocument
  <2>10. Rehashed(book.rows, book'.rows)
    BY <2>7 DEF Rehashed
  <2>11. /\ book'.docs = book.docs /\ book'.type = book.type /\ \A e \in book.docs \ {d} : book'.page[e] = book.page[e]
         /\ DOMAIN book'.page[d] = DOMAIN book.page[d]
         /\ \A q \in DOMAIN book.page[d] : \/ book'.page[d][q] = book.page[d][q]
                                           \/ book'.page[d][q].ready /\ book'.page[d][q].text \in OcrTexts
    BY <2>2, <2>7 DEF Left
  <2>. QED  BY <1>0, <2>4, <2>7, <2>9, <2>10, <2>11, PageReread
<1>2. CASE SaveTranslation(d)
  <2>1. PICK i \in RowsOf(book.rows, d), t \in {"user", NotTranslated} :
           book' = UpsertChunks(book, [k \in {i} |-> [book.rows[i] EXCEPT !.translation = t]])
    BY <1>2 DEF SaveTranslation
  <2>. DEFINE new == [k \in {i} |-> [book.rows[i] EXCEPT !.translation = t]]
  <2>2. i \in DOMAIN book.rows /\ RowOK(book, book.rows[i])
    BY <1>0 DEF RowsOf, StoreOK, RowsOK
  <2>3. DOMAIN new = {i} /\ Hash(new[i]) = Hash(book.rows[i])
    BY <2>2 DEF RowOK, Hash
  <2>. HIDE DEF new
  <2>4. Keeps(book.rows, book'.rows, {i}) /\ DOMAIN book'.rows = DOMAIN book.rows
    BY <1>0, <2>1, <2>2, <2>3, UpdateKeepsRows DEF new
  <2>5. Left(book, book') /\ book'.added = book.added
    BY <1>0, <2>1, TaskLeaves
  <2>. QED  BY <1>0, <2>4, <2>5, WorkedText, TextKept DEF Left
<1>3. CASE ResetStack(d) \/ DeleteStack(d)
  <2>. DEFINE stack == StackOf(book, d)
              ids == FromFirstRowOf(book, stack)
  <2>1. \A u \in Worker : job'[u] = NoJob
    BY <1>0, <1>3, StackIsQuiet DEF ResetStack, DeleteStack
  <2>2. /\ book'.docs \subseteq book.docs /\ book'.type = book.type /\ \A a \in book'.docs : book'.page[a] = book.page[a]
        /\ book'.rows = OnlyRows(book.rows, DOMAIN book.rows \ ids)
        /\ book'.added \subseteq book.added \ {book.rows[i].doc : i \in ids}
        /\ book'.docs = book.docs \/ (book'.docs = book.docs \ stack /\ book'.added \cap stack = {})
    <3>1. CASE book' = ResetDocumentStack(book, d)
      <4>1. AfterReset(book, d, book')
        BY <1>0, <3>1, StackLeaves
      <4>. QED  BY <4>1 DEF AfterReset, CutAway, Left
    <3>2. CASE book' = DeleteDocumentsStack(book, d)
      <4>1. AfterDeletion(book, d, book')
        BY <1>0, <3>2, StackLeaves
      <4>. HIDE DEF ids
      <4>2. /\ book'.added \subseteq book.added \ {book.rows[i].doc : i \in ids} /\ book'.added \cap stack = {}
            /\ book'.rows = OnlyRows(book.rows, DOMAIN book.rows \ ids)
        BY <4>1 DEF AfterDeletion, CutAway, ids
      <4>. QED  BY <4>1, <4>2 DEF AfterDeletion
    <3>. QED  BY <1>3, <3>1, <3>2 DEF ResetStack, DeleteStack
  <2>. HIDE DEF stack
  <2>3. ASSUME NEW a \in book'.docs PROVE DocOK(book', a)
    <3>1. DocOK(book, a)
      BY <2>2 DEF TextInv
    <3>2. ASSUME a \in book'.added PROVE a \in book.added /\ RowsOf(book.rows, a) \cap ids = {}
      <4>1. a \in book.added /\ a \notin {book.rows[i].doc : i \in ids}
        BY <2>2, <3>2
      <4>. HIDE DEF ids
      <4>. QED  BY <4>1 DEF RowsOf
    <3>. QED  BY <1>0, <2>2, <3>1, <3>2, DocReset
  <2>4. book'.added \subseteq book'.docs
    BY <2>2 DEF TextInv
  <2>. QED  BY <2>1, <2>3, <2>4, TextAtRest
<1>. QED  BY <1>1, <1>2, <1>3 DEF Edit

\* An import brings a document without chunks, when no task is at work.
LEMMA ImportKeepsText ==
  ASSUME BookInv, WritesInv, TextInv, ImportDocuments
  PROVE  TextInv'
<1>. DEFINE n == book.last + 1
<1>0. StoreOK(book) /\ BookShape(book)
  BY DEF BookInv, StoreOK
<1>1. PICK ty : book' = InsertDocument(book, ty, ImportedPages(ty))
  BY DEF ImportDocuments
<1>. DEFINE pages == ImportedPages(ty)
            page == [book.page EXCEPT ![n] = pages]
            type == [book.type EXCEPT ![n] = ty]
<1>2. book' = [book EXCEPT !.docs = book.docs \cup {n}, !.last = n, !.type = type, !.page = page]
  BY <1>1 DEF InsertDocument
<1>3. n \in DocId /\ n \notin book.docs /\ n \notin 1..book.last /\ book.docs \subseteq DocId
  BY <1>0 DEF ImportDocuments, StoreOK, PagesOK, BookShape
<1>4. /\ type[n] = ty /\ page[n] = pages
      /\ \A e \in book.docs : type[e] = book.type[e] /\ page[e] = book.page[e]
  BY <1>0, <1>3 DEF StoreOK, PagesOK
<1>5. IsFiniteSet(DOMAIN pages) /\ (ty # "text" => \A p \in DOMAIN pages : ~pages[p].ready)
  <2>1. CASE ty = "text"
    BY <2>1, BookDocumentsAssumption DEF ImportedPages
  <2>2. CASE ty # "text"
    <3>1. pages = [p \in 1..Images |-> [text |-> NoText, ready |-> FALSE]]
      BY <2>2 DEF ImportedPages
    <3>. QED  BY <3>1, FS_Interval, BookDocumentsAssumption
  <2>. QED  BY <2>1, <2>2
<1>. HIDE DEF pages, page, type
<1>6. /\ book'.docs = book.docs \cup {n} /\ book'.type = type /\ book'.page = page
      /\ book'.rows = book.rows /\ book'.added = book.added
  BY <1>0, <1>2 DEF BookShape
<1>7. \A u \in Worker : job'[u] = NoJob
  BY StackIsQuiet DEF ImportDocuments
<1>8. ASSUME NEW e \in book.docs PROVE DocOK(book', e)
  <2>1. DocAsWas(book, book', e)
    BY <1>4, <1>6 DEF DocAsWas, SameTexts
  <2>. QED  BY <1>6, <2>1, DocKept DEF TextInv
<1>9. DocOK(book', n)
  <2>1. RowsOf(book'.rows, n) = {}
    BY <1>0, <1>3, <1>6 DEF StoreOK, RowsOK, RowOK, RowsOf
  <2>2. PagesRead(book', n)
    BY <1>4, <1>5, <1>6 DEF PagesRead
  <2>3. Len(DocumentText(book', n)) \in Nat
    BY <2>2, TextIsSequence
  <2>4. Beginning(book', n)
    BY <2>1, <2>3, NotCut DEF Beginning
  <2>5. n \notin book'.added
    BY <1>3, <1>6 DEF TextInv
  <2>. QED  BY <2>2, <2>4, <2>5 DEF DocOK
<1>. QED  BY <1>6, <1>7, <1>8, <1>9, TextAtRest DEF TextInv

-----------------------------------------------------------------------------
LEMMA TextInvariant ==
  ASSUME KeysDiffer PROVE BookSpec => [](BookInv /\ (ScanIsLast => WritesInv /\ TextInv))
<1>. DEFINE Inv == BookInv /\ (ScanIsLast => WritesInv)
            Text == ScanIsLast => TextInv
<1>1. BookInit => Text
  BY IdlePrepares DEF BookInit, EmptyBook, TextInv
<1>2. Inv /\ Text /\ [BookNext]_bookVars => Text'
  <2>. SUFFICES ASSUME Inv, Text, [BookNext]_bookVars, ScanIsLast' PROVE TextInv'
    OBVIOUS
  <2>1. CASE BookNext
    <3>0. ScanIsLast /\ WritesInv /\ TextInv /\ BookInv
      BY <2>1, ScansStay
    <3>1. CASE ImportDocuments
      BY <3>0, <3>1, ImportKeepsText
    <3>2. CASE Crash
      <4>1. book' = book /\ \A u \in Worker : job'[u] = NoJob
        BY <3>2 DEF Crash
      <4>2. book'.added \subseteq book'.docs /\ \A d \in book'.docs : DocOK(book', d)
        BY <3>0, <4>1 DEF TextInv
      <4>. QED  BY <4>1, <4>2, TextAtRest
    <3>3. ASSUME NEW d \in book.docs, Edit(d) PROVE TextInv'
      BY <3>0, <3>3, EditKeepsText
    <3>4. ASSUME NEW w \in Worker, Start(w) \/ Preflight(w) \/ Operate(w) \/ Stops(w) PROVE TextInv'
      BY <3>0, <3>4, StartKeepsText, ReadingKeepsText, StoreKeepsText, MarkKeepsText, OperateKeepsText DEF Preflight
    <3>. QED  BY <2>1, <3>1, <3>2, <3>3, <3>4 DEF BookNext
  <2>2. CASE UNCHANGED bookVars
    <3>1. book' = book /\ job' = job
      BY <2>2 DEF bookVars
    <3>2. TextInv
      BY <3>1 DEF ScanIsLast, OcrRequired
    <3>. QED  BY <3>1, <3>2 DEF TextInv
  <2>. QED  BY <2>1, <2>2
<1>3. BookSpec => []Inv
  BY BookInvariant
<1>4. Inv /\ Text => BookInv /\ (ScanIsLast => WritesInv /\ TextInv)
  OBVIOUS
<1>. QED  BY <1>1, <1>2, <1>3, <1>4, PTL DEF BookSpec

\* A document that is marked as added is cut into chunks, its text and nothing else,
\* each piece once and in its order, unless its scan was blank; in a book in which no
\* document follows a scan.  Two tasks, of which one prepares for the other, a crash
\* between the chunks and the mark, a cancellation, a reset of the documents before it
\* and a corrected page leave that so: the rows of a document that are stored are a
\* beginning of its text, and what a task has read of it is all the rest (TextInv).
THEOREM ChunksFollowTheText == ASSUME KeysDiffer PROVE BookSpec => []ChunksFollowText
<1>1. (ScanIsLast => WritesInv /\ TextInv) => ChunksFollowText
  BY DEF TextInv, DocOK, Blank, FoundBlank, OcrRequired, ChunksFollowText
<1>. QED  BY <1>1, TextInvariant, PTL
=============================================================================
