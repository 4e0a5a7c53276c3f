--------------------------- MODULE TranslationPlan --------------------------
(***************************************************************************)
(* How the work of a translation is cut into requests: the chunks of the   *)
(* documents into batches within a token budget, the terms of the glossary *)
(* into batches that keep similar names together, and the summaries of     *)
(* what came before into the share of a prompt (core/context_manager.py).  *)
(*                                                                         *)
(* The algorithms are the code's; a text is modelled by its token count,   *)
(* the similarity of two names by whether it reaches the threshold.        *)
(***************************************************************************)
EXTENDS Integers, Sequences, FiniteSets, FiniteSetsExt, SequencesExt

CONSTANTS
  ChunkInputs,   \* [chunks, budget, cap]: a chunk is [id, doc, size, memo]
  TermInputs,    \* [n, named, similar, limit]: the terms are 1..n
  SummaryInputs  \* [records, budget]: the sizes of summaries, oldest first

VARIABLES
  input, \* what is to be planned
  plan   \* the plan, or NoPlan

planVars == <<input, plan>>
NoPlan == <<"none">>

-----------------------------------------------------------------------------
(* Batches of chunks                                                       *)

\* _group_consecutive_batches
Joins(group, c, cap) ==
  /\ Last(group).doc = c.doc /\ Last(group).id + 1 = c.id /\ Len(group) < cap
ConsecutiveGroups(chunks, cap) ==
  FoldLeft(LAMBDA gs, c : IF gs # <<>> /\ Joins(Last(gs), c, cap)
                          THEN Append(Front(gs), Append(Last(gs), c)) ELSE Append(gs, <<c>>),
           <<>>, chunks)

\* The tokens of group[from + 1..to]: the texts, and the descriptions of their
\* terms as of the last chunk, which need not grow with the batch.
Tokens(group, from, to) ==
  FoldLeft(LAMBDA n, c : n + c.size, 0, SubSeq(group, from + 1, to)) + group[to].memo
Fits(group, from, to, budget) == to <= from + 1 \/ Tokens(group, from, to) <= budget

\* _find_best_end: the last end that fits, by doubling, then bisection, then a
\* few more one by one
BestEnd(group, from, budget) ==
  LET n == Len(group)
      fits(to) == Fits(group, from, to, budget)
      Reach(k) == Min({n, from + 1 + 2 ^ k})
      misses == {k \in 0..n : ~fits(Reach(k))}
      Bisect[lo \in 0..n + 1, hi \in 0..n, best \in 0..n] ==
        LET mid == (lo + hi) \div 2
        IN IF lo > hi THEN best
           ELSE IF fits(mid) THEN Bisect[mid + 1, hi, mid] ELSE Bisect[lo, mid - 1, best]
      Extend[best \in 0..n] ==
        IF best < n /\ fits(best + 1) THEN Extend[best + 1] ELSE best
  IN IF misses = {} THEN n
     ELSE LET k    == Min(misses)
              best == IF k = 0 THEN from + 1 ELSE Reach(k - 1)
          IN Extend[Bisect[best + 1, Reach(k), best]]
CutGroup(group, budget) ==
  LET Cut[from \in 0..Len(group)] ==
        IF from = Len(group) THEN <<>>
        ELSE LET to == BestEnd(group, from, budget)
             IN <<SubSeq(group, from + 1, to)>> \o Cut[to]
  IN Cut[0]

\* _group_batches_by_token_budget
MaxOfGroup(q) == IF q.cap > 0 THEN q.cap ELSE Len(q.chunks)
ChunkBatches(q) ==
  FoldLeft(LAMBDA bs, g : bs \o CutGroup(g, q.budget), <<>>, ConsecutiveGroups(q.chunks, MaxOfGroup(q)))

-----------------------------------------------------------------------------
(* Batches of terms                                                        *)

Pending(q) == (1..q.n) \ q.named
Alike(q, x, y) == {x, y} \in q.similar

\* _union_find_with_filter: pending terms are compared with one another; a term
\* that has a name joins the first pending one that it is like.
FirstLike(q, t) == Min({p \in Pending(q) : Alike(q, p, t)})
Pulled(q) == {t \in q.named : \E p \in Pending(q) : Alike(q, p, t)}
Edge(q, x, y) ==
  \/ {x, y} \subseteq Pending(q) /\ Alike(q, x, y)
  \/ x \in Pulled(q) /\ y = FirstLike(q, x)
  \/ y \in Pulled(q) /\ x = FirstLike(q, y)
Component(q, t) ==
  LET Reach[k \in 0..q.n] ==
        IF k = 0 THEN {t}
        ELSE Reach[k - 1] \cup {y \in 1..q.n : \E x \in Reach[k - 1] : Edge(q, x, y)}
  IN Reach[q.n]
Components(q) == {Component(q, t) : t \in Pending(q)}

\* _bin_pack_small_components, _bin_pack_components: first fit, largest first
ByUntranslated(q, comps) ==
  SetToSortSeq(comps, LAMBDA a, b :
    LET na == Cardinality(a \cap Pending(q))
        nb == Cardinality(b \cap Pending(q))
    IN na > nb \/ (na = nb /\ Min(a) < Min(b)))
\* (mutant of HasRoom: what is in the bin is not counted)
RoomForItself(q, bin, comp) == Cardinality(comp \cap Pending(q)) <= q.limit
HasRoom(q, bin, comp) == Cardinality((bin \cup comp) \cap Pending(q)) <= q.limit
FirstFit(q, bins, comp) ==
  LET room == {i \in DOMAIN bins : HasRoom(q, bins[i], comp)}
  IN IF room = {} THEN Append(bins, comp) ELSE [bins EXCEPT ![Min(room)] = @ \cup comp]
Bins(q, comps) == FoldLeft(LAMBDA bs, c : FirstFit(q, bs, c), <<>>, ByUntranslated(q, comps))

\* _greedy_nearest_neighbor_split: from a seed on, the nearest of what remains
Nearest(q, batch, rest) ==
  LET near == {t \in rest : \E m \in batch : Alike(q, t, m)}
  IN IF near # {} THEN Min(near) ELSE Min(rest)
Split(q, comp) ==
  LET pool == comp \cap Pending(q)
      Grow[b \in SUBSET pool, rest \in SUBSET pool] ==
        IF Cardinality(b) >= q.limit \/ rest = {} THEN b
        ELSE LET t == Nearest(q, b, rest) IN Grow[b \cup {t}, rest \ {t}]
      Batches[rest \in SUBSET pool] ==
        IF rest = {} THEN <<>>
        ELSE LET b == Grow[{Min(rest)}, rest \ {Min(rest)}] IN <<b>> \o Batches[rest \ b]
  IN Batches[pool]

IsSmall(q, comp) == Cardinality(comp \cap Pending(q)) <= q.limit
TermBatches(q) ==
  LET large == {c \in Components(q) : ~IsSmall(q, c)}
  IN Bins(q, Components(q) \ large)
       \o FoldLeft(LAMBDA bs, c : bs \o Split(q, c), <<>>, ByUntranslated(q, large))

-----------------------------------------------------------------------------
(* Summaries of the chunks before                                          *)

\* _format_local_chunk_summaries_for_prompt: from the newest back, passing over
\* one that is too long on its own, until one does not fit any more
ChosenSummaries(q) ==
  LET n == Len(q.records)
      Back[i \in 0..n, used \in 0..q.budget] ==
        IF i = 0 THEN {}
        ELSE IF q.records[i] > q.budget THEN Back[i - 1, used]
        ELSE IF used + q.records[i] > q.budget THEN {}
        ELSE {i} \cup Back[i - 1, used + q.records[i]]
  IN Back[n, 0]

-----------------------------------------------------------------------------
PlanInit ==
  /\ plan = NoPlan
  /\ \/ \E q \in ChunkInputs : input = <<"chunks", q>>
     \/ \E q \in TermInputs : input = <<"terms", q>>
     \/ \E q \in SummaryInputs : input = <<"summaries", q>>

PlanChunks ==
  /\ input[1] = "chunks" /\ plan = NoPlan
  /\ plan' = <<"chunks", ChunkBatches(input[2])>> /\ UNCHANGED input
PlanTerms ==
  /\ input[1] = "terms" /\ plan = NoPlan
  /\ plan' = <<"terms", TermBatches(input[2])>> /\ UNCHANGED input
PlanSummaries ==
  /\ input[1] = "summaries" /\ plan = NoPlan
  /\ plan' = <<"summaries", ChosenSummaries(input[2])>> /\ UNCHANGED input

PlanNext == PlanChunks \/ PlanTerms \/ PlanSummaries

-----------------------------------------------------------------------------
\* The batches are the chunks, each once and in order; each is a run of
\* consecutive chunks of one document within the cap, and within the budget
\* unless it is a single chunk.
IsRun(batch) ==
  \A i \in 1..Len(batch) - 1 : batch[i + 1].id = batch[i].id + 1 /\ batch[i + 1].doc = batch[i].doc
ChunkBatchesAreCut(q, batches) ==
  /\ FlattenSeq(batches) = q.chunks
  /\ \A i \in DOMAIN batches :
       /\ batches[i] # <<>> /\ IsRun(batches[i])
       /\ q.cap > 0 => Len(batches[i]) <= q.cap
       /\ Len(batches[i]) = 1 \/ Tokens(batches[i], 0, Len(batches[i])) <= q.budget

\* Where descriptions cost the same everywhere, a batch ends before the end of
\* its group only where the next chunk would not fit: the search by doubling
\* finds what one by one would.
SameMemo(q) == \A i, j \in DOMAIN q.chunks : q.chunks[i].memo = q.chunks[j].memo
ChunkBatchesAreFull(q, batches) ==
  SameMemo(q) =>
    \A i \in 1..Len(batches) - 1 :
      LET more == Append(batches[i], Head(batches[i + 1]))
      IN \/ \E g \in Range(ConsecutiveGroups(q.chunks, MaxOfGroup(q))) : Last(g) = Last(batches[i])
         \/ Tokens(more, 0, Len(more)) > q.budget

\* Every pending term is asked for once, in batches within the limit, and terms
\* that hang together are asked for together where they can be.
TermsAreAskedOnce(q, batches) ==
  /\ UNION {batches[i] \cap Pending(q) : i \in DOMAIN batches} = Pending(q)
  /\ \A i, j \in DOMAIN batches : i # j => batches[i] \cap batches[j] \cap Pending(q) = {}
  /\ \A i \in DOMAIN batches : Cardinality(batches[i] \cap Pending(q)) \in 1..q.limit
  /\ \A x \in Pending(q) :
       IsSmall(q, Component(q, x)) => \E i \in DOMAIN batches : Component(q, x) \subseteq batches[i]

\* The summaries fit the budget, and the ones chosen are the newest that could
\* be: one left out is older than all of them, too long, or did not fit.
SummariesAreNewest(q, chosen) ==
  LET sum(is) == SumFunctionOnSet(q.records, is)
  IN /\ sum(chosen) <= q.budget
     /\ \A i \in DOMAIN q.records \ chosen :
          \/ q.records[i] > q.budget
          \/ \E j \in DOMAIN q.records : j >= i /\ sum({k \in chosen : k > j} \cup {j}) > q.budget

\* The three plans are what the requests need.
PlansAreSound ==
  /\ plan[1] = "chunks" => ChunkBatchesAreCut(input[2], plan[2]) /\ ChunkBatchesAreFull(input[2], plan[2])
  /\ plan[1] = "terms" => TermsAreAskedOnce(input[2], plan[2])
  /\ plan[1] = "summaries" => SummariesAreNewest(input[2], plan[2])

(* What the code says of the components                                    *)

=============================================================================
