----------------------------- MODULE CallsProofs -----------------------------
(***************************************************************************)
(* The calls of any number of runs with any jobs at one endpoint.          *)
(*                                                                         *)
(* OvershootIsBounded is not inductive: what is used counts when it comes, *)
(* and was allowed when it was asked.  ChargeInv counts the answers under  *)
(* way as if each had come at its full cost; their number is bounded by    *)
(* the semaphores (SemaphoreInv), because every job that has started is of *)
(* the phase its run is in.                                                *)
(***************************************************************************)
EXTENDS ChunkTranslation, Functions, FiniteSetTheorems, TLAPS

RunRow == [doc : Nat, phase : {"briefs", "batches", "none"}, cancelled : BOOLEAN,
           result : {"running", "done", "failed", "cancelled"}]
JobRow == [pc : {"idle", "ready", "asking", "backoff", "done", "failed", "cancelled"},
           stage : {"brief", "page", "translate", "polish"}, attempt : Nat, asked : Nat, tries : Nat]

CallsTyped ==
  /\ run \in [Runs -> RunRow] /\ \A r \in Runs : run[r].doc \in DOMAIN Work[r]
  /\ job \in [Jobs -> JobRow] /\ used \in Nat
  /\ translated \subseteq Batches /\ briefed \subseteq Briefs

Busy(r) == {k \in Current(r) : Started(k)}
InFlight == {j \in Jobs : job[j].pc \in {"asking", "backoff"}}

SemaphoreInv ==
  /\ \A j \in Jobs : Started(j) => \E r \in Runs : j \in Current(r)
  /\ \A r \in Runs : IsFiniteSet(Busy(r)) /\ Cardinality(Busy(r)) <= Concurrency

AllCalls == Cardinality(Runs) * Concurrency
ChargeInv == used + Cardinality(InFlight) * Cost <= (Limit - 1) + AllCalls * Cost

StoredIsOver == \A j \in Jobs : Started(j) => j \notin translated \cup briefed

CallsInv == CallsTyped /\ SemaphoreInv /\ ChargeInv /\ StoredIsOver

-----------------------------------------------------------------------------
(* Counting                                                                *)

\* The union of sets of at most n elements has at most n for each of them.
LEMMA UnionBound ==
  ASSUME NEW R, IsFiniteSet(R), NEW n \in Nat, NEW S,
         \A r \in R : IsFiniteSet(S[r]) /\ Cardinality(S[r]) <= n
  PROVE  /\ IsFiniteSet(UNION {S[r] : r \in R})
         /\ Cardinality(UNION {S[r] : r \in R}) <= Cardinality(R) * n
<1>. DEFINE U == UNION {S[r] : r \in R}
            All == R \X (1..n)
            Numbered(r) == Bijection(1..Cardinality(S[r]), S[r])
            numbering == [r \in R |-> CHOOSE f \in Numbered(r) : TRUE]
            Used == {p \in All : p[2] \in 1..Cardinality(S[p[1]])}
            at == [p \in Used |-> numbering[p[1]][p[2]]]
<1>1. /\ IsFiniteSet(All) /\ Cardinality(All) = Cardinality(R) * n
      /\ IsFiniteSet(Used) /\ Cardinality(Used) <= Cardinality(All)
  <2>1. IsFiniteSet(1..n) /\ Cardinality(1..n) = n
    BY FS_Interval
  <2>2. IsFiniteSet(All) /\ Cardinality(All) = Cardinality(R) * n
    BY <2>1, FS_Product
  <2>3. Used \in SUBSET All
    OBVIOUS
  <2>. QED  BY <2>2, <2>3, FS_Subset
<1>2. ASSUME NEW r \in R PROVE Cardinality(S[r]) \in Nat /\ numbering[r] \in Numbered(r)
  <2>1. Cardinality(S[r]) \in Nat /\ Numbered(r) # {}
    BY FS_CardinalityType DEF ExistsBijection
  <2>. QED  BY <2>1
<1>3. ASSUME NEW p \in Used PROVE at[p] \in U
  <2>1. p[1] \in R /\ p[2] \in 1..Cardinality(S[p[1]]) /\ at[p] = numbering[p[1]][p[2]]
    OBVIOUS
  <2>2. numbering[p[1]] \in [1..Cardinality(S[p[1]]) -> S[p[1]]]
    BY <1>2, <2>1 DEF Bijection, Injection
  <2>3. at[p] \in S[p[1]]
    BY <2>1, <2>2
  <2>. QED  BY <2>1, <2>3
<1>4. ASSUME NEW u \in U PROVE \E p \in Used : at[p] = u
  <2>1. PICK r \in R : u \in S[r]
    OBVIOUS
  <2>2. PICK i \in 1..Cardinality(S[r]) : numbering[r][i] = u
    BY <1>2, <2>1 DEF Bijection, Surjection
  <2>3. i \in 1..n
    <3>1. Cardinality(S[r]) \in Nat /\ Cardinality(S[r]) <= n
      BY <1>2
    <3>. QED  BY <3>1
  <2>4. <<r, i>> \in Used /\ at[<<r, i>>] = u
    BY <2>1, <2>2, <2>3
  <2>. QED  BY <2>4
<1>5. at \in Surjection(Used, U)
  <2>1. at \in [Used -> U]
    BY <1>3
  <2>. QED  BY <1>4, <2>1 DEF Surjection
<1>6. IsFiniteSet(U) /\ Cardinality(U) <= Cardinality(Used)
  BY <1>1, <1>5, FS_Surjection
<1>7. Cardinality(U) \in Nat /\ Cardinality(Used) \in Nat /\ Cardinality(All) \in Nat
  BY <1>1, <1>6, FS_CardinalityType
<1>. HIDE DEF U, All, Used, at
<1>8. Cardinality(U) <= Cardinality(R) * n
  BY <1>1, <1>6, <1>7
<1>. QED  BY <1>6, <1>8 DEF U

LEMMA CostsMore ==
  ASSUME NEW a \in Nat, NEW b \in Nat, NEW c \in Nat, a <= b
  PROVE  a * c \in Nat /\ b * c \in Nat /\ a * c <= b * c
OBVIOUS

\* The bounds are numbers.
LEMMA BoundsTyped ==
  /\ Limit \in Nat \ {0} /\ Cost \in Nat \ {0} /\ Concurrency \in Nat \ {0}
  /\ Attempts \in Nat \ {0} /\ Tries \in Nat \ {0} /\ Corrections \in Nat
  /\ Cardinality(Runs) \in Nat /\ AllCalls \in Nat /\ AllCalls * Cost \in Nat
<1>1. Cardinality(Runs) \in Nat
  BY CallsAssumption, FS_CardinalityType
<1>2. /\ Limit \in Nat \ {0} /\ Cost \in Nat \ {0} /\ Concurrency \in Nat \ {0}
      /\ Attempts \in Nat \ {0} /\ Tries \in Nat \ {0} /\ Corrections \in Nat
  BY CallsAssumption
<1>3. AllCalls \in Nat
  BY <1>1, <1>2 DEF AllCalls
<1>. QED  BY <1>1, <1>2, <1>3

\* A set whose elements are all behind some run's semaphore
LEMMA FewOf ==
  ASSUME NEW B, \A r \in Runs : IsFiniteSet(B[r]) /\ Cardinality(B[r]) <= Concurrency,
         NEW T, \A x \in T : \E r \in Runs : x \in B[r]
  PROVE  IsFiniteSet(T) /\ Cardinality(T) \in Nat /\ Cardinality(T) <= AllCalls
<1>. DEFINE U == UNION {B[r] : r \in Runs}
<1>1. IsFiniteSet(U) /\ Cardinality(U) <= AllCalls
  BY CallsAssumption, BoundsTyped, UnionBound DEF AllCalls
<1>2. T \in SUBSET U
  OBVIOUS
<1>. HIDE DEF U
<1>3. IsFiniteSet(T) /\ Cardinality(T) <= Cardinality(U)
  BY <1>1, <1>2, FS_Subset
<1>4. Cardinality(U) \in Nat /\ Cardinality(T) \in Nat
  BY <1>1, <1>3, FS_CardinalityType
<1>. QED  BY <1>1, <1>3, <1>4, BoundsTyped

\* No more requests are under way than the semaphores let through.
LEMMA FewAreInFlight ==
  ASSUME CallsTyped, SemaphoreInv
  PROVE  IsFiniteSet(InFlight) /\ Cardinality(InFlight) \in Nat /\ Cardinality(InFlight) <= AllCalls
<1>. DEFINE B == [r \in Runs |-> Busy(r)]
<1>1. \A r \in Runs : IsFiniteSet(B[r]) /\ Cardinality(B[r]) <= Concurrency
  BY DEF SemaphoreInv
<1>2. \A j \in InFlight : \E r \in Runs : j \in B[r]
  BY DEF InFlight, SemaphoreInv, Busy, Started
<1>. HIDE DEF B
<1>. QED  BY <1>1, <1>2, FewOf

-----------------------------------------------------------------------------
(* What is current                                                         *)

\* The jobs of a run are of its document; they are nobody else's.
LEMMA CurrentIsOfRun ==
  ASSUME CallsTyped, NEW r \in Runs
  PROVE  /\ Current(r) \subseteq JobsOf(r) /\ Current(r) \subseteq Jobs
         /\ Document(r).briefs \subseteq Briefs /\ Document(r).batches \subseteq Batches
         /\ \A q \in Runs : q # r => Current(r) \cap JobsOf(q) = {}
<1>1. Document(r) \in Documents /\ run[r].doc \in DOMAIN Work[r]
  BY DEF Document, Documents, CallsTyped
<1>2. Current(r) \subseteq JobsOf(r)
  BY <1>1 DEF Current, JobsOf, Document
<1>3. Document(r).briefs \subseteq Briefs /\ Document(r).batches \subseteq Batches
  BY <1>1 DEF Briefs, Batches
<1>. QED  BY <1>2, <1>3, CallsAssumption DEF Current, Jobs

LEMMA CallsInitInv == CallsInit => CallsInv
<1>. SUFFICES ASSUME CallsInit PROVE CallsInv
  OBVIOUS
<1>1. CallsTyped
  <2>1. \A r \in Runs : 1 \in DOMAIN Work[r]
    BY CallsAssumption
  <2>2. \A j \in Jobs : NewJob(j) \in JobRow
    BY DEF NewJob, JobRow, FirstStage
  <2>. QED  BY <2>1, <2>2 DEF CallsInit, CallsTyped, RunRow
<1>2. \A j \in Jobs : job[j].pc = "idle" /\ ~Started(j)
  BY DEF CallsInit, NewJob, Started
<1>3. SemaphoreInv
  <2>1. \A r \in Runs : Busy(r) = {}
    BY <1>1, <1>2, CurrentIsOfRun DEF Busy
  <2>. QED  BY <1>2, <2>1, FS_EmptySet, BoundsTyped DEF SemaphoreInv
<1>4. ChargeInv
  <2>1. InFlight = {} /\ used = 0
    BY <1>2 DEF InFlight, CallsInit
  <2>. QED  BY <2>1, FS_EmptySet, BoundsTyped DEF ChargeInv
<1>. QED  BY <1>1, <1>2, <1>3, <1>4 DEF CallsInv, StoredIsOver

-----------------------------------------------------------------------------
(* The steps                                                               *)

\* What a step of a job that has started may do: nobody else's row, nothing stored
\* while it goes on, and tokens only with the end of its request; a request goes
\* out under the limit or is one that has been out.
Moved(j) ==
  /\ Started(j) /\ run' = run /\ job' \in [Jobs -> JobRow]
  /\ \A k \in Jobs \ {j} : job'[k] = job[k]
  /\ translated \subseteq translated' /\ translated' \subseteq translated \cup ({j} \cap Batches)
  /\ briefed \subseteq briefed' /\ briefed' \subseteq briefed \cup ({j} \cap Briefs)
  /\ job'[j].pc \in {"ready", "asking", "backoff"} => translated' = translated /\ briefed' = briefed
  /\ \/ /\ used' = used
        /\ \/ used < Limit
           \/ job'[j].pc \in {"asking", "backoff"} => job[j].pc \in {"asking", "backoff"}
     \/ /\ \E cost \in 1..Cost : used' = used + cost
        /\ job[j].pc = "asking" /\ job'[j].pc \notin {"asking", "backoff"}

LEMMA RowsTyped ==
  ASSUME CallsTyped, NEW j \in Jobs
  PROVE  /\ job[j] \in JobRow /\ Again(j) \in JobRow /\ Again(j).pc \in {"ready", "failed"}
         /\ \A pc \in {"ready", "done", "cancelled", "failed"} : At(j, pc) \in JobRow /\ At(j, pc).pc = pc
<1>1. job[j] \in JobRow
  BY DEF CallsTyped
<1>2. \A pc \in {"ready", "done", "cancelled", "failed"} : At(j, pc) \in JobRow /\ At(j, pc).pc = pc
  BY DEF At, NewJob, FirstStage, JobRow
<1>3. Again(j) \in JobRow /\ Again(j).pc \in {"ready", "failed"}
  BY <1>1, <1>2 DEF Again, JobRow
<1>. QED  BY <1>1, <1>2, <1>3

LEMMA JobsMove ==
  ASSUME CallsInv, NEW j \in Jobs,
         Ask(j) \/ Unreachable(j) \/ Retry(j) \/ Unusable(j) \/ Valid(j) \/ Malformed(j)
  PROVE  Moved(j)
<1>0. /\ CallsTyped /\ job \in [Jobs -> JobRow] /\ used \in Nat /\ job[j] \in JobRow
      /\ job[j].attempt \in Nat /\ job[j].asked \in Nat /\ job[j].tries \in Nat
      /\ Limit \in Nat /\ Cost \in Nat
  BY BoundsTyped DEF CallsInv, CallsTyped, JobRow
<1>typed. /\ Again(j) \in JobRow /\ Again(j).pc \in {"ready", "failed"}
          /\ \A pc \in {"ready", "done", "cancelled", "failed"} : At(j, pc) \in JobRow /\ At(j, pc).pc = pc
  BY <1>0, RowsTyped
<1>set. ASSUME NEW row \in JobRow, job' = [job EXCEPT ![j] = row]
        PROVE  job' \in [Jobs -> JobRow] /\ job'[j] = row /\ \A k \in Jobs \ {j} : job'[k] = job[k]
  BY <1>0, <1>set
<1>asking. ASSUME NEW n \in Nat
           PROVE  [job[j] EXCEPT !.pc = "asking", !.tries = n] \in JobRow
  BY <1>0 DEF JobRow
<1>backoff. [job[j] EXCEPT !.pc = "backoff"] \in JobRow
  BY <1>0 DEF JobRow
<1>again. ASSUME NEW n \in Nat
          PROVE  [job[j] EXCEPT !.pc = "ready", !.asked = n, !.tries = 0] \in JobRow
  BY <1>0 DEF JobRow
<1>1. CASE Ask(j)
  <2>1. PICK row : /\ job' = [job EXCEPT ![j] = row]
                   /\ \/ row = At(j, "cancelled") \/ row = Again(j)
                      \/ ~LimitReached /\ row = [job[j] EXCEPT !.pc = "asking", !.tries = 1]
    BY <1>1 DEF Ask
  <2>2. row \in JobRow /\ (row.pc \in {"asking", "backoff"} => used < Limit)
    <3>1. CASE row = At(j, "cancelled") \/ row = Again(j)
      BY <1>typed, <3>1
    <3>2. CASE ~LimitReached /\ row = [job[j] EXCEPT !.pc = "asking", !.tries = 1]
      <4>1. row \in JobRow
        BY <1>asking, <3>2
      <4>2. used < Limit
        BY <1>0, <3>2 DEF LimitReached
      <4>. QED  BY <4>1, <4>2
    <3>. QED  BY <2>1, <3>1, <3>2
  <2>3. job[j].pc = "ready" /\ UNCHANGED <<run, translated, briefed, used>>
    BY <1>1 DEF Ask
  <2>. QED  BY <1>set, <2>1, <2>2, <2>3 DEF Moved, Started
<1>2. CASE Unreachable(j) \/ Retry(j) \/ Unusable(j)
  <2>1. PICK row : /\ job' = [job EXCEPT ![j] = row]
                   /\ \/ row = At(j, "cancelled") \/ row = Again(j)
                      \/ row = [job[j] EXCEPT !.pc = "backoff"]
                      \/ row = [job[j] EXCEPT !.pc = "asking", !.tries = job[j].tries + 1]
    <3>1. CASE Unreachable(j)
      BY <3>1 DEF Unreachable
    <3>2. CASE Retry(j)
      <4>1. CASE Cancelled(j)
        BY <3>2, <4>1 DEF Retry
      <4>2. CASE ~Cancelled(j)
        BY <3>2, <4>2 DEF Retry
      <4>. QED  BY <4>1, <4>2
    <3>3. CASE Unusable(j)
      BY <3>3 DEF Unusable
    <3>. QED  BY <1>2, <3>1, <3>2, <3>3
  <2>2. row \in JobRow
    <3>1. job[j].tries + 1 \in Nat
      BY <1>0
    <3>. QED  BY <1>typed, <1>asking, <1>backoff, <2>1, <3>1
  <2>3. job[j].pc \in {"asking", "backoff"} /\ UNCHANGED <<run, translated, briefed, used>>
    BY <1>2 DEF Unreachable, Retry, Unusable
  <2>. QED  BY <1>set, <2>1, <2>2, <2>3 DEF Moved, Started
<1>persist. ASSUME Persist(j)
            PROVE  /\ job' \in [Jobs -> JobRow] /\ \A k \in Jobs \ {j} : job'[k] = job[k]
                   /\ job'[j].pc \in {"done", "cancelled"}
                   /\ translated \subseteq translated' /\ translated' \subseteq translated \cup ({j} \cap Batches)
                   /\ briefed \subseteq briefed' /\ briefed' \subseteq briefed \cup ({j} \cap Briefs)
  <2>1. PICK row : job' = [job EXCEPT ![j] = row] /\ (row = At(j, "cancelled") \/ row = At(j, "done"))
    BY <1>persist DEF Persist, To
  <2>2. row \in JobRow /\ row.pc \in {"done", "cancelled"}
    BY <1>typed, <2>1
  <2>. QED  BY <1>persist, <1>set, <2>1, <2>2 DEF Persist
<1>3. CASE Valid(j)
  <2>1. job[j].pc = "asking" /\ run' = run /\ \E cost \in 1..Cost : used' = used + cost
    BY <1>3 DEF Valid, Record
  <2>2. CASE Persist(j)
    BY <1>persist, <2>1, <2>2 DEF Moved, Started
  <2>3. CASE ~Persist(j)
    <3>1. /\ job' = [job EXCEPT ![j].pc = "ready", ![j].stage = "polish", ![j].asked = 1, ![j].tries = 0]
          /\ UNCHANGED <<translated, briefed>>
      BY <1>3, <2>3 DEF Valid
    <3>2. PICK row : row = [job[j] EXCEPT !.pc = "ready", !.stage = "polish", !.asked = 1, !.tries = 0]
      OBVIOUS
    <3>3. job' = [job EXCEPT ![j] = row] /\ row \in JobRow /\ row.pc = "ready"
      BY <1>0, <3>1, <3>2 DEF JobRow
    <3>. QED  BY <1>set, <2>1, <3>1, <3>3 DEF Moved, Started
  <2>. QED  BY <2>2, <2>3
<1>4. CASE Malformed(j)
  <2>1. job[j].pc = "asking" /\ run' = run /\ \E cost \in 1..Cost : used' = used + cost
    BY <1>4 DEF Malformed, Record
  <2>2. CASE Persist(j)
    BY <1>persist, <2>1, <2>2 DEF Moved, Started
  <2>3. CASE ~Persist(j)
    <3>1. UNCHANGED <<translated, briefed>>
      BY <1>4, <2>3 DEF Malformed
    <3>2. PICK row : /\ job' = [job EXCEPT ![j] = row]
                     /\ \/ row = Again(j)
                        \/ row = [job[j] EXCEPT !.pc = "ready", !.asked = job[j].asked + 1, !.tries = 0]
      <4>1. \/ job' = [job EXCEPT ![j] = Again(j)]
            \/ job' = [job EXCEPT ![j].pc = "ready", ![j].asked = @ + 1, ![j].tries = 0]
        BY <1>4, <2>3 DEF Malformed
      <4>2. CASE job' = [job EXCEPT ![j].pc = "ready", ![j].asked = @ + 1, ![j].tries = 0]
        <5>1. job' = [job EXCEPT ![j] = [job[j] EXCEPT !.pc = "ready", !.asked = job[j].asked + 1, !.tries = 0]]
          BY <1>0, <4>2 DEF JobRow
        <5>. QED  BY <5>1
      <4>. QED  BY <4>1, <4>2
    <3>3. row \in JobRow /\ row.pc \in {"ready", "failed"}
      <4>1. CASE row = Again(j)
        BY <1>typed, <4>1
      <4>2. CASE row = [job[j] EXCEPT !.pc = "ready", !.asked = job[j].asked + 1, !.tries = 0]
        <5>1. job[j].asked + 1 \in Nat
          BY <1>0
        <5>2. row \in JobRow
          BY <1>again, <4>2, <5>1
        <5>3. row.pc = "ready"
          BY <1>0, <4>2 DEF JobRow
        <5>. QED  BY <5>2, <5>3
      <4>. QED  BY <3>2, <4>1, <4>2
    <3>. QED  BY <1>set, <2>1, <3>1, <3>2, <3>3 DEF Moved, Started
  <2>. QED  BY <2>2, <2>3
<1>. QED  BY <1>1, <1>2, <1>3, <1>4

\* A smaller set of a finite one
LEMMA Fewer ==
  ASSUME NEW S, NEW T \in SUBSET S, IsFiniteSet(S)
  PROVE  /\ IsFiniteSet(T) /\ Cardinality(T) \in Nat /\ Cardinality(S) \in Nat
         /\ Cardinality(T) <= Cardinality(S)
BY FS_Subset, FS_CardinalityType

\* The semaphores, the charge and the stores under such a step
LEMMA MoveKeeps ==
  ASSUME CallsInv, NEW j \in Jobs, Moved(j)
  PROVE  CallsInv'
<1>0. /\ CallsTyped /\ SemaphoreInv /\ ChargeInv /\ StoredIsOver
      /\ Limit \in Nat /\ Cost \in Nat /\ AllCalls \in Nat /\ AllCalls * Cost \in Nat /\ used \in Nat
      /\ Briefs \cap Batches = {}
  BY BoundsTyped, CallsAssumption DEF CallsInv, CallsTyped
<1>1. CallsTyped'
  BY <1>0 DEF Moved, CallsTyped
<1>2. \A k \in Jobs : Started(k)' => Started(k)
  BY DEF Moved, Started
<1>3. \A k \in Jobs : Started(k)' => (k \in translated' <=> k \in translated) /\ (k \in briefed' <=> k \in briefed)
  <2>. SUFFICES ASSUME NEW k \in Jobs, Started(k)'
                PROVE  (k \in translated' <=> k \in translated) /\ (k \in briefed' <=> k \in briefed)
    OBVIOUS
  <2>1. CASE k = j
    <3>1. job'[j].pc \in {"ready", "asking", "backoff"}
      BY <2>1 DEF Moved, Started, JobRow
    <3>. QED  BY <2>1, <3>1 DEF Moved
  <2>2. CASE k # j
    BY <2>2 DEF Moved
  <2>. QED  BY <2>1, <2>2
<1>4. StoredIsOver'
  BY <1>0, <1>2, <1>3 DEF StoredIsOver
<1>5. \A r \in Runs : Document(r)' = Document(r) /\ run'[r] = run[r]
  BY DEF Moved, Document
<1>6. SemaphoreInv'
  <2>1. ASSUME NEW k \in Jobs, Started(k)' PROVE \E r \in Runs : k \in Current(r)'
    <3>1. PICK r \in Runs : k \in Current(r)
      BY <1>0, <1>2, <2>1 DEF SemaphoreInv
    <3>2. k \in Current(r)'
      BY <1>3, <1>5, <2>1, <3>1 DEF Current
    <3>. QED  BY <3>2
  <2>2. ASSUME NEW r \in Runs PROVE IsFiniteSet(Busy(r)') /\ Cardinality(Busy(r)') <= Concurrency
    <3>1. Current(r)' \subseteq Current(r) /\ Current(r) \subseteq Jobs
      BY <1>0, <1>5, CurrentIsOfRun DEF Current, Moved
    <3>2. Busy(r)' \in SUBSET Busy(r)
      BY <1>2, <3>1 DEF Busy
    <3>3. IsFiniteSet(Busy(r)) /\ Cardinality(Busy(r)) <= Concurrency
      BY <1>0 DEF SemaphoreInv
    <3>. QED  BY <3>2, <3>3, Fewer, BoundsTyped
  <2>. QED  BY <2>1, <2>2 DEF SemaphoreInv
<1>7. ChargeInv'
  <2>. DEFINE n == Cardinality(InFlight)
              m == Cardinality(InFlight')
  <2>1. IsFiniteSet(InFlight) /\ n \in Nat /\ n <= AllCalls
    BY <1>0, FewAreInFlight
  <2>2. IsFiniteSet(InFlight') /\ m \in Nat /\ m <= AllCalls
    <3>. DEFINE B == [r \in Runs |-> Busy(r)']
    <3>1. \A r \in Runs : IsFiniteSet(B[r]) /\ Cardinality(B[r]) <= Concurrency
      BY <1>6 DEF SemaphoreInv
    <3>2. \A k \in InFlight' : \E r \in Runs : k \in B[r]
      BY <1>6 DEF InFlight, SemaphoreInv, Busy, Started
    <3>. HIDE DEF B
    <3>. QED  BY <3>1, <3>2, FewOf
  <2>3. n * Cost \in Nat /\ m * Cost \in Nat /\ m * Cost <= AllCalls * Cost
    BY <1>0, <2>1, <2>2, CostsMore
  <2>4. used + n * Cost <= (Limit - 1) + AllCalls * Cost
    BY <1>0 DEF ChargeInv
  <2>5. CASE used' = used /\ used < Limit
    <3>1. used' + m * Cost <= (Limit - 1) + AllCalls * Cost
      BY <1>0, <2>3, <2>5
    <3>. QED  BY <3>1 DEF ChargeInv, AllCalls
  <2>6. CASE used' = used /\ (job'[j].pc \in {"asking", "backoff"} => job[j].pc \in {"asking", "backoff"})
    <3>1. InFlight' \in SUBSET InFlight
      BY <2>6 DEF InFlight, Moved
    <3>2. m <= n
      BY <2>1, <3>1, Fewer
    <3>3. m * Cost <= n * Cost
      BY <1>0, <2>1, <2>2, <3>2, CostsMore
    <3>4. used' + m * Cost <= (Limit - 1) + AllCalls * Cost
      BY <1>0, <2>3, <2>4, <2>6, <3>3
    <3>. QED  BY <3>4 DEF ChargeInv, AllCalls
  <2>7. CASE /\ \E cost \in 1..Cost : used' = used + cost
             /\ job[j].pc = "asking" /\ job'[j].pc \notin {"asking", "backoff"}
    <3>1. InFlight' \in SUBSET (InFlight \ {j}) /\ j \in InFlight
      BY <2>7 DEF InFlight, Moved
    <3>2. IsFiniteSet(InFlight \ {j}) /\ Cardinality(InFlight \ {j}) = n - 1
      BY <2>1, <3>1, FS_RemoveElement
    <3>3. m <= n - 1
      BY <3>1, <3>2, Fewer
    <3>4. m + 1 <= n /\ m + 1 \in Nat
      BY <2>1, <2>2, <3>3
    <3>5. (m + 1) * Cost <= n * Cost /\ (m + 1) * Cost = m * Cost + Cost
      BY <1>0, <2>1, <2>2, <3>4, CostsMore
    <3>6. used' \in Nat /\ used' <= used + Cost
      BY <1>0, <2>7
    <3>7. used' + m * Cost <= (Limit - 1) + AllCalls * Cost
      BY <1>0, <2>3, <2>4, <3>5, <3>6
    <3>. QED  BY <3>7 DEF ChargeInv, AllCalls
  <2>. QED  BY <2>5, <2>6, <2>7 DEF Moved
<1>. QED  BY <1>1, <1>4, <1>6, <1>7 DEF CallsInv

\* The turn of a job, at its run's semaphore
LEMMA StartKeeps ==
  ASSUME CallsInv, NEW j \in Jobs, NEW r \in Runs, StartJob(r, j)
  PROVE  CallsInv'
<1>0. /\ CallsTyped /\ SemaphoreInv /\ ChargeInv /\ StoredIsOver
      /\ job \in [Jobs -> JobRow] /\ Concurrency \in Nat
  BY BoundsTyped DEF CallsInv, CallsTyped
<1>1. /\ job[j].pc = "idle" /\ j \in Current(r) /\ UNCHANGED <<run, translated, briefed, used>>
      /\ Cardinality(Busy(r)) < Concurrency
  BY DEF StartJob, Busy
<1>2. PICK row : /\ job' = [job EXCEPT ![j] = row] /\ row \in JobRow
                 /\ row.pc \in {"cancelled", "done", "ready"} /\ (row.pc = "ready" => j \notin briefed)
  <2>1. job' = [job EXCEPT ![j] = At(j, IF run[r].cancelled THEN "cancelled"
                                         ELSE IF j \in briefed THEN "done" ELSE "ready")]
    BY DEF StartJob, To
  <2>2. \A pc \in {"ready", "done", "cancelled", "failed"} : At(j, pc) \in JobRow /\ At(j, pc).pc = pc
    BY <1>0, RowsTyped
  <2>. QED  BY <2>1, <2>2
<1>3. job' \in [Jobs -> JobRow] /\ job'[j] = row /\ \A k \in Jobs \ {j} : job'[k] = job[k]
  BY <1>0, <1>2
<1>4. CallsTyped'
  BY <1>0, <1>1, <1>3 DEF CallsTyped
<1>5. \A q \in Runs : Current(q)' = Current(q)
  BY <1>1 DEF Current, Document
<1>6. SemaphoreInv'
  <2>1. ASSUME NEW k \in Jobs, Started(k)' PROVE \E q \in Runs : k \in Current(q)'
    BY <1>0, <1>1, <1>3, <1>5, <2>1 DEF SemaphoreInv, Started
  <2>2. ASSUME NEW q \in Runs PROVE IsFiniteSet(Busy(q)') /\ Cardinality(Busy(q)') <= Concurrency
    <3>0. IsFiniteSet(Busy(q)) /\ Cardinality(Busy(q)) <= Concurrency
      BY <1>0 DEF SemaphoreInv
    <3>1. CASE q = r
      <4>1. Busy(q)' \in SUBSET (Busy(q) \cup {j})
        BY <1>0, <1>3, <1>5, CurrentIsOfRun DEF Busy, Started
      <4>2. IsFiniteSet(Busy(q) \cup {j}) /\ Cardinality(Busy(q) \cup {j}) <= Concurrency
        <5>1. Cardinality(Busy(q)) \in Nat
          BY <3>0, FS_CardinalityType
        <5>2. /\ IsFiniteSet(Busy(q) \cup {j})
              /\ Cardinality(Busy(q) \cup {j}) =
                   IF j \in Busy(q) THEN Cardinality(Busy(q)) ELSE Cardinality(Busy(q)) + 1
          BY <3>0, FS_AddElement
        <5>. QED  BY <1>0, <1>1, <3>1, <5>1, <5>2
      <4>. QED  BY <1>0, <4>1, <4>2, Fewer
    <3>2. CASE q # r
      <4>1. j \notin Current(q)
        BY <1>0, <1>1, <3>2, CurrentIsOfRun
      <4>2. Busy(q)' \in SUBSET Busy(q)
        BY <1>0, <1>3, <1>5, <4>1, CurrentIsOfRun DEF Busy, Started
      <4>. QED  BY <1>0, <3>0, <4>2, Fewer
    <3>. QED  BY <3>1, <3>2
  <2>. QED  BY <2>1, <2>2 DEF SemaphoreInv
<1>7. ChargeInv'
  <2>1. InFlight' = InFlight
    BY <1>1, <1>2, <1>3 DEF InFlight
  <2>. QED  BY <1>0, <1>1, <2>1 DEF ChargeInv, AllCalls
<1>8. StoredIsOver'
  <2>. SUFFICES ASSUME NEW k \in Jobs, Started(k)' PROVE k \notin translated' \cup briefed'
    BY DEF StoredIsOver
  <2>1. CASE k = j
    <3>1. j \notin briefed
      BY <1>2, <1>3, <2>1 DEF Started
    <3>2. j \notin translated
      <4>1. CASE run[r].phase = "briefs"
        <5>1. j \in Briefs
          BY <1>0, <1>1, <4>1, CurrentIsOfRun DEF Current
        <5>. QED  BY <1>0, <5>1, CallsAssumption DEF CallsTyped
      <4>2. CASE run[r].phase # "briefs"
        BY <1>1, <4>2 DEF Current
      <4>. QED  BY <4>1, <4>2
    <3>. QED  BY <1>1, <2>1, <3>1, <3>2
  <2>2. CASE k # j
    BY <1>0, <1>1, <1>3, <2>2 DEF StoredIsOver, Started
  <2>. QED  BY <2>1, <2>2
<1>. QED  BY <1>4, <1>6, <1>7, <1>8 DEF CallsInv

\* A run goes on or ends when all of its phase is over, so that nothing of it has
\* started in the phase it comes to.
LEMMA PhaseKeeps ==
  ASSUME CallsInv, NEW r \in Runs, PhaseEnds(r)
  PROVE  CallsInv'
<1>0. /\ CallsTyped /\ SemaphoreInv /\ ChargeInv /\ StoredIsOver /\ run \in [Runs -> RunRow]
      /\ run[r].doc \in DOMAIN Work[r] /\ run[r].doc \in Nat
  BY DEF CallsInv, CallsTyped, RunRow
<1>1. UNCHANGED <<job, translated, briefed, used>> /\ \A j \in Current(r) : IsOver(j)
  BY DEF PhaseEnds, Ends, Phase
<1>2. PICK row : run' = [run EXCEPT ![r] = row] /\ row \in RunRow /\ row.doc \in DOMAIN Work[r]
  <2>1. PICK row : /\ run' = [run EXCEPT ![r] = row]
                   /\ \/ \E result \in {"cancelled", "failed", "done"} :
                           row = [run[r] EXCEPT !.result = result, !.phase = "none"]
                      \/ row = [run[r] EXCEPT !.doc = run[r].doc, !.phase = "batches"]
                      \/ /\ run[r].doc < Len(Work[r])
                         /\ row = [run[r] EXCEPT !.doc = run[r].doc + 1, !.phase = "briefs"]
    BY <1>0 DEF PhaseEnds, Ends, Phase
  <2>2. Len(Work[r]) \in Nat /\ DOMAIN Work[r] = 1..Len(Work[r])
    BY CallsAssumption
  <2>3. row \in RunRow /\ row.doc \in DOMAIN Work[r]
    <3>1. run[r] \in RunRow
      BY <1>0
    <3>2. CASE \E result \in {"cancelled", "failed", "done"} :
                 row = [run[r] EXCEPT !.result = result, !.phase = "none"]
      BY <1>0, <3>1, <3>2 DEF RunRow
    <3>3. CASE row = [run[r] EXCEPT !.doc = run[r].doc, !.phase = "batches"]
      BY <1>0, <3>1, <3>3 DEF RunRow
    <3>4. CASE run[r].doc < Len(Work[r]) /\ row = [run[r] EXCEPT !.doc = run[r].doc + 1, !.phase = "briefs"]
      <4>1. run[r].doc + 1 \in Nat /\ run[r].doc + 1 \in DOMAIN Work[r]
        BY <1>0, <2>2, <3>4
      <4>2. row \in RunRow /\ row.doc = run[r].doc + 1
        BY <3>1, <3>4, <4>1 DEF RunRow
      <4>. QED  BY <4>1, <4>2
    <3>. QED  BY <2>1, <3>2, <3>3, <3>4
  <2>. QED  BY <2>1, <2>3
<1>3. run' \in [Runs -> RunRow] /\ run'[r] = row /\ \A q \in Runs \ {r} : run'[q] = run[q]
  BY <1>0, <1>2
<1>4. CallsTyped'
  BY <1>0, <1>1, <1>2, <1>3 DEF CallsTyped
<1>5. \A q \in Runs \ {r} : Current(q)' = Current(q)
  BY <1>1, <1>3 DEF Current, Document
<1>6. \A k \in Jobs : Started(k)' <=> Started(k)
  BY <1>1 DEF Started
<1>7. ASSUME NEW k \in Jobs, Started(k) PROVE \E q \in Runs \ {r} : k \in Current(q)
  <2>1. PICK q \in Runs : k \in Current(q)
    BY <1>0, <1>7 DEF SemaphoreInv
  <2>2. q # r
    BY <1>1, <1>7, <2>1 DEF Started, IsOver
  <2>. QED  BY <2>1, <2>2
<1>8. Current(r)' \subseteq JobsOf(r)
  BY <1>2, <1>3 DEF Current, Document, JobsOf
<1>9. Busy(r)' = {}
  <2>. SUFFICES ASSUME NEW k \in Busy(r)' PROVE FALSE
    OBVIOUS
  <2>1. k \in JobsOf(r) /\ Started(k)'
    BY <1>8 DEF Busy
  <2>2. k \in Jobs
    BY <2>1 DEF JobsOf, Jobs, Briefs, Batches, Documents
  <2>3. PICK q \in Runs \ {r} : k \in Current(q)
    BY <1>6, <1>7, <2>1, <2>2
  <2>. QED  BY <1>0, <2>1, <2>3, CurrentIsOfRun
<1>10. SemaphoreInv'
  <2>1. \A q \in Runs \ {r} : Busy(q)' = Busy(q)
    BY <1>0, <1>5, <1>6, CurrentIsOfRun DEF Busy
  <2>2. \A k \in Jobs : Started(k)' => \E q \in Runs : k \in Current(q)'
    BY <1>5, <1>6, <1>7
  <2>3. \A q \in Runs : IsFiniteSet(Busy(q)') /\ Cardinality(Busy(q)') <= Concurrency
    <3>1. IsFiniteSet(Busy(r)') /\ Cardinality(Busy(r)') <= Concurrency
      BY <1>9, FS_EmptySet, BoundsTyped
    <3>2. \A q \in Runs \ {r} : IsFiniteSet(Busy(q)') /\ Cardinality(Busy(q)') <= Concurrency
      BY <1>0, <2>1 DEF SemaphoreInv
    <3>. QED  BY <3>1, <3>2
  <2>. QED  BY <2>2, <2>3 DEF SemaphoreInv
<1>11. ChargeInv' /\ StoredIsOver'
  <2>1. InFlight' = InFlight
    BY <1>1 DEF InFlight
  <2>. QED  BY <1>0, <1>1, <1>6, <2>1 DEF ChargeInv, StoredIsOver, AllCalls
<1>. QED  BY <1>4, <1>10, <1>11 DEF CallsInv

\* A cancellation and a reset touch neither jobs nor what is current.
LEMMA UserKeeps ==
  ASSUME CallsInv, (\E r \in Runs : Cancel(r)) \/ ResetTokens \/ UNCHANGED callVars
  PROVE  CallsInv'
<1>0. /\ CallsTyped /\ SemaphoreInv /\ ChargeInv /\ StoredIsOver /\ run \in [Runs -> RunRow]
      /\ used \in Nat
  BY DEF CallsInv, CallsTyped
<1>1. /\ UNCHANGED <<job, translated, briefed>> /\ (used' = used \/ used' = 0)
      /\ run' \in [Runs -> RunRow]
      /\ \A r \in Runs : run'[r].doc = run[r].doc /\ run'[r].phase = run[r].phase
  <2>1. CASE \E r \in Runs : Cancel(r)
    <3>1. PICK r \in Runs : Cancel(r)
      BY <2>1
    <3>. QED  BY <1>0, <3>1 DEF Cancel, RunRow
  <2>2. CASE ResetTokens \/ UNCHANGED callVars
    BY <1>0, <2>2 DEF ResetTokens, callVars
  <2>. QED  BY <2>1, <2>2
<1>2. CallsTyped'
  BY <1>0, <1>1 DEF CallsTyped
<1>3. /\ \A r \in Runs : Current(r)' = Current(r)
      /\ \A j \in Jobs : Started(j)' <=> Started(j)
      /\ InFlight' = InFlight
  BY <1>1 DEF Current, Document, Started, InFlight
<1>4. SemaphoreInv'
  <2>1. \A r \in Runs : Busy(r)' = Busy(r)
    BY <1>0, <1>3, CurrentIsOfRun DEF Busy
  <2>. QED  BY <1>0, <1>3, <2>1 DEF SemaphoreInv
<1>5. ChargeInv'
  <2>1. Cardinality(InFlight) \in Nat
    BY <1>0, FewAreInFlight
  <2>2. used' <= used
    BY <1>0, <1>1
  <2>3. Cardinality(InFlight) * Cost \in Nat /\ AllCalls * Cost \in Nat /\ Limit \in Nat
    BY <2>1, BoundsTyped, CostsMore
  <2>4. used' \in Nat
    BY <1>0, <1>1
  <2>5. used' + Cardinality(InFlight) * Cost <= (Limit - 1) + AllCalls * Cost
    BY <1>0, <2>2, <2>3, <2>4 DEF ChargeInv
  <2>. QED  BY <1>3, <2>5 DEF ChargeInv, AllCalls
<1>6. StoredIsOver'
  BY <1>0, <1>1, <1>3 DEF StoredIsOver
<1>. QED  BY <1>2, <1>4, <1>5, <1>6 DEF CallsInv

LEMMA CallsStep == CallsInv /\ [CallsNext]_callVars => CallsInv'
<1>. SUFFICES ASSUME CallsInv, [CallsNext]_callVars PROVE CallsInv'
  OBVIOUS
<1>1. CASE \E j \in Jobs : JobStep(j)
  <2>1. PICK j \in Jobs : JobStep(j)
    BY <1>1
  <2>2. CASE \E r \in Runs : StartJob(r, j)
    BY <2>2, StartKeeps
  <2>3. CASE Ask(j) \/ Unreachable(j) \/ Retry(j) \/ Unusable(j) \/ Valid(j) \/ Malformed(j)
    BY <2>3, JobsMove, MoveKeeps
  <2>. QED  BY <2>1, <2>2, <2>3 DEF JobStep
<1>2. CASE \E r \in Runs : PhaseEnds(r)
  BY <1>2, PhaseKeeps
<1>3. CASE (\E r \in Runs : Cancel(r)) \/ ResetTokens \/ UNCHANGED callVars
  BY <1>3, UserKeeps
<1>. QED  BY <1>1, <1>2, <1>3 DEF CallsNext

-----------------------------------------------------------------------------
\* Whatever number of runs share the limit, and however checks, answers, retries and
\* resets interleave, the usage passes the limit by less than one answer for each
\* call that the semaphores let through.
THEOREM OvershootStaysBounded == CallsSpec => []OvershootIsBounded
<1>1. CallsInv => OvershootIsBounded
  <2>. SUFFICES ASSUME CallsInv PROVE OvershootIsBounded
    OBVIOUS
  <2>1. CallsTyped /\ SemaphoreInv /\ ChargeInv /\ used \in Nat
    BY DEF CallsInv, CallsTyped
  <2>2. Cardinality(InFlight) \in Nat
    BY <2>1, FewAreInFlight
  <2>3. Cardinality(InFlight) * Cost \in Nat /\ AllCalls * Cost \in Nat /\ Limit \in Nat
    BY <2>2, BoundsTyped, CostsMore
  <2>4. used < Limit + AllCalls * Cost
    BY <2>1, <2>3 DEF ChargeInv
  <2>. QED  BY <2>4 DEF OvershootIsBounded, AllCalls
<1>. QED  BY <1>1, CallsInitInv, CallsStep, PTL DEF CallsSpec

\* No request goes out for a job whose run is cancelled, nor for one whose result is
\* stored, in whatever attempt, retry, correction or polish.
THEOREM NothingAskedInVain == CallsSpec => NothingIsAskedInVain
<1>1. ASSUME CallsInv, CallsNext, NEW j \in Jobs, job[j].pc # "asking", job'[j].pc = "asking"
      PROVE  ~Cancelled(j) /\ j \notin translated \cup briefed
  <2>0. CallsTyped /\ job \in [Jobs -> JobRow] /\ StoredIsOver
    BY <1>1 DEF CallsInv, CallsTyped
  <2>1. \E k \in Jobs : JobStep(k)
    BY <1>1 DEF CallsNext, PhaseEnds, Ends, Phase, Cancel, ResetTokens
  <2>2. PICK k \in Jobs : JobStep(k)
    BY <2>1
  <2>3. k = j
    <3>1. \A i \in Jobs \ {k} : job'[i] = job[i]
      <4>1. CASE \E r \in Runs : StartJob(r, k)
        BY <2>0, <4>1 DEF StartJob, To
      <4>2. CASE ~\E r \in Runs : StartJob(r, k)
        BY <1>1, <2>2, <4>2, JobsMove DEF JobStep, Moved
      <4>. QED  BY <4>1, <4>2
    <3>. QED  BY <1>1, <3>1
  <2>4. \A pc \in {"ready", "done", "cancelled", "failed"} : At(j, pc).pc = pc
    BY DEF At, NewJob
  <2>5. Again(j).pc \in {"ready", "failed"}
    BY <2>0, RowsTyped
  <2>6. ~\E r \in Runs : StartJob(r, j)
    <3>. SUFFICES ASSUME NEW r \in Runs, StartJob(r, j) PROVE FALSE
      OBVIOUS
    <3>1. PICK pc \in {"ready", "done", "cancelled"} : job' = [job EXCEPT ![j] = At(j, pc)]
      BY DEF StartJob, To
    <3>. QED  BY <1>1, <2>0, <2>4, <3>1
  <2>7. Ask(j) \/ Retry(j)
    <3>1. CASE Valid(j) \/ Malformed(j) \/ Unreachable(j) \/ Unusable(j)
      BY <1>1, <3>1 DEF Valid, Malformed, Unreachable, Unusable
    <3>. QED  BY <2>2, <2>3, <2>6, <3>1 DEF JobStep
  <2>8. ~Cancelled(j)
    BY <1>1, <2>0, <2>4, <2>5, <2>7 DEF Ask, Retry
  <2>9. Started(j)
    BY <2>7 DEF Ask, Retry, Started
  <2>. QED  BY <2>0, <2>8, <2>9 DEF StoredIsOver
<1>2. CallsInv /\ [CallsNext]_callVars =>
        [\A j \in Jobs : job[j].pc # "asking" /\ job'[j].pc = "asking" =>
           ~Cancelled(j) /\ j \notin translated \cup briefed]_callVars
  BY <1>1
<1>. QED  BY <1>2, CallsInitInv, CallsStep, PTL DEF CallsSpec, NothingIsAskedInVain

=============================================================================
