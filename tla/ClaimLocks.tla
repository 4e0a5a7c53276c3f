----------------------------- MODULE ClaimLocks -----------------------------
(***************************************************************************)
(* What the task engine promises about the resources of a book: a lock     *)
(* manager.  A task acquires all its claims at once, and only while no     *)
(* other task holds a claim that conflicts with them; it keeps them until  *)
(* its work ends.  ClaimArbiter (workflow/tasks/claims.py) decides         *)
(* conflicts; TaskEngine implements this module with the claims of the     *)
(* tasks whose worker threads are really running.                          *)
(***************************************************************************)
EXTENDS TaskHandlers

CONSTANTS Tasks, claimsOf   \* claimsOf[t]: the claims task t works under

VARIABLE holding            \* the tasks at work

Compatible(t) ==
  \A u \in holding \ {t} : ~Conflicts(claimsOf[t], claimsOf[u])

Init == holding = {}

Acquire(t) ==
  /\ t \notin holding
  /\ Compatible(t)
  /\ holding' = holding \cup {t}

\* One task ends, or a whole process does.
Release(S) ==
  /\ S # {} /\ S \subseteq holding
  /\ holding' = holding \ S

Next == \/ \E t \in Tasks : Acquire(t)
        \/ \E S \in SUBSET holding : Release(S)

Spec == Init /\ [][Next]_holding
=============================================================================
