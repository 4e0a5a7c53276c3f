-------------------------- MODULE MCBatchScenarios --------------------------
(***************************************************************************)
(* Four tasks in one run of TLC: that of the configuration, which no one   *)
(* cancels; one whose calls may fail while it is cancelled, and whose      *)
(* items ask the same; one whose replies, records and output rows may be   *)
(* lost, with a cancellation and crashes; and one whose jobs time out.     *)
(***************************************************************************)
EXTENDS MCBatchTranslation

VARIABLE scenario

Cancelled == INSTANCE BatchTranslation WITH
  Faults <- {"transient", "permanent", "cancel_failed", "inspect_failed"},
  Events <- {"cancel", "rerun", "shutdown", "crash"},
  RequestOf <- Shared, EnablePolish <- {TRUE}, MaxOps <- 4
Lossy == INSTANCE BatchTranslation WITH
  Faults <- {"lost_record", "lost_reply", "missing_row"},
  Events <- {"cancel", "rerun", "shutdown", "crash"},
  EnablePolish <- {TRUE}, MaxOps <- 2, MaxJobs <- 2
Slow == INSTANCE BatchTranslation WITH
  Faults <- {"timeout", "cancel_failed", "batch_failed"},
  Events <- {"rerun", "shutdown", "crash"},
  EnablePolish <- {TRUE}, MaxOps <- 2

ScenarioInit ==
  \/ scenario = "rerun" /\ Init
  \/ scenario = "cancelled" /\ Cancelled!Init
  \/ scenario = "lossy" /\ Lossy!Init
  \/ scenario = "slow" /\ Slow!Init
ScenarioNext ==
  /\ \/ scenario = "rerun" /\ Next
     \/ scenario = "cancelled" /\ Cancelled!Next
     \/ scenario = "lossy" /\ Lossy!Next
     \/ scenario = "slow" /\ Slow!Next
  /\ UNCHANGED scenario
ScenarioSpec == ScenarioInit /\ [][ScenarioNext]_<<scenario, vars>>

=============================================================================
