---------------------------- MODULE StepwiseRun ----------------------------
(***************************************************************************)
(* What a run of steps promises, whichever runner carries it out: the      *)
(* engine of core/engine/runtime.py, the multi-step runner and the plan    *)
(* executor.  Steps are settled one after another and for good; one that   *)
(* breaks the run is the last; and one verdict is recorded, after which    *)
(* nothing is settled any more.                                            *)
(***************************************************************************)
EXTENDS Sequences, Naturals

CONSTANTS
  Outcomes,     \* how a step may be settled
  Failure,      \* the outcome of a step that breaks the run
  Completed, Failed,   \* the verdicts
  MayGiveUp     \* whether a run may be failed although no step of it broke it

VARIABLES
  settled,      \* the outcomes so far, in the order in which the steps are due
  left,         \* how many steps were not settled
  broken,       \* a step broke the run
  verdicts      \* the verdicts that were recorded

vars == <<settled, left, broken, verdicts>>

Init ==
  /\ settled = <<>>
  /\ left \in Nat
  /\ broken = FALSE
  /\ verdicts = {}

Open == ~broken /\ verdicts = {}

SettleAs(outcome) ==
  /\ Open /\ left > 0
  /\ settled' = Append(settled, outcome)
  /\ left' = left - 1
  /\ UNCHANGED verdicts

\* The next step is settled, and the run goes on.
Settle ==
  /\ \E outcome \in Outcomes : SettleAs(outcome)
  /\ UNCHANGED broken

\* The next step breaks the run.
Break ==
  /\ SettleAs(Failure)
  /\ broken' = TRUE

\* The run is recorded as completed: every step was settled, none broke it.
Complete ==
  /\ Open /\ left = 0
  /\ verdicts' = {Completed}
  /\ UNCHANGED <<settled, left, broken>>

\* It is recorded as failed.
Fail ==
  /\ verdicts = {}
  /\ broken \/ MayGiveUp
  /\ verdicts' = {Failed}
  /\ UNCHANGED <<settled, left, broken>>

Next == Settle \/ Break \/ Complete \/ Fail

Spec == Init /\ [][Next]_vars
=============================================================================
