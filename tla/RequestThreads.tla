--------------------------- MODULE RequestThreads ---------------------------
(***************************************************************************)
(* The threads FastAPI serves synchronous handlers with.  A request is a   *)
(* job that goes from one call of the database (or file) to the next; what *)
(* other threads do between two calls it does not see.                     *)
(***************************************************************************)
EXTENDS Naturals, Sequences, FiniteSets

CONSTANTS
  Threads       \* threads that serve requests

ASSUME ThreadsAssumption == IsFiniteSet(Threads)

VARIABLES
  job           \* what each thread is at: its step (pc) and the request's own data

Rest == [pc |-> "rest"]

\* A row that is not there.
NoRow == [role |-> "none"]

Begin(w, j)   == job[w] = Rest /\ job' = [job EXCEPT ![w] = j]
At(w, step)   == job[w].pc = step
Goto(w, step) == job' = [job EXCEPT ![w].pc = step]
End(w)        == job' = [job EXCEPT ![w] = Rest]

\* The threads that are at one of some steps.
AtSteps(steps) == {w \in Threads : job[w].pc \in steps}
=============================================================================
