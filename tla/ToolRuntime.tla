---------------------------- MODULE ToolRuntime ----------------------------
(***************************************************************************)
(* execute_tool of core/engine/runtime.py: one execution of a tool, from   *)
(* the gate to the hooks after the run, with the record it keeps in        *)
(* engine_runs.  A node's handler may succeed, report a failure, raise, or *)
(* return what is no result; a storage call and a hook may raise; the      *)
(* server may stop.                                                        *)
(*                                                                         *)
(* Nodes are numbered in the order get_execution_order gives them, and     *)
(* data is left out: a template that does not resolve is an attempt that   *)
(* raises.                                                                 *)
(***************************************************************************)
EXTENDS Sequences, Naturals

CONSTANTS
  N,            \* number of nodes of the graph
  MaxAttempts,  \* bound: retry.max_attempts of a node
  MaxFaults,    \* bound: storage calls and hooks that raise
  MayCrash      \* whether the server may stop

ASSUME ToolRuntimeAssumption ==
  /\ N \in Nat \ {0} /\ MaxAttempts \in Nat \ {0} /\ MaxFaults \in Nat
  /\ MayCrash \in BOOLEAN

VARIABLES
  tool,         \* the settings of the nodes, and what the checks will say
  pc,           \* where execute_tool is
  tries,        \* attempts of the current node that raised
  results,      \* step_results: the status of each step
  failed,       \* graph_failed
  stored,       \* the row of engine_runs
  faults,       \* calls that raised
  hooked,       \* history: the hooks that were called
  dispatched    \* history: how each attempt at a node's handler ended

vars == <<tool, pc, tries, results, failed, stored, faults, hooked, dispatched>>

Nodes == 1 .. N
FailureModes == {"FAIL_GRAPH", "SKIP_NODE", "CONTINUE_GRAPH"}
StepStatuses == {"COMPLETED", "FAILED", "SKIPPED"}
Terminal     == {"COMPLETED", "FAILED"}

Tools == [policy: [Nodes -> FailureModes], attempts: [Nodes -> 1 .. MaxAttempts],
          known: [Nodes -> BOOLEAN], runnable: BOOLEAN]
Rows  == [status: Terminal \cup {"absent", "RUNNING"}, steps: Seq(StepStatuses)]

Row(status, steps) == [status |-> status, steps |-> steps]

-----------------------------------------------------------------------------
Init ==
  /\ tool \in Tools
  /\ pc         = "gate"
  /\ tries      = 0
  /\ results    = <<>>
  /\ failed     = FALSE
  /\ stored     = Row("absent", <<>>)
  /\ faults     = 0
  /\ hooked     = {}
  /\ dispatched = [n \in Nodes |-> <<>>]

Goto(label) == pc' = label
Fault       == faults < MaxFaults /\ faults' = faults + 1

loop == <<tries, results, failed, dispatched>>

-----------------------------------------------------------------------------
(* Before the first node. *)

\* The approval gate, the required inputs, the order of the graph.
Gate ==
  /\ pc = "gate"
  /\ Goto(IF tool.runnable THEN "create" ELSE "raised")
  /\ UNCHANGED <<tool, loop, stored, faults, hooked>>

CreateRun ==
  /\ pc = "create"
  /\ stored' = Row("RUNNING", <<>>)
  /\ Goto("before")
  /\ UNCHANGED <<tool, loop, faults, hooked>>

CreateRunFails ==
  /\ pc = "create"
  /\ Fault
  /\ Goto("raised")
  /\ UNCHANGED <<tool, loop, stored, hooked>>

BeforeHooks ==
  /\ pc = "before"
  /\ hooked' = hooked \cup {"before_run"}
  /\ Goto("nodes")
  /\ UNCHANGED <<tool, loop, stored, faults>>

\* The hooks are called outside the try block.
BeforeHooksFail ==
  /\ pc = "before"
  /\ Fault
  /\ Goto("raised")
  /\ UNCHANGED <<tool, loop, stored, hooked>>

-----------------------------------------------------------------------------
(* The nodes. *)

current  == Len(results) + 1
LoopOver == failed \/ Len(results) = N

\* How an attempt ends.
Endings == {"answered", "raised"}

\* Mutant of Record: a node that is skipped for its failure stops the graph.
RecordStops(status) ==
  /\ results' = Append(results, IF status = "FAILED" /\ tool.policy[current] = "SKIP_NODE"
                                  THEN "SKIPPED" ELSE status)
  /\ failed' = (status = "FAILED" /\ tool.policy[current] # "CONTINUE_GRAPH")
  /\ tries' = 0

\* The step result of the current node, and what its failure policy says.
Record(status) ==
  /\ results' = Append(results, IF status = "FAILED" /\ tool.policy[current] = "SKIP_NODE"
                                  THEN "SKIPPED" ELSE status)
  /\ failed' = (status = "FAILED" /\ tool.policy[current] = "FAIL_GRAPH")
  /\ tries' = 0

\* An attempt at the current node: its handler answers, or it raises.
Attempt(ended) ==
  /\ pc = "nodes" /\ ~LoopOver
  /\ tool.known[current]
  /\ dispatched' = [dispatched EXCEPT ![current] = Append(@, ended)]
  /\ UNCHANGED <<tool, stored, hooked>>

\* Mutant of Returns: a failure that was returned is retried as well.
ReturnsRetried(status) ==
  /\ Attempt("answered")
  /\ IF status = "FAILED" /\ tries + 1 < tool.attempts[current]
       THEN tries' = tries + 1 /\ UNCHANGED <<results, failed>>
       ELSE Record(status)
  /\ UNCHANGED <<pc, faults>>

\* The handler returns a result; a failure it reports is not retried.
Returns(status) ==
  /\ Attempt("answered")
  /\ Record(status)
  /\ UNCHANGED <<pc, faults>>

\* The attempt raises: it is repeated, or the node has failed.
Raises ==
  /\ Attempt("raised")
  /\ IF tries + 1 < tool.attempts[current]
       THEN tries' = tries + 1 /\ UNCHANGED <<results, failed>>
       ELSE Record("FAILED")
  /\ UNCHANGED <<pc, faults>>

\* No handler is registered for the action: nothing is retried.
HandlerMissing ==
  /\ pc = "nodes" /\ ~LoopOver
  /\ ~tool.known[current]
  /\ Record("FAILED")
  /\ UNCHANGED <<tool, pc, stored, faults, hooked, dispatched>>

\* The handler returns an object that is no ActionResult: the runtime itself
\* raises, with the steps so far.
ReturnsNonsense ==
  /\ Attempt("answered")
  /\ Fault
  /\ Goto("exc_steps")
  /\ UNCHANGED <<tries, results, failed>>

-----------------------------------------------------------------------------
(* The end of the run. *)

\* update_run_steps, in the try block and in the handler of the exception.
SaveSteps ==
  /\ \/ pc = "nodes" /\ LoopOver /\ Goto("finish")
     \/ pc = "exc_steps" /\ Goto("exc_finish")
  /\ stored' = Row(stored.status, results)
  /\ UNCHANGED <<tool, loop, faults, hooked>>

SaveStepsFails ==
  /\ \/ pc = "nodes" /\ LoopOver /\ Goto("exc_steps")
     \/ pc = "exc_steps" /\ Goto("raised")
  /\ Fault
  /\ UNCHANGED <<tool, loop, stored, hooked>>

\* Mutant of Finish: the run is completed whatever its nodes did.
FinishAnyway ==
  /\ pc = "finish"
  /\ stored' = Row("COMPLETED", stored.steps)
  /\ Goto("reload")
  /\ UNCHANGED <<tool, loop, faults, hooked>>

\* update_run_status after the loop.
Finish ==
  /\ pc = "finish"
  /\ stored' = Row(IF failed THEN "FAILED" ELSE "COMPLETED", stored.steps)
  /\ Goto("reload")
  /\ UNCHANGED <<tool, loop, faults, hooked>>

FinishFails ==
  /\ pc = "finish"
  /\ Fault
  /\ Goto("exc_steps")
  /\ UNCHANGED <<tool, loop, stored, hooked>>

\* update_run_status in the handler of the exception.
FinishFailed ==
  /\ pc = "exc_finish"
  /\ stored' = Row("FAILED", stored.steps)
  /\ Goto("exc_hooks")
  /\ UNCHANGED <<tool, loop, faults, hooked>>

FinishFailedFails ==
  /\ pc = "exc_finish"
  /\ Fault
  /\ Goto("raised")
  /\ UNCHANGED <<tool, loop, stored, hooked>>

\* on_failure, and the exception goes on to the caller.
ExceptionHooks ==
  /\ pc = "exc_hooks"
  /\ hooked' = hooked \cup {"on_failure"}
  /\ Goto("raised")
  /\ UNCHANGED <<tool, loop, stored, faults>>

\* get_run.
Reload ==
  /\ pc = "reload"
  /\ Goto("after")
  /\ UNCHANGED <<tool, loop, stored, faults, hooked>>

\* Mutant of ReloadFails: the reload is part of the try block.
ReloadCaught ==
  /\ pc = "reload"
  /\ Fault
  /\ Goto("exc_steps")
  /\ UNCHANGED <<tool, loop, stored, hooked>>

ReloadFails ==
  /\ pc = "reload"
  /\ Fault
  /\ Goto("raised")
  /\ UNCHANGED <<tool, loop, stored, hooked>>

\* after_run, and on_failure when the graph failed.
AfterHooks ==
  /\ \/ /\ pc = "after"
        /\ hooked' = hooked \cup {"after_run"}
        /\ Goto(IF failed THEN "on_failure" ELSE "returned")
     \/ /\ pc = "on_failure"
        /\ hooked' = hooked \cup {"on_failure"}
        /\ Goto("returned")
  /\ UNCHANGED <<tool, loop, stored, faults>>

AfterHooksFail ==
  /\ pc \in {"after", "on_failure", "exc_hooks"}
  /\ Fault
  /\ Goto("raised")
  /\ UNCHANGED <<tool, loop, stored, hooked>>

\* The server stops; nothing continues the run when it starts again.
Crash ==
  /\ MayCrash
  /\ pc \notin {"returned", "raised", "dead"}
  /\ Goto("dead")
  /\ UNCHANGED <<tool, loop, stored, faults, hooked>>

Run ==
  \/ Gate \/ CreateRun \/ BeforeHooks
  \/ \E status \in StepStatuses : Returns(status)
  \/ Raises \/ HandlerMissing
  \/ SaveSteps \/ Finish \/ FinishFailed \/ ExceptionHooks
  \/ Reload \/ AfterHooks

RunFails ==
  \/ CreateRunFails \/ BeforeHooksFail \/ ReturnsNonsense \/ SaveStepsFails
  \/ FinishFails \/ FinishFailedFails \/ ReloadFails \/ AfterHooksFail

Next == Run \/ RunFails \/ Crash

Spec == Init /\ [][Next]_vars

-----------------------------------------------------------------------------
Labels == {"gate", "create", "before", "nodes", "finish", "exc_steps",
           "exc_finish", "exc_hooks", "reload", "after", "on_failure",
           "returned", "raised", "dead"}

\* The types, and their bounds: no more attempts than a node may have, no more
\* steps than nodes.
TypeOK ==
  /\ tool \in Tools
  /\ pc \in Labels
  /\ tries \in 0 .. MaxAttempts - 1
  /\ results \in Seq(StepStatuses) /\ Len(results) <= N
  /\ failed \in BOOLEAN
  /\ stored \in Rows
  /\ faults \in 0 .. MaxFaults
  /\ hooked \subseteq {"before_run", "after_run", "on_failure"}
  /\ dispatched \in [Nodes -> Seq(Endings)]

(***************************************************************************)
(* The status of a run says what its stored steps say: a completed run has *)
(* a step for every node and none that failed under FAIL_GRAPH, also when  *)
(* storage calls raised on the way.                                        *)
(***************************************************************************)
CompletedMeansAllStepsStand ==
  stored.status = "COMPLETED" =>
    /\ Len(stored.steps) = N
    /\ \A n \in Nodes : tool.policy[n] = "FAIL_GRAPH" => stored.steps[n] # "FAILED"

(***************************************************************************)
(* FAIL_GRAPH stops the graph: no node after one that failed under it is   *)
(* given to its handler, and none is before every earlier node has a step. *)
(***************************************************************************)
FailedGraphStops ==
  \A m, n \in Nodes :
    m < n /\ dispatched[n] # <<>> =>
      /\ m <= Len(results)
      /\ ~(results[m] = "FAILED" /\ tool.policy[m] = "FAIL_GRAPH")

(***************************************************************************)
(* Only an exception is retried: a node is given to its handler at most    *)
(* max_attempts times, and never again once the handler has answered.      *)
(***************************************************************************)
OnlyExceptionsAreRetried ==
  \A n \in Nodes :
    /\ Len(dispatched[n]) <= tool.attempts[n]
    /\ \A m \in 1 .. Len(dispatched[n]) - 1 : dispatched[n][m] = "raised"

(***************************************************************************)
(* A terminal run record is final: whatever raises after update_run_status *)
(* has committed, the caller may see an error but the row is not rewritten.*)
(***************************************************************************)
TerminalIsFinal ==
  [][stored.status \in Terminal => stored' = stored]_vars

(***************************************************************************)
(* What is given to a handler follows the policies: nodes in their order,  *)
(* none after one that failed under FAIL_GRAPH, and a node again only      *)
(* after an exception, at most max_attempts times.                         *)
(***************************************************************************)
AttemptsFollowPolicies == FailedGraphStops /\ OnlyExceptionsAreRetried

Stepwise == INSTANCE StepwiseRun WITH
  Outcomes <- StepStatuses, Failure <- "FAILED",
  Completed <- "COMPLETED", Failed <- "FAILED", MayGiveUp <- TRUE,
  settled <- results, left <- N - Len(results), broken <- failed,
  verdicts <- {stored.status} \cap Terminal

(***************************************************************************)
(* The runtime carries out a run of steps: each node gets one result that  *)
(* is never changed, the only one that breaks the graph is the last, and   *)
(* one verdict is stored: COMPLETED if every node has its result and none  *)
(* broke the graph, FAILED else, also where a call around them raised.     *)
(* The row it is stored in is not rewritten.                               *)
(***************************************************************************)
NodesAreRunStepwise == Stepwise!Spec /\ TerminalIsFinal
=============================================================================
