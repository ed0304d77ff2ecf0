--------------------------- MODULE GatedExecution ---------------------------
(***************************************************************************)
(* The approval lifecycle (ToolApproval) and the executions it admits      *)
(* (ToolRuntime), together: while requests move the status of a tool, the  *)
(* execute route and the ticks of the scheduler load a tool, look at the   *)
(* status in the copy they loaded, and create the row of the run.  Between *)
(* the load and the row the status may be moved by anyone.                 *)
(***************************************************************************)
EXTENDS ToolApproval, FiniteSets

CONSTANTS
  Callers,      \* threads that execute tools: the route's, the tick's
  MaxRuns       \* bound: runs that are created in a behaviour

ASSUME GatedAssumption == IsFiniteSet(Callers) /\ MaxRuns \in Nat

VARIABLES
  exec,         \* the execution each caller is at
  runs,         \* engine_runs, in the order of their creation
  stale         \* history: runs created since a tool was last taken from approved

gvars == <<vars, exec, runs, stale>>

Resting == [pc |-> "idle", tool |-> Absent, run |-> 0]

GInit ==
  /\ Init
  /\ exec = [c \in Callers |-> Resting]
  /\ runs = <<>>
  /\ stale = [t \in Tools |-> 0]

-----------------------------------------------------------------------------
\* A step of the approval lifecycle; leaving approved starts the count anew.
ApprovalStep ==
  /\ Next
  /\ stale' = [t \in Tools |-> IF status[t] = "approved" /\ status'[t] # "approved"
                                THEN 0 ELSE stale[t]]
  /\ UNCHANGED <<exec, runs>>

\* Mutant of Finish: the caller keeps the definition for the next execution.
FinishKeepsTool(c, s) ==
  /\ exec[c].pc = "run"
  /\ runs' = [runs EXCEPT ![exec[c].run].status = s]
  /\ exec' = [exec EXCEPT ![c].pc = "create"]
  /\ UNCHANGED <<vars, stale>>

\* Mutant of LoadTool: the gate is left out.
LoadToolUngated(c, t) ==
  /\ exec[c] = Resting
  /\ status[t] # Absent
  /\ exec' = [exec EXCEPT ![c] = [pc |-> "create", tool |-> t, run |-> 0]]
  /\ UNCHANGED <<vars, runs, stale>>

(***************************************************************************)
(* get_tool, and ensure_tool_approved on what it returned: an unknown tool *)
(* (404) and one that is not approved (403) change nothing.                *)
(***************************************************************************)
LoadTool(c, t) ==
  /\ exec[c] = Resting
  /\ status[t] = "approved"
  /\ exec' = [exec EXCEPT ![c] = [pc |-> "create", tool |-> t, run |-> 0]]
  /\ UNCHANGED <<vars, runs, stale>>

\* create_run: the status is not looked at again.
CreateRun(c) ==
  LET t == exec[c].tool
  IN /\ exec[c].pc = "create"
     /\ Len(runs) < MaxRuns
     /\ runs' = Append(runs, [tool |-> t, status |-> "RUNNING"])
     /\ exec' = [exec EXCEPT ![c].pc = "run", ![c].run = Len(runs) + 1]
     /\ stale' = [stale EXCEPT ![t] = IF status[t] = "approved" THEN @ ELSE @ + 1]
     /\ UNCHANGED vars

\* update_run_status stores how the run ended.
Finish(c, s) ==
  /\ exec[c].pc = "run"
  /\ runs' = [runs EXCEPT ![exec[c].run].status = s]
  /\ exec' = [exec EXCEPT ![c] = Resting]
  /\ UNCHANGED <<vars, stale>>

\* Something raises, or the server stops, where nothing is stored any more: the
\* inputs, the order of the graph, create_run, a hook, or the handler's own calls.
Abandon(c) ==
  /\ exec[c].pc # "idle"
  /\ exec' = [exec EXCEPT ![c] = Resting]
  /\ UNCHANGED <<vars, runs, stale>>

Execution(c) ==
  \/ \E t \in Tools : LoadTool(c, t)
  \/ CreateRun(c)
  \/ \E s \in {"COMPLETED", "FAILED"} : Finish(c, s)
  \/ Abandon(c)

GNext == ApprovalStep \/ \E c \in Callers : Execution(c)

GSpec == GInit /\ [][GNext]_gvars

-----------------------------------------------------------------------------
Executions ==
       {Resting}
  \cup [pc: {"create"}, tool: Tools, run: {0}]
  \cup [pc: {"run"}, tool: Tools, run: DOMAIN runs]

GTypeOK ==
  /\ TypeOK
  /\ exec \in [Callers -> Executions]
  /\ runs \in Seq([tool: Tools, status: {"RUNNING", "COMPLETED", "FAILED"}])
  /\ stale \in [Tools -> Nat]

\* The callers that passed the gate for t and have not created their run yet.
Admitted(t) == {c \in Callers : exec[c].pc = "create" /\ exec[c].tool = t}

(***************************************************************************)
(* Revoking or deprecating a tool takes hold: whoever loaded it before may *)
(* still start one run each, and that is all; the gate is passed again for *)
(* every run.  So as long as the tool is not approved again, no more runs  *)
(* of it start than there are threads that execute tools.                  *)
(***************************************************************************)
StaleRunsAreBounded ==
  \A t \in Tools :
    status[t] # "approved" => stale[t] + Cardinality(Admitted(t)) <= Cardinality(Callers)

(***************************************************************************)
(* Nothing runs that nobody approved: a tool with a run was saved as       *)
(* approved, or it has been submitted, and was approved after that.        *)
(***************************************************************************)
RunsAreEarned ==
  \A r \in DOMAIN runs :
    LET t == runs[r].tool
    IN saved[t] = "approved" \/ {"pending_approval", "approved"} \subseteq visited[t]
=============================================================================
