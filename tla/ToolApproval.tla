---------------------------- MODULE ToolApproval ----------------------------
(***************************************************************************)
(* The approval lifecycle as core/engine/approval.py runs it.  A request   *)
(* handler thread loads the tool and checks its status, writes the new     *)
(* status, and appends the ApprovalEvent: three calls, each with a         *)
(* connection and a transaction of its own.  Requests of several threads   *)
(* interleave between the calls, and a call that raises (or a crash) ends  *)
(* the request wherever it is.                                             *)
(***************************************************************************)
EXTENDS Sequences, Naturals

CONSTANTS
  Tools,        \* ids of the tools that may be saved
  Workers,      \* threads that serve requests
  CallableOps,  \* the operations somebody calls
  MaxRequests,  \* bound: requests that are started in a behaviour
  MayFail       \* whether a storage call may raise

VARIABLES
  status,       \* engine_tools.status of each tool, Absent before it is saved
  trail,        \* engine_approval_events of each tool, oldest first
  req,          \* the request each worker is serving
  served,       \* how many requests were started
  saved,        \* history: the status a tool was saved with
  visited       \* history: the statuses a tool has had

vars == <<status, trail, req, served, saved, visited>>

Lifecycle == INSTANCE ToolLifecycle WITH Tools <- Tools, status <- status

Statuses == Lifecycle!Statuses
Absent   == Lifecycle!Absent
Ops      == Lifecycle!Ops
Source   == Lifecycle!Source
Target   == Lifecycle!Target

ASSUME ToolApprovalAssumption ==
  /\ CallableOps \subseteq Ops
  /\ MaxRequests \in Nat
  /\ MayFail \in BOOLEAN

\* What a request runs: one operation, or the pair of the auto-approval.
Plans == {<<op>> : op \in Ops} \cup {<<"submit", "approve">>}

Requests == [pc: {"load", "update", "emit"}, tool: Tools, todo: Plans,
             auto: BOOLEAN]

Idle == [pc |-> "idle", tool |-> Absent, todo |-> <<>>, auto |-> FALSE]

-----------------------------------------------------------------------------
Init ==
  /\ status  = [t \in Tools |-> Absent]
  /\ trail   = [t \in Tools |-> <<>>]
  /\ req     = [w \in Workers |-> Idle]
  /\ served  = 0
  /\ saved   = [t \in Tools |-> Absent]
  /\ visited = [t \in Tools |-> {}]

\* A request about t arrives at an idle worker.
Start(w, t, plan, auto) ==
  /\ served < MaxRequests
  /\ served' = served + 1
  /\ req' = [req EXCEPT ![w] = [pc |-> "load", tool |-> t, todo |-> plan,
                                auto |-> auto]]

\* A route (or a caller of core.engine) asks for one operation.
Request(w, t, op) ==
  /\ req[w] = Idle
  /\ Start(w, t, <<op>>, FALSE)
  /\ UNCHANGED <<status, trail, saved, visited>>

(***************************************************************************)
(* POST /engine/tools/save: the row is inserted with the status the        *)
(* definition carries; a duplicate id is refused.  With the auto-approval  *)
(* flag on, the AI workspace as the source and the graph stored, the same  *)
(* request goes on to submit and approve.                                  *)
(***************************************************************************)
SaveTool(w, t, s, auto) ==
  /\ req[w] = Idle
  /\ status[t] = Absent
  /\ status'  = [status EXCEPT ![t] = s]
  /\ saved'   = [saved EXCEPT ![t] = s]
  /\ visited' = [visited EXCEPT ![t] = {s}]
  /\ \/ auto /\ Start(w, t, <<"submit", "approve">>, TRUE)
     \/ ~auto /\ UNCHANGED <<req, served>>
  /\ UNCHANGED trail

\* The request is over: done, refused with an EngineError, or failed.
EndRequest(w) == req' = [req EXCEPT ![w] = Idle]

\* Mutant of Load: the status is not checked.
LoadUnchecked(w) ==
  /\ req[w].pc = "load"
  /\ req' = [req EXCEPT ![w].pc = "update"]
  /\ UNCHANGED <<status, trail, served, saved, visited>>

\* Mutant of Load: the event is logged before the status is written.
LoadLogsFirst(w) ==
  LET t == req[w].tool
  IN /\ req[w].pc = "load"
     /\ status[t] = Source[Head(req[w].todo)]
     /\ trail' = [trail EXCEPT ![t] = Append(@, Head(req[w].todo))]
     /\ req' = [req EXCEPT ![w].pc = "update"]
     /\ UNCHANGED <<status, served, saved, visited>>

\* get_tool, and the check of the status it returned.
Load(w) ==
  /\ req[w].pc = "load"
  /\ IF status[req[w].tool] = Source[Head(req[w].todo)]
       THEN req' = [req EXCEPT ![w].pc = "update"]
       ELSE EndRequest(w)
  /\ UNCHANGED <<status, trail, served, saved, visited>>

\* update_tool_status: the write does not look at the status again.
UpdateStatus(w) ==
  LET t == req[w].tool
      s == Target[Head(req[w].todo)]
  IN /\ req[w].pc = "update"
     /\ status'  = [status EXCEPT ![t] = s]
     /\ visited' = [visited EXCEPT ![t] = @ \cup {s}]
     /\ req'     = [req EXCEPT ![w].pc = "emit"]
     /\ UNCHANGED <<trail, served, saved>>

\* log_approval_event, and on to the next operation of the request.
Emit(w) ==
  LET t == req[w].tool
  IN /\ req[w].pc = "emit"
     /\ trail' = [trail EXCEPT ![t] = Append(@, Head(req[w].todo))]
     /\ IF Len(req[w].todo) > 1
          THEN req' = [req EXCEPT ![w].pc = "load", ![w].todo = Tail(@)]
          ELSE EndRequest(w)
     /\ UNCHANGED <<status, served, saved, visited>>

\* A storage call raises, or the server stops, before the call has effect.
Fail(w) ==
  /\ MayFail
  /\ req[w].pc # "idle"
  /\ EndRequest(w)
  /\ UNCHANGED <<status, trail, served, saved, visited>>

Step(w) == Load(w) \/ UpdateStatus(w) \/ Emit(w)

Next ==
  \E w \in Workers :
    \/ Step(w)
    \/ Fail(w)
    \/ \E t \in Tools :
         \/ \E op \in CallableOps : Request(w, t, op)
         \/ \E s \in Statuses, auto \in BOOLEAN : SaveTool(w, t, s, auto)

Spec == Init /\ [][Next]_vars

-----------------------------------------------------------------------------
\* The rows, the trail and the requests have their types; a worker has something
\* left to do exactly while it is not idle.
TypeOK ==
  /\ status \in [Tools -> Statuses \cup {Absent}]
  /\ trail \in [Tools -> Seq(Ops)]
  /\ req \in [Workers -> Requests \cup {Idle}]
  /\ served \in 0 .. MaxRequests
  /\ saved \in [Tools -> Statuses \cup {Absent}]
  /\ visited \in [Tools -> SUBSET Statuses]

(***************************************************************************)
(* However the requests overlap and wherever they fail, a tool only gets a *)
(* status it was saved with or one that some operation leads to from a     *)
(* status it had before: nothing is approved that was never pending,       *)
(* nothing is deprecated that was never approved.                          *)
(***************************************************************************)
EveryStatusEarned ==
  \A t \in Tools : \A s \in visited[t] :
    s = saved[t] \/ \E op \in Ops : Target[op] = s /\ Source[op] \in visited[t]

(***************************************************************************)
(* The trail never tells of something that did not happen: an event is     *)
(* logged only after the tool had the status the event stands for, even    *)
(* when the request fails half way.                                        *)
(***************************************************************************)
TrailNeverInvents ==
  \A t \in Tools : \A i \in DOMAIN trail[t] : Target[trail[t][i]] \in visited[t]

(***************************************************************************)
(* Status and trail are both earned: neither tells of an approval that did *)
(* not happen.                                                             *)
(***************************************************************************)
ApprovalsAreEarned == EveryStatusEarned /\ TrailNeverInvents

\* The status the trail of a tool leads to.
TrailStatus(t) ==
  IF trail[t] = <<>> THEN saved[t] ELSE Target[trail[t][Len(trail[t])]]

(***************************************************************************)
(* Requests served one at a time, no call failing: whenever the server is  *)
(* at rest the audit trail of a tool leads to the status it has, and every *)
(* event follows one that leaves the tool where the event needs it.        *)
(***************************************************************************)
TrailExplainsStatus ==
  (\A w \in Workers : req[w] = Idle) =>
    \A t \in Tools :
      /\ TrailStatus(t) = status[t]
      /\ \A i \in 2 .. Len(trail[t]) :
           Target[trail[t][i - 1]] = Source[trail[t][i]]

(***************************************************************************)
(* Requests served one at a time: the detailed specification implements    *)
(* the abstract lifecycle, each write is one legal transition.             *)
(***************************************************************************)
LifecycleSpec == Lifecycle!Spec
=============================================================================
