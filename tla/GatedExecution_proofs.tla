----------------------- MODULE GatedExecution_proofs ------------------------
(***************************************************************************)
(* Proofs about ToolApproval, for every set of tools and workers, and about *)
(* GatedExecution, for every finite set of callers beside them.  What is   *)
(* proved of ToolApproval carries over, because the composition implements it. *)
(***************************************************************************)
EXTENDS GatedExecution, FiniteSetTheorems, TLAPS

USE DEF Statuses, Absent, Ops, Source, Target,
        Lifecycle!Statuses, Lifecycle!Absent, Lifecycle!Ops,
        Lifecycle!Source, Lifecycle!Target

\* A worker that serves a request is about to run one operation on one tool.
LEMMA BusyWorker ==
  ASSUME TypeOK, NEW w \in Workers, req[w].pc # "idle"
  PROVE  /\ req[w] \in Requests
         /\ req[w].tool \in Tools
         /\ Head(req[w].todo) \in Ops
         /\ Len(req[w].todo) > 1 => Tail(req[w].todo) \in Plans
  <1>1. req[w] \in Requests
    BY DEF TypeOK, Idle
  <1>2. req[w].todo \in Plans
    BY <1>1 DEF Requests
  <1>3. ASSUME NEW op \in Ops, req[w].todo = <<op>>
        PROVE  Head(req[w].todo) \in Ops /\ ~(Len(req[w].todo) > 1)
    BY <1>3
  <1>4. ASSUME req[w].todo = <<"submit", "approve">>
        PROVE  Head(req[w].todo) \in Ops /\ Tail(req[w].todo) \in Plans
    <2>1. Tail(req[w].todo) = <<"approve">>
      BY <1>4
    <2> QED  BY <1>4, <2>1 DEF Plans
  <1> QED  BY <1>1, <1>2, <1>3, <1>4 DEF Requests, Plans

-----------------------------------------------------------------------------
(***************************************************************************)
(* Type correctness.                                                       *)
(***************************************************************************)
LEMMA TypeStep == TypeOK /\ [Next]_vars => TypeOK'
  <1> SUFFICES ASSUME TypeOK, [Next]_vars PROVE TypeOK'
    OBVIOUS
  <1> USE DEF TypeOK
  <1>1. ASSUME NEW w \in Workers, EndRequest(w)
        PROVE  req' \in [Workers -> Requests \cup {Idle}]
    BY <1>1 DEF EndRequest
  <1>2. ASSUME NEW w \in Workers, Load(w) PROVE TypeOK'
    <2>1. req[w] \in Requests
      BY <1>2, BusyWorker DEF Load
    <2>2. CASE EndRequest(w)
      BY <1>1, <1>2, <2>2 DEF Load
    <2>3. CASE req' = [req EXCEPT ![w].pc = "update"]
      BY <1>2, <2>1, <2>3 DEF Load, Requests
    <2> QED  BY <1>2, <2>2, <2>3 DEF Load
  <1>3. ASSUME NEW w \in Workers, UpdateStatus(w) PROVE TypeOK'
    <2>1. req[w] \in Requests /\ req[w].tool \in Tools /\ Head(req[w].todo) \in Ops
      BY <1>3, BusyWorker DEF UpdateStatus
    <2>2. req' \in [Workers -> Requests \cup {Idle}]
      BY <1>3, <2>1 DEF UpdateStatus, Requests
    <2>3. Target[Head(req[w].todo)] \in Statuses
      BY <2>1
    <2> QED  BY <1>3, <2>1, <2>2, <2>3 DEF UpdateStatus
  <1>4. ASSUME NEW w \in Workers, Emit(w) PROVE TypeOK'
    <2>1. /\ req[w] \in Requests /\ req[w].tool \in Tools
          /\ Head(req[w].todo) \in Ops
          /\ Len(req[w].todo) > 1 => Tail(req[w].todo) \in Plans
      BY <1>4, BusyWorker DEF Emit
    <2>2. trail' \in [Tools -> Seq(Ops)]
      BY <1>4, <2>1 DEF Emit
    <2>3. CASE EndRequest(w)
      BY <1>1, <1>4, <2>2, <2>3 DEF Emit
    <2>4. CASE /\ Len(req[w].todo) > 1
               /\ req' = [req EXCEPT ![w].pc = "load", ![w].todo = Tail(@)]
      <3>1. req' \in [Workers -> Requests \cup {Idle}]
        BY <2>1, <2>4 DEF Requests
      <3> QED  BY <1>4, <2>2, <3>1 DEF Emit
    <2> QED  BY <1>4, <2>3, <2>4 DEF Emit
  <1>5. ASSUME NEW w \in Workers, Fail(w) PROVE TypeOK'
    BY <1>1, <1>5 DEF Fail
  <1>6. ASSUME NEW w \in Workers, NEW t \in Tools, NEW plan \in Plans,
               NEW auto \in BOOLEAN, Start(w, t, plan, auto)
        PROVE  /\ req' \in [Workers -> Requests \cup {Idle}]
               /\ served' \in 0 .. MaxRequests
    BY <1>6, ToolApprovalAssumption DEF Start, Requests
  <1>7. ASSUME NEW w \in Workers, NEW t \in Tools, NEW op \in CallableOps,
               Request(w, t, op)
        PROVE  TypeOK'
    <2>1. <<op>> \in Plans
      BY ToolApprovalAssumption DEF Plans
    <2> QED  BY <1>6, <1>7, <2>1 DEF Request
  <1>8. ASSUME NEW w \in Workers, NEW t \in Tools, NEW s \in Statuses,
               NEW auto \in BOOLEAN, SaveTool(w, t, s, auto)
        PROVE  TypeOK'
    <2>1. <<"submit", "approve">> \in Plans
      BY DEF Plans
    <2>2. /\ req' \in [Workers -> Requests \cup {Idle}]
          /\ served' \in 0 .. MaxRequests
      BY <1>6, <1>8, <2>1 DEF SaveTool
    <2> QED  BY <1>8, <2>2 DEF SaveTool
  <1>9. CASE UNCHANGED vars
    BY <1>9 DEF vars
  <1> QED
    BY <1>2, <1>3, <1>4, <1>5, <1>7, <1>8, <1>9 DEF Next, Step

(***************************************************************************)
(* The variables of ToolApproval keep their types, for every number of     *)
(* tools, workers and requests.                                            *)
(***************************************************************************)
THEOREM TypeCorrect == Spec => []TypeOK
  <1>1. Init => TypeOK
    BY ToolApprovalAssumption DEF Init, TypeOK
  <1>2. QED
    BY <1>1, TypeStep, PTL DEF Spec

-----------------------------------------------------------------------------
(***************************************************************************)
(* The histories.  EveryStatusEarned is not inductive: a write does not    *)
(* look at the status again, so the invariant has to remember, for every   *)
(* request between its load and its write, that the status the request     *)
(* relies on was once the status of the tool.                              *)
(***************************************************************************)
CurrentStatusVisited ==
  \A t \in Tools : IF status[t] = Absent THEN visited[t] = {}
                                        ELSE status[t] \in visited[t]

RequestsRelyOnHistory ==
  \A w \in Workers :
    /\ req[w].pc = "update" => Source[Head(req[w].todo)] \in visited[req[w].tool]
    /\ req[w].pc = "emit"   => Target[Head(req[w].todo)] \in visited[req[w].tool]

HistoryInv ==
  /\ CurrentStatusVisited
  /\ RequestsRelyOnHistory
  /\ EveryStatusEarned
  /\ TrailNeverInvents

\* Nothing was saved yet, so there is no history.
LEMMA HistoryInit == Init => HistoryInv
  BY DEF Init, HistoryInv, CurrentStatusVisited, RequestsRelyOnHistory, Idle,
         EveryStatusEarned, TrailNeverInvents

\* Every write is of a status whose source was visited, every event of one
\* whose target was.
LEMMA HistoryStep == TypeOK /\ HistoryInv /\ [Next]_vars => HistoryInv'
  <1> SUFFICES ASSUME TypeOK, HistoryInv, [Next]_vars PROVE HistoryInv'
    OBVIOUS
  <1> USE DEF HistoryInv, CurrentStatusVisited, RequestsRelyOnHistory,
              EveryStatusEarned, TrailNeverInvents
  <1>1. ASSUME NEW w \in Workers, EndRequest(w), UNCHANGED <<status, trail, saved, visited>>
        PROVE  HistoryInv'
    BY <1>1 DEF EndRequest, TypeOK, Idle
  <1>2. ASSUME NEW w \in Workers, Load(w) PROVE HistoryInv'
    <2>1. req[w] \in Requests /\ req[w].tool \in Tools /\ Head(req[w].todo) \in Ops
      BY <1>2, BusyWorker DEF Load
    <2>2. CASE EndRequest(w)
      BY <1>1, <1>2, <2>2 DEF Load
    <2>3. CASE /\ status[req[w].tool] = Source[Head(req[w].todo)]
               /\ req' = [req EXCEPT ![w].pc = "update"]
      <3>1. Source[Head(req[w].todo)] \in visited[req[w].tool]
        BY <2>1, <2>3
      <3> QED  BY <1>2, <2>1, <2>3, <3>1 DEF Load, TypeOK, Requests
    <2> QED  BY <1>2, <2>2, <2>3 DEF Load
  <1>3. ASSUME NEW w \in Workers, UpdateStatus(w) PROVE HistoryInv'
    <2>1. /\ req[w] \in Requests /\ req[w].tool \in Tools
          /\ Head(req[w].todo) \in Ops
      BY <1>3, BusyWorker DEF UpdateStatus
    <2> DEFINE t == req[w].tool
               s == Target[Head(req[w].todo)]
    <2>2. /\ status' = [status EXCEPT ![t] = s]
          /\ visited' = [visited EXCEPT ![t] = @ \cup {s}]
          /\ req' = [req EXCEPT ![w].pc = "emit"]
          /\ UNCHANGED <<trail, saved>>
          /\ Source[Head(req[w].todo)] \in visited[t]
      BY <1>3 DEF UpdateStatus
    <2>3. s \in Statuses
      BY <2>1
    <2>4. CurrentStatusVisited'
      BY <2>1, <2>2, <2>3 DEF TypeOK
    <2>5. RequestsRelyOnHistory'
      BY <2>1, <2>2 DEF TypeOK, Requests
    <2>6. EveryStatusEarned'
      BY <2>1, <2>2 DEF TypeOK
    <2>7. TrailNeverInvents'
      BY <2>1, <2>2 DEF TypeOK
    <2> QED  BY <2>4, <2>5, <2>6, <2>7
  <1>4. ASSUME NEW w \in Workers, Emit(w) PROVE HistoryInv'
    <2>1. req[w] \in Requests /\ req[w].tool \in Tools /\ Head(req[w].todo) \in Ops
      BY <1>4, BusyWorker DEF Emit
    <2>2. TrailNeverInvents'
      <3> DEFINE op == Head(req[w].todo)
      <3>1. ASSUME NEW t \in Tools, NEW i \in DOMAIN trail'[t]
            PROVE  Target[trail'[t][i]] \in visited'[t]
        <4>1. trail[t] \in Seq(Ops) /\ Target[op] \in visited[req[w].tool]
          BY <1>4, <2>1 DEF Emit, TypeOK
        <4>2. CASE t # req[w].tool
          BY <1>4, <2>1, <3>1, <4>1, <4>2 DEF Emit, TypeOK
        <4>3. CASE t = req[w].tool
          <5>1. trail'[t] = Append(trail[t], op) /\ visited' = visited
            BY <1>4, <4>3 DEF Emit, TypeOK
          <5> QED  BY <2>1, <3>1, <4>1, <4>3, <5>1
        <4> QED  BY <4>2, <4>3
      <3> QED  BY <3>1
    <2>3. ASSUME NEW v \in Workers, req'[v].pc \in {"update", "emit"}
          PROVE  req'[v] = req[v]
      <3>1. CASE EndRequest(w)
        BY <2>3, <3>1 DEF EndRequest, Idle, TypeOK
      <3>2. CASE req' = [req EXCEPT ![w].pc = "load", ![w].todo = Tail(@)]
        BY <2>1, <2>3, <3>2 DEF TypeOK, Requests
      <3> QED  BY <1>4, <3>1, <3>2 DEF Emit
    <2>4. RequestsRelyOnHistory'
      BY <1>4, <2>3 DEF Emit
    <2> QED  BY <1>4, <2>2, <2>4 DEF Emit
  <1>5. ASSUME NEW w \in Workers, Fail(w) PROVE HistoryInv'
    BY <1>1, <1>5 DEF Fail
  <1>6. ASSUME NEW w \in Workers, NEW t \in Tools, NEW op \in CallableOps,
               Request(w, t, op)
        PROVE  HistoryInv'
    <2>1. UNCHANGED <<status, trail, saved, visited>>
      BY <1>6 DEF Request
    <2>2. RequestsRelyOnHistory'
      BY <1>6, <2>1 DEF Request, Start, TypeOK
    <2> QED  BY <2>1, <2>2
  <1>7. ASSUME NEW w \in Workers, NEW t \in Tools, NEW s \in Statuses,
               NEW auto \in BOOLEAN, SaveTool(w, t, s, auto)
        PROVE  HistoryInv'
    <2>1. /\ status' = [status EXCEPT ![t] = s]
          /\ saved' = [saved EXCEPT ![t] = s]
          /\ visited' = [visited EXCEPT ![t] = {s}]
          /\ UNCHANGED trail
          /\ visited[t] = {}
      BY <1>7 DEF SaveTool
    <2>2. CurrentStatusVisited' /\ EveryStatusEarned' /\ TrailNeverInvents'
      BY <2>1 DEF TypeOK
    <2>3. ASSUME NEW v \in Workers, req'[v].pc \in {"update", "emit"}
          PROVE  req'[v] = req[v] /\ req[v].tool # t
      <3>1. req'[v] = req[v]
        BY <1>7, <2>3 DEF SaveTool, Start, TypeOK
      <3>2. req[v] \in Requests
        BY <2>3, <3>1 DEF TypeOK, Idle
      <3> QED  BY <2>1, <2>3, <3>1, <3>2
    <2>4. RequestsRelyOnHistory'
      BY <2>1, <2>3 DEF TypeOK
    <2> QED  BY <2>2, <2>4
  <1>8. CASE UNCHANGED vars
    BY <1>8 DEF vars
  <1>9. ASSUME NEW w \in Workers, Step(w) PROVE HistoryInv'
    BY <1>2, <1>3, <1>4, <1>9 DEF Step
  <1> HIDE DEF HistoryInv
  <1> QED
    BY <1>5, <1>6, <1>7, <1>8, <1>9 DEF Next

\* Requests may overlap and fail anywhere: every status a tool has was earned.
THEOREM StatusesAreEarned == Spec => []EveryStatusEarned
  <1>1. HistoryInv => EveryStatusEarned
    BY DEF HistoryInv
  <1> QED  BY <1>1, HistoryInit, HistoryStep, TypeCorrect, PTL DEF Spec

\* Requests may overlap and fail anywhere: the trail tells only what happened.
THEOREM TrailIsTrue == Spec => []TrailNeverInvents
  <1>1. HistoryInv => TrailNeverInvents
    BY DEF HistoryInv
  <1> QED  BY <1>1, HistoryInit, HistoryStep, TypeCorrect, PTL DEF Spec

(***************************************************************************)
(* Both together, as the runs check them.                                  *)
(***************************************************************************)
THEOREM EarnedAlone == Spec => []ApprovalsAreEarned
  BY StatusesAreEarned, TrailIsTrue, PTL DEF ApprovalsAreEarned

-----------------------------------------------------------------------------
(***************************************************************************)
(* Requests served one at a time.  With one worker nothing writes between  *)
(* its load and its write, so the status it checked is still there: that   *)
(* is all the refinement needs.  With two workers it is false.             *)
(***************************************************************************)
OneWorker == \A v, w \in Workers : v = w

LoadIsFresh ==
  \A w \in Workers :
    req[w].pc = "update" => status[req[w].tool] = Source[Head(req[w].todo)]

\* What the only worker read is still so when it writes.
LEMMA FreshStep ==
  OneWorker /\ TypeOK /\ LoadIsFresh /\ [Next]_vars => LoadIsFresh'
  <1> SUFFICES ASSUME OneWorker, TypeOK, LoadIsFresh, [Next]_vars,
                      NEW v \in Workers, req'[v].pc = "update"
               PROVE  status'[req'[v].tool] = Source[Head(req'[v].todo)]
    BY DEF LoadIsFresh
  <1>1. ASSUME NEW w \in Workers, EndRequest(w) PROVE FALSE
    BY <1>1 DEF EndRequest, Idle, OneWorker, TypeOK
  <1>2. CASE Load(v)
    <2>1. req[v] \in Requests
      BY <1>2, BusyWorker DEF Load
    <2>2. CASE /\ status[req[v].tool] = Source[Head(req[v].todo)]
               /\ req' = [req EXCEPT ![v].pc = "update"]
      BY <1>2, <2>1, <2>2 DEF Load, TypeOK, Requests
    <2> QED  BY <1>1, <1>2, <2>2 DEF Load
  <1>3. CASE UpdateStatus(v)
    <2>1. req[v] \in Requests
      BY <1>3, BusyWorker DEF UpdateStatus
    <2> QED  BY <1>3, <2>1 DEF UpdateStatus, TypeOK, Requests
  <1>4. CASE Emit(v)
    <2>1. req[v] \in Requests
      BY <1>4, BusyWorker DEF Emit
    <2>2. CASE req' = [req EXCEPT ![v].pc = "load", ![v].todo = Tail(@)]
      BY <2>1, <2>2 DEF TypeOK, Requests
    <2> QED  BY <1>1, <1>4, <2>2 DEF Emit
  <1>5. CASE Fail(v)
    BY <1>1, <1>5 DEF Fail
  <1>6. ASSUME NEW t \in Tools, NEW op \in CallableOps, Request(v, t, op) PROVE FALSE
    BY <1>6 DEF Request, Start, TypeOK
  <1>7. ASSUME NEW t \in Tools, NEW s \in Statuses, NEW auto \in BOOLEAN,
               SaveTool(v, t, s, auto)
        PROVE  FALSE
    BY <1>7 DEF SaveTool, Start, TypeOK, Idle
  <1>8. CASE UNCHANGED vars
    BY <1>8 DEF vars, LoadIsFresh
  <1> QED
    BY <1>2, <1>3, <1>4, <1>5, <1>6, <1>7, <1>8 DEF Next, Step, OneWorker

\* Each step is a step of the lifecycle, or leaves the statuses alone.
LEMMA LifecycleStep ==
  TypeOK /\ LoadIsFresh /\ [Next]_vars => [Lifecycle!Next]_status
  <1> SUFFICES ASSUME TypeOK, LoadIsFresh, [Next]_vars
               PROVE  Lifecycle!Next \/ UNCHANGED status
    OBVIOUS
  <1>1. ASSUME NEW w \in Workers, UpdateStatus(w) PROVE Lifecycle!Next
    <2>1. /\ req[w].tool \in Tools
          /\ Head(req[w].todo) \in Ops
          /\ status[req[w].tool] = Source[Head(req[w].todo)]
      BY <1>1, BusyWorker DEF UpdateStatus, LoadIsFresh
    <2>2. Lifecycle!Move(req[w].tool, Head(req[w].todo))
      BY <1>1, <2>1 DEF UpdateStatus, Lifecycle!Move
    <2> QED  BY <2>1, <2>2 DEF Lifecycle!Next
  <1>2. ASSUME NEW w \in Workers, NEW t \in Tools, NEW s \in Statuses,
               NEW auto \in BOOLEAN, SaveTool(w, t, s, auto)
        PROVE  Lifecycle!Next
    BY <1>2 DEF SaveTool, Lifecycle!Next, Lifecycle!Save
  <1>3. ASSUME NEW w \in Workers,
               \/ Load(w) \/ Emit(w) \/ Fail(w)
               \/ \E t \in Tools, op \in CallableOps : Request(w, t, op)
        PROVE  UNCHANGED status
    BY <1>3 DEF Load, Emit, Fail, Request
  <1>4. CASE UNCHANGED vars
    BY <1>4 DEF vars
  <1> QED  BY <1>1, <1>2, <1>3, <1>4 DEF Next, Step

\* One request at a time: every write is one transition of the lifecycle.
THEOREM SerialImplementsLifecycle == OneWorker => (Spec => LifecycleSpec)
  <1> SUFFICES ASSUME OneWorker PROVE Spec => LifecycleSpec
    OBVIOUS
  <1>1. Init => Lifecycle!Init /\ LoadIsFresh
    BY DEF Init, Lifecycle!Init, LoadIsFresh, Idle
  <1>2. TypeOK /\ LoadIsFresh /\ [Next]_vars => LoadIsFresh'
    BY FreshStep
  <1> QED
    BY <1>1, <1>2, LifecycleStep, TypeCorrect, PTL
       DEF Spec, LifecycleSpec, Lifecycle!Spec

-----------------------------------------------------------------------------
(***************************************************************************)
(* The trail, one request at a time and with no call failing.  An event is *)
(* one write behind only while the worker is about to log it.              *)
(***************************************************************************)
Linked(t) ==
  \A i \in 2 .. Len(trail[t]) : Target[trail[t][i - 1]] = Source[trail[t][i]]

TrailInv ==
  /\ \A t \in Tools : Linked(t)
  /\ \A w \in Workers : req[w].pc = "emit" =>
       /\ status[req[w].tool] = Target[Head(req[w].todo)]
       /\ TrailStatus(req[w].tool) = Source[Head(req[w].todo)]
  /\ \A t \in Tools :
       (\A w \in Workers : req[w].pc = "emit" => req[w].tool # t) =>
         TrailStatus(t) = status[t]

\* The event that is logged fits the trail, and brings it up to the status.
LEMMA EventFits ==
  ASSUME OneWorker, TypeOK, TrailInv, NEW w \in Workers, Emit(w)
  PROVE  TrailInv'
  <1>0. PICK t \in Tools, op \in Ops : t = req[w].tool /\ op = Head(req[w].todo)
    BY BusyWorker DEF Emit
  <1>1. /\ req[w] \in Requests /\ req[w].pc = "emit"
        /\ status[t] = Target[op] /\ TrailStatus(t) = Source[op]
    BY <1>0, BusyWorker DEF Emit, TrailInv
  <1>2. /\ trail' = [trail EXCEPT ![t] = Append(trail[t], op)]
        /\ UNCHANGED <<status, saved>>
    BY <1>0 DEF Emit
  <1>3. ASSUME NEW v \in Workers PROVE req'[v].pc # "emit"
    <2>1. v = w
      BY DEF OneWorker
    <2>2. CASE EndRequest(w)
      BY <2>1, <2>2 DEF EndRequest, Idle, TypeOK
    <2>3. CASE req' = [req EXCEPT ![w].pc = "load", ![w].todo = Tail(@)]
      BY <1>1, <2>1, <2>3 DEF TypeOK, Requests
    <2> QED  BY <2>2, <2>3 DEF Emit
  <1>4. trail[t] \in Seq(Ops) /\ trail'[t] = Append(trail[t], op)
    BY <1>1, <1>2 DEF TypeOK
  <1>5. /\ Len(trail'[t]) = Len(trail[t]) + 1 /\ trail'[t][Len(trail[t]) + 1] = op
        /\ \A i \in 1 .. Len(trail[t]) : trail'[t][i] = trail[t][i]
        /\ Len(trail[t]) \in Nat
        /\ trail'[t] # <<>>
    BY <1>1, <1>4
  <1>6. ASSUME NEW u \in Tools, u # t
        PROVE  trail'[u] = trail[u] /\ status'[u] = status[u] /\ saved'[u] = saved[u]
    BY <1>1, <1>2, <1>6 DEF TypeOK
  <1>7. Len(trail[t]) > 0 => Target[trail[t][Len(trail[t])]] = Source[op]
    BY <1>1, <1>4 DEF TrailStatus
  <1>8. Linked(t)'
    <2> SUFFICES ASSUME NEW i \in 2 .. Len(trail'[t])
                 PROVE  Target[trail'[t][i - 1]] = Source[trail'[t][i]]
      BY DEF Linked
    <2>1. CASE i = Len(trail[t]) + 1
      <3>1. trail'[t][i] = op /\ i - 1 \in 1 .. Len(trail[t]) /\ i - 1 = Len(trail[t])
        BY <1>5, <2>1
      <3>2. trail'[t][i - 1] = trail[t][Len(trail[t])] /\ Len(trail[t]) > 0
        BY <1>5, <3>1
      <3> QED  BY <1>7, <3>1, <3>2
    <2>2. CASE i # Len(trail[t]) + 1
      <3>1. i \in 2 .. Len(trail[t]) /\ i \in 1 .. Len(trail[t])
              /\ i - 1 \in 1 .. Len(trail[t])
        BY <1>5, <2>2
      <3>2. Linked(t)
        BY <1>1 DEF TrailInv
      <3> QED  BY <1>5, <3>1, <3>2 DEF Linked
    <2> QED  BY <2>1, <2>2
  <1>9. TrailStatus(t)' = status'[t]
    BY <1>1, <1>2, <1>5 DEF TrailStatus
  <1>10. ASSUME NEW u \in Tools, u # t PROVE Linked(u)' /\ TrailStatus(u)' = status'[u]
    <2>1. TrailStatus(u) = status[u]
      BY <1>0, <1>10 DEF OneWorker, TrailInv
    <2> QED  BY <1>6, <1>10, <2>1 DEF Linked, TrailStatus, TrailInv
  <1> QED  BY <1>3, <1>8, <1>9, <1>10 DEF TrailInv

\* Every other step leaves trail and status alone, or writes the status the
\* event will tell of.
LEMMA TrailStep ==
  OneWorker /\ ~MayFail /\ TypeOK /\ LoadIsFresh /\ TrailInv /\ [Next]_vars => TrailInv'
  <1> SUFFICES ASSUME OneWorker, ~MayFail, TypeOK, LoadIsFresh, TrailInv, [Next]_vars
               PROVE  TrailInv'
    OBVIOUS
  <1>1. ASSUME UNCHANGED <<status, trail, saved>>,
               \A w \in Workers : req[w].pc # "emit" /\ req'[w].pc # "emit"
        PROVE  TrailInv'
    BY <1>1 DEF TrailInv, Linked, TrailStatus
  <1>2. ASSUME NEW w \in Workers, Load(w) PROVE TrailInv'
    <2>1. \A v \in Workers : req[v].pc # "emit" /\ req'[v].pc # "emit"
      BY <1>2, BusyWorker DEF Load, EndRequest, Idle, OneWorker, TypeOK, Requests
    <2> QED  BY <1>1, <1>2, <2>1 DEF Load
  <1>3. ASSUME NEW w \in Workers, UpdateStatus(w) PROVE TrailInv'
    <2> DEFINE t == req[w].tool
               op == Head(req[w].todo)
    <2>1. /\ req[w] \in Requests /\ t \in Tools /\ op \in Ops
          /\ status[t] = Source[op] /\ req[w].pc = "update"
      BY <1>3, BusyWorker DEF UpdateStatus, LoadIsFresh
    <2>2. /\ status' = [status EXCEPT ![t] = Target[op]]
          /\ UNCHANGED <<trail, saved>>
          /\ req' = [req EXCEPT ![w].pc = "emit"]
      BY <1>3 DEF UpdateStatus
    <2>3. ASSUME NEW u \in Tools PROVE TrailStatus(u) = status[u]
      BY <2>1 DEF OneWorker, TrailInv
    <2>4. \A v \in Workers : v = w /\ req'[v].pc = "emit" /\ req'[v].tool = t
                              /\ req'[v].todo = req[w].todo
      BY <2>1, <2>2 DEF OneWorker, TypeOK, Requests
    <2>5. \A u \in Tools : TrailStatus(u)' = TrailStatus(u) /\ (Linked(u) => Linked(u)')
      BY <2>2 DEF TrailStatus, Linked
    <2>6. status'[t] = Target[op] /\ \A u \in Tools : u # t => status'[u] = status[u]
      BY <2>1, <2>2 DEF TypeOK
    <2> QED  BY <2>1, <2>3, <2>4, <2>5, <2>6 DEF TrailInv
  <1>4. ASSUME NEW w \in Workers, Emit(w) PROVE TrailInv'
    BY <1>4, EventFits
  <1>5. ASSUME NEW w \in Workers, NEW t \in Tools, NEW op \in CallableOps, Request(w, t, op)
        PROVE  TrailInv'
    <2>1. \A v \in Workers : req[v].pc # "emit" /\ req'[v].pc # "emit"
      BY <1>5 DEF Request, Start, Idle, OneWorker, TypeOK
    <2> QED  BY <1>1, <1>5, <2>1 DEF Request
  <1>6. ASSUME NEW w \in Workers, NEW t \in Tools, NEW s \in Statuses,
               NEW auto \in BOOLEAN, SaveTool(w, t, s, auto)
        PROVE  TrailInv'
    <2>1. /\ status' = [status EXCEPT ![t] = s] /\ saved' = [saved EXCEPT ![t] = s]
          /\ status[t] = Absent /\ UNCHANGED trail
      BY <1>6 DEF SaveTool
    <2>2. \A v \in Workers : req[v].pc # "emit" /\ req'[v].pc # "emit"
      BY <1>6 DEF SaveTool, Start, Idle, OneWorker, TypeOK
    <2>3. TrailStatus(t) = Absent
      BY <2>1, <2>2 DEF TrailInv
    <2>4. trail[t] = <<>>
      <3> SUFFICES ASSUME trail[t] # <<>> PROVE FALSE
        OBVIOUS
      <3>1. trail[t] \in Seq(Ops)
        BY DEF TypeOK
      <3>2. trail[t][Len(trail[t])] \in Ops
        BY <3>1
      <3> QED  BY <2>3, <3>2 DEF TrailStatus
    <2>5. status'[t] = s /\ saved'[t] = s
      BY <2>1 DEF TypeOK
    <2>6. ASSUME NEW u \in Tools, u # t
          PROVE  status'[u] = status[u] /\ saved'[u] = saved[u]
      BY <2>1, <2>6 DEF TypeOK
    <2> QED  BY <2>1, <2>2, <2>4, <2>5, <2>6 DEF TrailInv, TrailStatus, Linked
  <1>7. CASE UNCHANGED vars
    BY <1>7 DEF vars, TrailInv, TrailStatus, Linked
  <1> QED
    BY <1>2, <1>3, <1>4, <1>5, <1>6, <1>7 DEF Next, Step, Fail

\* One request at a time, no call failing: at rest the trail leads to the status.
THEOREM SerialTrailIsComplete ==
  OneWorker /\ ~MayFail => (Spec => []TrailExplainsStatus)
  <1> SUFFICES ASSUME OneWorker, ~MayFail PROVE Spec => []TrailExplainsStatus
    OBVIOUS
  <1>1. Init => LoadIsFresh /\ TrailInv
    BY DEF Init, LoadIsFresh, TrailInv, TrailStatus, Linked, Idle
  <1>2. TypeOK /\ LoadIsFresh /\ [Next]_vars => LoadIsFresh'
    BY FreshStep
  <1>3. TypeOK /\ LoadIsFresh /\ TrailInv /\ [Next]_vars => TrailInv'
    BY TrailStep
  <1>4. TrailInv => TrailExplainsStatus
    <2> SUFFICES ASSUME TrailInv, \A w \in Workers : req[w] = Idle, NEW t \in Tools
                 PROVE  TrailStatus(t) = status[t] /\ Linked(t)
      BY DEF TrailExplainsStatus, Linked
    <2>1. \A w \in Workers : req[w].pc # "emit"
      BY DEF Idle
    <2> QED  BY <2>1 DEF TrailInv
  <1> QED
    BY <1>1, <1>2, <1>3, <1>4, TypeCorrect, PTL DEF Spec

-----------------------------------------------------------------------------
(***************************************************************************)
(* The executions that the approvals admit.                                *)
(***************************************************************************)

RunRows == [tool: Tools, status: {"RUNNING", "COMPLETED", "FAILED"}]

\* The rows are records; replacing one keeps their number.
LEMMA RowReplaced ==
  ASSUME NEW rows \in Seq(RunRows), NEW i \in DOMAIN rows, NEW row \in RunRows
  PROVE  /\ [rows EXCEPT ![i] = row] \in Seq(RunRows)
         /\ DOMAIN [rows EXCEPT ![i] = row] = DOMAIN rows
  <1>1. /\ rows \in [1 .. Len(rows) -> RunRows] /\ Len(rows) \in Nat
    OBVIOUS
  <1>2. [rows EXCEPT ![i] = row] \in [1 .. Len(rows) -> RunRows]
    BY <1>1
  <1> QED  BY <1>1, <1>2

\* A caller only changes its own execution.
LEMMA ExecutionKeepsApproval ==
  ASSUME NEW c \in Callers, Execution(c)
  PROVE  UNCHANGED vars
  BY DEF Execution, LoadTool, CreateRun, Finish, Abandon

LEMMA GStepImplements == [GNext]_gvars => [Next]_vars
  BY ExecutionKeepsApproval DEF GNext, ApprovalStep, gvars

(***************************************************************************)
(* Seen from the approval lifecycle, executions are stuttering: every step *)
(* of the composition is a step of ToolApproval or leaves it alone.        *)
(***************************************************************************)
THEOREM ImplementsApproval == GSpec => Spec
  <1>1. GInit => Init
    BY DEF GInit
  <1> QED
    BY <1>1, GStepImplements, PTL DEF GSpec, Spec

-----------------------------------------------------------------------------
\* What a caller is about to do says what it holds.
LEMMA BusyCaller ==
  ASSUME GTypeOK, NEW c \in Callers
  PROVE  /\ exec[c] \in Executions
         /\ exec[c].pc # "idle" => exec[c].tool \in Tools
         /\ exec[c].pc = "run" => exec[c].run \in DOMAIN runs
         /\ exec[c].pc = "create" => exec[c] = [pc |-> "create", tool |-> exec[c].tool, run |-> 0]
  <1>1. exec[c] \in Executions
    BY DEF GTypeOK
  <1>2. CASE exec[c] = Resting
    BY <1>1, <1>2 DEF Resting
  <1>3. CASE exec[c] \in [pc: {"create"}, tool: Tools, run: {0}]
    BY <1>1, <1>3
  <1>4. CASE exec[c] \in [pc: {"run"}, tool: Tools, run: DOMAIN runs]
    BY <1>1, <1>4
  <1> QED  BY <1>1, <1>2, <1>3, <1>4 DEF Executions

LEMMA GTypeStep == GTypeOK /\ [GNext]_gvars => GTypeOK'
  <1> SUFFICES ASSUME GTypeOK, [GNext]_gvars PROVE GTypeOK'
    OBVIOUS
  <1>0. TypeOK'
    BY GStepImplements, TypeStep DEF GTypeOK
  <1>1. ASSUME NEW c \in Callers, Execution(c) PROVE GTypeOK'
    <2>1. ASSUME NEW t \in Tools, LoadTool(c, t) PROVE GTypeOK'
      <3>1. exec' \in [Callers -> Executions]
        BY <2>1 DEF LoadTool, GTypeOK, Executions
      <3> QED  BY <1>0, <2>1, <3>1 DEF LoadTool, GTypeOK, Executions
    <2>2. CASE CreateRun(c)
      <3>1. exec[c].tool \in Tools
        BY <2>2, BusyCaller DEF CreateRun
      <3>2. /\ runs' \in Seq([tool: Tools, status: {"RUNNING", "COMPLETED", "FAILED"}])
            /\ DOMAIN runs' = 1 .. Len(runs) + 1
        BY <2>2, <3>1 DEF CreateRun, GTypeOK
      <3>3. DOMAIN runs = 1 .. Len(runs) /\ Len(runs) \in Nat
        BY DEF GTypeOK
      <3>4. exec'[c] = [pc |-> "run", tool |-> exec[c].tool, run |-> Len(runs) + 1]
        BY <2>2, BusyCaller DEF CreateRun, GTypeOK
      <3>5. \A d \in Callers : exec'[d] \in Executions'
        <4> SUFFICES ASSUME NEW d \in Callers PROVE exec'[d] \in Executions'
          OBVIOUS
        <4>1. CASE d = c
          BY <3>1, <3>2, <3>3, <3>4, <4>1 DEF Executions
        <4>2. CASE d # c
          <5>1. exec'[d] = exec[d] /\ exec[d] \in Executions
            BY <2>2, <4>2 DEF CreateRun, GTypeOK
          <5> QED  BY <3>2, <3>3, <5>1 DEF Executions, Resting
        <4> QED  BY <4>1, <4>2
      <3>6. exec' = [d \in Callers |-> exec'[d]]
        BY <2>2 DEF CreateRun, GTypeOK
      <3>7. stale' \in [Tools -> Nat]
        BY <2>2, <3>1 DEF CreateRun, GTypeOK
      <3> QED  BY <1>0, <3>2, <3>5, <3>6, <3>7 DEF GTypeOK
    <2>3. ASSUME NEW s \in {"COMPLETED", "FAILED"}, Finish(c, s) PROVE GTypeOK'
      <3>1. exec[c].run \in DOMAIN runs
        BY <2>3, BusyCaller DEF Finish
      <3>2. /\ runs' \in Seq([tool: Tools, status: {"RUNNING", "COMPLETED", "FAILED"}])
            /\ DOMAIN runs' = DOMAIN runs
        <4> DEFINE row == [runs[exec[c].run] EXCEPT !.status = s]
        <4>1. runs' = [runs EXCEPT ![exec[c].run] = row]
          BY <2>3 DEF Finish
        <4>2. runs \in Seq(RunRows) /\ runs[exec[c].run] \in RunRows
          <5>1. runs \in Seq(RunRows)
            BY DEF GTypeOK, RunRows
          <5> QED  BY <3>1, <5>1
        <4>3. row \in RunRows
          BY <4>2 DEF RunRows
        <4> HIDE DEF row
        <4>4. runs' \in Seq(RunRows) /\ DOMAIN runs' = DOMAIN runs
          BY <3>1, <4>1, <4>2, <4>3, RowReplaced
        <4> QED  BY <4>4 DEF RunRows
      <3>3. exec' \in [Callers -> Executions']
        BY <2>3, <3>2 DEF Finish, GTypeOK, Executions
      <3> QED  BY <1>0, <2>3, <3>2, <3>3 DEF Finish, GTypeOK
    <2>4. CASE Abandon(c)
      BY <1>0, <2>4 DEF Abandon, GTypeOK, Executions
    <2> QED  BY <1>1, <2>1, <2>2, <2>3, <2>4 DEF Execution
  <1>2. CASE ApprovalStep
    BY <1>0, <1>2 DEF ApprovalStep, GTypeOK, Executions
  <1>3. CASE UNCHANGED gvars
    BY <1>0, <1>3 DEF gvars, GTypeOK, Executions
  <1> QED  BY <1>1, <1>2, <1>3 DEF GNext

(***************************************************************************)
(* The variables of the composition keep their types.                      *)
(***************************************************************************)
THEOREM GTypeCorrect == GSpec => []GTypeOK
  <1>1. GInit => GTypeOK
    BY ToolApprovalAssumption DEF GInit, Init, TypeOK, GTypeOK, Executions, Resting, Idle
  <1> QED
    BY <1>1, GTypeStep, PTL DEF GSpec

-----------------------------------------------------------------------------
(***************************************************************************)
(* Revocation takes hold.  The invariant is inductive: leaving approved    *)
(* starts the count at zero with the admitted callers still to come, each  *)
(* stale run takes one of them away, and nobody is admitted any more.       *)
(***************************************************************************)
LEMMA AdmittedFinite ==
  ASSUME NEW t \in Tools
  PROVE  /\ IsFiniteSet(Admitted(t))
         /\ Cardinality(Admitted(t)) \in Nat
         /\ Cardinality(Callers) \in Nat
         /\ Cardinality(Admitted(t)) <= Cardinality(Callers)
  <1>1. Admitted(t) \subseteq Callers
    BY DEF Admitted
  <1> QED
    BY <1>1, GatedAssumption, FS_Subset, FS_CardinalityType

LEMMA StaleInit == GInit => StaleRunsAreBounded
  <1> SUFFICES ASSUME GInit, NEW t \in Tools
               PROVE  stale[t] + Cardinality(Admitted(t)) <= Cardinality(Callers)
    BY DEF StaleRunsAreBounded
  <1>1. stale[t] = 0
    BY DEF GInit
  <1> QED  BY <1>1, AdmittedFinite

LEMMA StaleStep ==
  GTypeOK /\ StaleRunsAreBounded /\ [GNext]_gvars => StaleRunsAreBounded'
  <1> SUFFICES ASSUME GTypeOK, StaleRunsAreBounded, [GNext]_gvars,
                      NEW t \in Tools, status'[t] # "approved"
               PROVE  stale'[t] + Cardinality(Admitted(t)') <= Cardinality(Callers)
    BY DEF StaleRunsAreBounded
  <1> USE DEF GTypeOK
  <1>0. /\ IsFiniteSet(Admitted(t)) /\ Cardinality(Admitted(t)) \in Nat
        /\ Cardinality(Callers) \in Nat /\ stale[t] \in Nat
        /\ Cardinality(Admitted(t)) <= Cardinality(Callers)
    BY AdmittedFinite
  <1>1. status[t] # "approved" => stale[t] + Cardinality(Admitted(t)) <= Cardinality(Callers)
    BY DEF StaleRunsAreBounded
  <1>2. ASSUME Admitted(t)' = Admitted(t), stale'[t] = stale[t], status'[t] = status[t]
        PROVE  stale'[t] + Cardinality(Admitted(t)') <= Cardinality(Callers)
    BY <1>1, <1>2
  <1>3. CASE ApprovalStep
    <2>1. Admitted(t)' = Admitted(t)
      BY <1>3 DEF ApprovalStep, Admitted
    <2>2. CASE status[t] = "approved"
      <3>1. stale'[t] = 0
        BY <1>3, <2>2 DEF ApprovalStep
      <3> QED  BY <1>0, <2>1, <3>1
    <2>3. CASE status[t] # "approved"
      <3>1. stale'[t] = stale[t]
        BY <1>3, <2>3 DEF ApprovalStep
      <3> QED  BY <1>1, <2>1, <2>3, <3>1
    <2> QED  BY <2>2, <2>3
  <1>4. ASSUME NEW c \in Callers, Execution(c)
        PROVE  stale'[t] + Cardinality(Admitted(t)') <= Cardinality(Callers)
    <2>0. status' = status
      BY <1>4, ExecutionKeepsApproval DEF vars
    <2>1. ASSUME NEW u \in Tools, LoadTool(c, u)
          PROVE  Admitted(t)' = Admitted(t) /\ stale'[t] = stale[t]
      <3>1. u # t
        BY <2>0, <2>1 DEF LoadTool
      <3>2. exec[c].pc # "create"
        BY <2>1 DEF LoadTool, Resting
      <3> QED  BY <2>1, <3>1, <3>2 DEF LoadTool, Admitted
    <2>2. CASE CreateRun(c) /\ exec[c].tool = t
      <3>1. c \in Admitted(t)
        BY <2>2 DEF CreateRun, Admitted
      <3>2. Admitted(t)' = Admitted(t) \ {c}
        BY <2>2 DEF CreateRun, Admitted
      <3>3. Cardinality(Admitted(t)') = Cardinality(Admitted(t)) - 1
        BY <1>0, <3>1, <3>2, FS_RemoveElement
      <3>4. stale'[t] = stale[t] + 1
        BY <2>0, <2>2 DEF CreateRun
      <3> QED  BY <1>0, <1>1, <2>0, <3>3, <3>4
    <2>3. CASE CreateRun(c) /\ exec[c].tool # t
      <3>1. Admitted(t)' = Admitted(t)
        BY <2>3 DEF CreateRun, Admitted
      <3>2. stale'[t] = stale[t]
        BY <2>3 DEF CreateRun
      <3> QED  BY <1>2, <2>0, <3>1, <3>2
    <2>4. ASSUME NEW s \in {"COMPLETED", "FAILED"}, Finish(c, s)
          PROVE  Admitted(t)' = Admitted(t) /\ stale'[t] = stale[t]
      BY <2>4 DEF Finish, Admitted, Resting
    <2>5. CASE Abandon(c)
      <3>1. Admitted(t)' \subseteq Admitted(t) /\ stale'[t] = stale[t]
        BY <2>5 DEF Abandon, Admitted, Resting
      <3>2. Cardinality(Admitted(t)') \in Nat
            /\ Cardinality(Admitted(t)') <= Cardinality(Admitted(t))
        BY <1>0, <3>1, FS_Subset, FS_CardinalityType
      <3> QED  BY <1>0, <1>1, <2>0, <3>1, <3>2
    <2> QED  BY <1>2, <1>4, <2>0, <2>1, <2>2, <2>3, <2>4, <2>5 DEF Execution
  <1>5. CASE UNCHANGED gvars
    BY <1>2, <1>5 DEF gvars, vars, Admitted
  <1> QED  BY <1>3, <1>4, <1>5 DEF GNext

(***************************************************************************)
(* However approvals and executions overlap: between leaving approved and  *)
(* being approved again, a tool is started at most once by each thread.    *)
(***************************************************************************)
THEOREM RevocationTakesHold == GSpec => []StaleRunsAreBounded
  BY StaleInit, StaleStep, GTypeCorrect, PTL DEF GSpec

-----------------------------------------------------------------------------
(***************************************************************************)
(* Runs are earned: the gate saw the tool approved, statuses a tool had    *)
(* are never forgotten, and approved is reached from pending only.         *)
(***************************************************************************)
ToolsWereApproved ==
  /\ \A c \in Callers : exec[c].pc = "create" => "approved" \in visited[exec[c].tool]
  /\ \A r \in DOMAIN runs : "approved" \in visited[runs[r].tool]

LEMMA VisitedGrows ==
  ASSUME TypeOK, HistoryInv, [Next]_vars, NEW t \in Tools, NEW s \in visited[t]
  PROVE  s \in visited'[t]
  <1> USE DEF TypeOK
  <1>1. ASSUME NEW w \in Workers, Step(w) PROVE s \in visited'[t]
    <2>1. ASSUME UpdateStatus(w) PROVE s \in visited'[t]
      <3>1. PICK r : visited' = [visited EXCEPT ![req[w].tool] = @ \cup {r}]
        BY <2>1 DEF UpdateStatus
      <3> QED  BY <3>1
    <2>2. Load(w) \/ Emit(w) => visited' = visited
      BY DEF Load, Emit
    <2> QED  BY <1>1, <2>1, <2>2 DEF Step
  <1>2. ASSUME NEW w \in Workers, NEW u \in Tools, NEW r \in Statuses,
               NEW auto \in BOOLEAN, SaveTool(w, u, r, auto)
        PROVE  s \in visited'[t]
    BY <1>2 DEF SaveTool, HistoryInv, CurrentStatusVisited
  <1>3. ASSUME NEW w \in Workers, Fail(w) PROVE s \in visited'[t]
    BY <1>3 DEF Fail
  <1>4. ASSUME NEW w \in Workers, NEW u \in Tools, NEW op \in CallableOps,
               Request(w, u, op)
        PROVE  s \in visited'[t]
    BY <1>4 DEF Request
  <1>5. CASE UNCHANGED vars
    BY <1>5 DEF vars
  <1> QED  BY <1>1, <1>2, <1>3, <1>4, <1>5 DEF Next

LEMMA ApprovedStep ==
  GTypeOK /\ HistoryInv /\ ToolsWereApproved /\ [GNext]_gvars => ToolsWereApproved'
  <1> SUFFICES ASSUME GTypeOK, HistoryInv, ToolsWereApproved, [GNext]_gvars
               PROVE  ToolsWereApproved'
    OBVIOUS
  <1>0. /\ \A c \in Callers : exec[c].pc = "create" => exec[c].tool \in Tools
        /\ \A r \in DOMAIN runs : runs[r].tool \in Tools
    <2>1. runs \in Seq(RunRows)
      BY DEF GTypeOK, RunRows
    <2>2. \A r \in DOMAIN runs : runs[r] \in RunRows
      BY <2>1
    <2> QED  BY <2>2, BusyCaller DEF RunRows
  <1>1. ASSUME UNCHANGED <<exec, runs>> PROVE ToolsWereApproved'
    <2>1. TypeOK /\ [Next]_vars
      BY GStepImplements DEF GTypeOK
    <2> QED  BY <1>0, <1>1, <2>1, VisitedGrows DEF ToolsWereApproved
  <1>2. ASSUME NEW c \in Callers, NEW t \in Tools, LoadTool(c, t) PROVE ToolsWereApproved'
    <2>1. "approved" \in visited[t]
      BY <1>2 DEF LoadTool, HistoryInv, CurrentStatusVisited
    <2> QED  BY <1>2, <2>1 DEF LoadTool, ToolsWereApproved, GTypeOK, vars
  <1>3. ASSUME NEW c \in Callers, CreateRun(c) PROVE ToolsWereApproved'
    <2>1. /\ visited' = visited
          /\ \A d \in Callers : exec'[d].pc = "create" => exec'[d] = exec[d]
      BY <1>3 DEF CreateRun, GTypeOK, vars
    <2>2. \A r \in DOMAIN runs' : runs'[r].tool = exec[c].tool \/ (r \in DOMAIN runs /\ runs'[r] = runs[r])
      BY <1>3 DEF CreateRun, GTypeOK
    <2>3. "approved" \in visited[exec[c].tool]
      BY <1>3 DEF CreateRun, ToolsWereApproved
    <2> QED  BY <2>1, <2>2, <2>3 DEF ToolsWereApproved
  <1>4. ASSUME NEW c \in Callers, NEW s \in {"COMPLETED", "FAILED"}, Finish(c, s)
        PROVE  ToolsWereApproved'
    <2>1. /\ visited' = visited
          /\ \A d \in Callers : exec'[d].pc = "create" => exec'[d] = exec[d]
      BY <1>4 DEF Finish, GTypeOK, vars, Resting
    <2>2. DOMAIN runs' = DOMAIN runs /\ \A r \in DOMAIN runs : runs'[r].tool = runs[r].tool
      BY <1>4 DEF Finish, GTypeOK
    <2> QED  BY <2>1, <2>2 DEF ToolsWereApproved
  <1>5. ASSUME NEW c \in Callers, Abandon(c) PROVE ToolsWereApproved'
    <2>1. /\ visited' = visited /\ runs' = runs
          /\ \A d \in Callers : exec'[d].pc = "create" => exec'[d] = exec[d]
      BY <1>5 DEF Abandon, GTypeOK, vars, Resting
    <2> QED  BY <2>1 DEF ToolsWereApproved
  <1>6. CASE ApprovalStep
    BY <1>1, <1>6 DEF ApprovalStep
  <1>7. CASE UNCHANGED gvars
    BY <1>1, <1>7 DEF gvars
  <1> QED  BY <1>2, <1>3, <1>4, <1>5, <1>6, <1>7 DEF GNext, Execution

LEMMA EarnedFromHistory == GTypeOK /\ HistoryInv /\ ToolsWereApproved => RunsAreEarned
  <1> SUFFICES ASSUME GTypeOK, HistoryInv, ToolsWereApproved, NEW r \in DOMAIN runs
               PROVE  \/ saved[runs[r].tool] = "approved"
                      \/ {"pending_approval", "approved"} \subseteq visited[runs[r].tool]
    BY DEF RunsAreEarned
  <1>1. runs[r].tool \in Tools /\ "approved" \in visited[runs[r].tool]
    <2>1. runs \in Seq(RunRows)
      BY DEF GTypeOK, RunRows
    <2>2. runs[r] \in RunRows
      BY <2>1
    <2> QED  BY <2>2 DEF RunRows, ToolsWereApproved
  <1>2. \/ saved[runs[r].tool] = "approved"
        \/ \E op \in Ops : Target[op] = "approved" /\ Source[op] \in visited[runs[r].tool]
    BY <1>1 DEF HistoryInv, EveryStatusEarned
  <1>3. \A op \in Ops : Target[op] = "approved" => Source[op] = "pending_approval"
    OBVIOUS
  <1> QED  BY <1>1, <1>2, <1>3

(***************************************************************************)
(* For any number of overlapping requests, failures and executions: what   *)
(* has run was saved as approved, or went through pending_approval.        *)
(***************************************************************************)
THEOREM OnlyEarnedToolsRun == GSpec => []RunsAreEarned
  <1>1. GInit => HistoryInv
    BY HistoryInit DEF GInit
  <1>2. GInit => ToolsWereApproved
    BY DEF GInit, ToolsWereApproved, Resting
  <1>3. GTypeOK /\ HistoryInv /\ [GNext]_gvars => HistoryInv'
    BY GStepImplements, HistoryStep DEF GTypeOK
  <1> QED
    BY <1>1, <1>2, <1>3, ApprovedStep, EarnedFromHistory, GTypeCorrect, PTL DEF GSpec
=============================================================================
