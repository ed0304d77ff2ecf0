--------------------------- MODULE ToolLifecycle ---------------------------
(***************************************************************************)
(* The abstract approval lifecycle of a ToolDefinition: what the header of *)
(* core/engine/approval.py promises.  A tool is saved once and from then   *)
(* on its status moves only along five edges, one edge at a time.          *)
(***************************************************************************)
CONSTANT Tools          \* the ids of the tools that may be saved

VARIABLE status         \* the status each tool has, or Absent

Statuses == {"draft", "pending_approval", "approved", "deprecated"}
Absent   == "absent"

\* One operation of the lifecycle per edge.
Ops == {"submit", "approve", "reject", "revoke", "deprecate"}

\* The status an operation requires, and the one it leaves the tool in.
Source == [submit    |-> "draft",
           approve   |-> "pending_approval",
           reject    |-> "pending_approval",
           revoke    |-> "approved",
           deprecate |-> "approved"]

Target == [submit    |-> "pending_approval",
           approve   |-> "approved",
           reject    |-> "draft",
           revoke    |-> "draft",
           deprecate |-> "deprecated"]

Init == status = [t \in Tools |-> Absent]

\* A definition is saved with the status it carries.
Save(t, s) ==
  /\ status[t] = Absent
  /\ status' = [status EXCEPT ![t] = s]

\* One transition, taken from the status it requires.
Move(t, op) ==
  /\ status[t] = Source[op]
  /\ status' = [status EXCEPT ![t] = Target[op]]

Next ==
  \E t \in Tools :
    \/ \E s \in Statuses : Save(t, s)
    \/ \E op \in Ops : Move(t, op)

Spec == Init /\ [][Next]_status
=============================================================================
