---------------------------- MODULE ToolPlanning ----------------------------
(***************************************************************************)
(* plan_tool of core/engine/planner.py: what IntentComposer proposes for a *)
(* text becomes the description of an engine tool, a chain of nodes, or,   *)
(* if it cannot, of a placeholder for an administrator to look at.         *)
(***************************************************************************)
EXTENDS IntentComposer, ToolSchema

\* A slug of the name or the text, never empty, and the ids by position.
Slug    == "slug"
NodeIds == <<"node_1", "node_2", "node_3", "node_4", "node_5">>

\* What is the same in both descriptions.
Draft_(source, nodes) ==
  Dict([name |-> Str(Slug), version |-> Str("1.0.0"), description |-> Str("goal"),
        status |-> Str("draft"), trigger |-> Dict([type |-> Str("manual")]),
        inputs |-> List(<<>>),
        graph |-> Dict([
          entry_node_id |-> Of(nodes[1], "id"), nodes |-> List(nodes),
          edges |-> List([i \in 1 .. Len(nodes) - 1 |->
                            Dict([from_node_id |-> Of(nodes[i], "id"),
                                  to_node_id |-> Of(nodes[i + 1], "id")])])]),
        approval |-> Dict([required |-> Bool(TRUE), level |-> Str("admin")]),
        metadata |-> Dict([source |-> Str(source)])])

PlannedNode(id, action) == Dict([id |-> Str(id), action_type |-> Str(action)])

\* _map_proposal_to_raw
Mapped(steps, source) ==
  Draft_(source, [i \in DOMAIN steps |-> PlannedNode(NodeIds[i], steps[i])])

\* _placeholder_raw
Placeholder == Draft_("user_defined", <<PlannedNode(NodeIds[1], "manual_review_required")>>)

\* plan_tool
Planned(steps, source) == IF steps = <<>> THEN Placeholder ELSE Mapped(steps, source)

\* What may be proposed, see EveryTextComposes: some of the steps, in their order.
Proposable ==
  {InOrder(StepTypes, some) : some \in SUBSET ToSetOf(StepTypes)}
    \cup {InOrder(PrimitiveTypes, some) : some \in SUBSET ToSetOf(PrimitiveTypes)}

(***************************************************************************)
(* "Never raises": whatever the composer proposes, what is planned of it   *)
(* is accepted, now and when the client sends it back to be saved; it is a *)
(* draft that an administrator has to approve; and it does the steps of    *)
(* the proposal, one after the other.                                      *)
(***************************************************************************)
EveryPlanIsADraft ==
  \A steps \in Proposable, source \in {"rule_based", "ai_assisted"} :
    LET raw  == Planned(steps, source)
        tool == Built(raw)
        g    == tool.graph
    IN /\ Fits(raw) /\ Fits(Stored(tool)) /\ Built(Stored(tool)) = tool
       /\ tool.status = "draft" /\ tool.required /\ tool.level = "admin"
       /\ steps # <<>> => [i \in DOMAIN g.nodes |-> g.nodes[i].action_type] = steps
       /\ g.entry = g.nodes[1].id
       /\ \A i \in 1 .. Len(g.nodes) - 1 : g.edges[i] = <<g.nodes[i].id, g.nodes[i + 1].id>>
=============================================================================
