----------------------------- MODULE ToolSchema -----------------------------
(***************************************************************************)
(* validate_tool_definition of core/engine/schema.py: what is accepted of  *)
(* a JSON value that describes an engine tool, and the ToolDefinition that *)
(* is built of it.  The same function reads a stored definition back, at   *)
(* every use of the tool (get_tool, list_tools), so that what was accepted *)
(* once has to be accepted for ever.  Pure operators.                      *)
(*                                                                         *)
(* A JSON value is [is, v]; true counts as 1, as it does in the code.      *)
(***************************************************************************)
EXTENDS Integers, Sequences, FiniteSets

CONSTANT Tweaks  \* bound: what described tools have in place of an ordinary one's,
                 \* a sequence of <<part, key, value>>

Str(s)  == [is |-> "str", v |-> s]
Num(n)  == [is |-> "int", v |-> n]
List(s) == [is |-> "list", v |-> s]
Dict(o) == [is |-> "dict", v |-> o]
Bool(b) == [is |-> "bool", v |-> b]
Null    == [is |-> "null", v |-> 0]
Unset  == [is |-> "absent", v |-> 0]

Of(o, key) == IF o.is = "dict" /\ key \in DOMAIN o.v THEN o.v[key] ELSE Unset

\* What is said to be a list is one, and the nodes in it are.
IsList(x) == x.is = "list" => x.v \in Seq({x.v[i] : i \in DOMAIN x.v})

ASSUME TweaksAreJson ==
  \A i \in DOMAIN Tweaks : IsList(Tweaks[i][3]) /\ IsList(Of(Tweaks[i][3], "nodes"))

\* str.strip, of the strings that occur.
Strip(s) == CASE s = " " -> "" [] s = " a" -> "a" [] OTHER -> s

\* What `or` passes over.
Falsy(x) == \/ x.is \in {"null", "absent"}
            \/ (x.is = "str" /\ x.v = "")
            \/ (x.is = "int" /\ x.v = 0)
            \/ (x.is = "bool" /\ ~x.v)
            \/ (x.is = "list" /\ x.v = <<>>)
            \/ (x.is = "dict" /\ DOMAIN x.v = {})

\* What stands for what is not there.
Or(x, default)    == IF Falsy(x) THEN default ELSE x.v
Else(x, default)  == IF x.is \in {"absent", "null"} THEN default ELSE x.v
Many(x)           == IF x.is = "list" THEN x.v ELSE <<>>

-----------------------------------------------------------------------------
\* The kinds of checks.
Text(x)        == x.is = "str" /\ Strip(x.v) # ""
\* Mutant of Whole: a number is enough.
WholeAny(x, least) == x.is \in {"absent", "int"}

Whole(x, least) == x.is = "absent" \/ (x.is = "int" /\ x.v >= least)
OneOf(x, enum) == x.is \in {"absent", "null"} \/ (x.is = "str" /\ x.v \in enum)
Given(x, kind) == x.is \in {"absent", kind}
OrNull(x, kind) == x.is \in {"absent", "null", kind}
\* list() of it does not raise.
Listable(x)    == Falsy(x) \/ x.is \in {"list", "str", "dict"}

ToolStatus    == {"draft", "pending_approval", "approved", "deprecated"}
TriggerType   == {"manual", "scheduled", "webhook", "event"}
FailureMode   == {"fail_graph", "skip_node", "continue_graph"}
ApprovalLevel == {"none", "user", "admin", "multi_party"}

\* _build_retry_config
RetryFits(r) ==
  /\ Given(r, "dict")
  /\ Whole(Of(r, "max_attempts"), 1) /\ Whole(Of(r, "backoff_ms"), 0)
  /\ Given(Of(r, "retryable_errors"), "list")

\* _build_action_node; what is not a dict has no id.
NodeFits(n) ==
  /\ Text(Of(n, "id")) /\ Text(Of(n, "action_type"))
  /\ Given(Of(n, "params"), "dict") /\ Given(Of(n, "template_refs"), "dict")
  /\ Whole(Of(n, "timeout_ms"), 1)
  /\ OrNull(Of(n, "condition"), "str")
  /\ OneOf(Of(n, "on_failure"), FailureMode)
  /\ RetryFits(Of(n, "retry"))

\* _build_action_edge
EdgeFits(e) ==
  /\ Text(Of(e, "from_node_id")) /\ Text(Of(e, "to_node_id"))
  /\ OrNull(Of(e, "condition"), "str")

SpecFits(s) == Text(Of(s, "name"))

-----------------------------------------------------------------------------
\* What is built.  Parts that are copied as they are, are left out.

BuiltNode(n) ==
  [id |-> Strip(Of(n, "id").v), action_type |-> Strip(Of(n, "action_type").v),
   timeout_ms |-> Else(Of(n, "timeout_ms"), 30000),
   max_attempts |-> Else(Of(Of(n, "retry"), "max_attempts"), 1),
   on_failure |-> Else(Of(n, "on_failure"), "fail_graph")]

BuiltGraph(g) ==
  LET nodes == Many(Of(g, "nodes"))
      edges == Many(Of(g, "edges"))
      entry == Strip(Else(Of(g, "entry_node_id"), ""))
  IN [nodes |-> [i \in DOMAIN nodes |-> BuiltNode(nodes[i])],
      edges |-> [i \in DOMAIN edges |->
                   <<Strip(Of(edges[i], "from_node_id").v),
                     Strip(Of(edges[i], "to_node_id").v)>>],
      entry |-> IF entry = "" THEN Strip(Of(nodes[1], "id").v) ELSE entry]

NewId == "uuid"
Built(raw) ==
  [id       |-> Or(Of(raw, "id"), NewId),
   name     |-> Strip(Of(raw, "name").v),
   version  |-> Strip(Of(raw, "version").v),
   status   |-> Else(Of(raw, "status"), "draft"),
   trigger  |-> Else(Of(Of(raw, "trigger"), "type"), "manual"),
   graph    |-> BuiltGraph(Of(raw, "graph")),
   inputs   |-> [i \in DOMAIN Many(Of(raw, "inputs")) |->
                   Strip(Of(Of(raw, "inputs").v[i], "name").v)],
   required |-> LET x == Of(Of(raw, "approval"), "required")
                IN x.is = "absent" \/ ~Falsy(x),
   level    |-> Else(Of(Of(raw, "approval"), "level"), "admin")]

\* validate_execution_graph, of what was built; cycles are found when it runs.
GraphIsSound(graph) ==
  LET ids == {graph.nodes[i].id : i \in DOMAIN graph.nodes}
  IN /\ Cardinality(ids) = Len(graph.nodes)
     /\ graph.entry \in ids
     /\ \A i \in DOMAIN graph.edges : {graph.edges[i][1], graph.edges[i][2]} \subseteq ids

GraphFits(g) ==
  /\ g.is = "dict"
  /\ Of(g, "nodes").is = "list" /\ Of(g, "nodes").v # <<>>
  /\ Given(Of(g, "edges"), "list")
  /\ \A i \in DOMAIN Of(g, "nodes").v : NodeFits(Of(g, "nodes").v[i])
  /\ \A i \in DOMAIN Many(Of(g, "edges")) : EdgeFits(Of(g, "edges").v[i])
  /\ Given(Of(g, "entry_node_id"), "str")
  /\ GraphIsSound(BuiltGraph(g))

ApprovalFits(a) ==
  \/ Falsy(a)
  \/ /\ a.is = "dict"
     /\ OneOf(Of(a, "level"), ApprovalLevel)
     /\ Listable(Of(a, "approvers"))
SpecsFit(x) == Falsy(x) \/ (x.is = "list" /\ \A i \in DOMAIN x.v : SpecFits(x.v[i]))

\* What is accepted; anything else raises, and nothing is saved.
Fits(raw) ==
  /\ raw.is = "dict"
  /\ Falsy(Of(raw, "id")) \/ Of(raw, "id").is = "str"
  /\ Text(Of(raw, "name")) /\ Text(Of(raw, "version"))
  /\ OrNull(Of(raw, "description"), "str")
  /\ OneOf(Of(raw, "status"), ToolStatus)
  /\ Of(raw, "trigger").is = "dict" /\ OneOf(Of(Of(raw, "trigger"), "type"), TriggerType)
  /\ GraphFits(Of(raw, "graph"))
  /\ SpecsFit(Of(raw, "inputs")) /\ SpecsFit(Of(raw, "outputs"))
  /\ ApprovalFits(Of(raw, "approval"))
  /\ \A key \in {"schedule", "ai", "metadata"} :
       Falsy(Of(raw, key)) \/ Of(raw, key).is = "dict"

\* _to_json: the definition as it is stored.
StoredNode(n) ==
  Dict([id |-> Str(n.id), action_type |-> Str(n.action_type),
        params |-> Dict(<<>>), template_refs |-> Dict(<<>>),
        timeout_ms |-> Num(n.timeout_ms), condition |-> Null,
        on_failure |-> Str(n.on_failure),
        retry |-> Dict([max_attempts |-> Num(n.max_attempts)])])

StoredEdge(e) ==
  Dict([from_node_id |-> Str(e[1]), to_node_id |-> Str(e[2]), condition |-> Null])

StoredGraph(g) ==
  Dict([nodes |-> List([i \in DOMAIN g.nodes |-> StoredNode(g.nodes[i])]),
        edges |-> List([i \in DOMAIN g.edges |-> StoredEdge(g.edges[i])]),
        entry_node_id |-> Str(g.entry)])

Stored(tool) ==
  Dict([id |-> Str(tool.id), name |-> Str(tool.name), version |-> Str(tool.version),
        description |-> Str(""), status |-> Str(tool.status),
        trigger |-> Dict([type |-> Str(tool.trigger)]),
        graph |-> StoredGraph(tool.graph),
        inputs |-> List([i \in DOMAIN tool.inputs |-> Dict([name |-> Str(tool.inputs[i])])]),
        outputs |-> List(<<>>),
        approval |-> Dict([required |-> Bool(tool.required), level |-> Str(tool.level),
                           approvers |-> List(<<>>)]),
        schedule |-> Dict([schedule_type |-> Null]), ai |-> Dict(<<>>),
        metadata |-> Dict(<<>>)])

-----------------------------------------------------------------------------
\* The tools described: an ordinary one of two nodes, with up to two of its
\* values replaced; what is in parts of its own stands as absent.
Ordinary == [
  tool     |-> [id |-> Str("t"), name |-> Str("name"), version |-> Str("1"),
                description |-> Unset, status |-> Unset, trigger |-> Dict(<<>>),
                graph |-> Unset, inputs |-> List(<<Dict([name |-> Str(" a")])>>),
                outputs |-> Unset, approval |-> Unset, schedule |-> Unset,
                ai |-> Unset, metadata |-> Unset],
  graph    |-> [nodes |-> Unset, edges |-> Unset, entry_node_id |-> Str(" a")],
  node     |-> [id |-> Str(" a"), action_type |-> Str("email"), params |-> Unset,
                timeout_ms |-> Num(5), condition |-> Unset, on_failure |-> Null,
                retry |-> Unset],
  other    |-> [id |-> Str("b"), action_type |-> Str("report")],
  retry    |-> [max_attempts |-> Num(2), backoff_ms |-> Unset,
                retryable_errors |-> Unset],
  edge     |-> [from_node_id |-> Str("a"), to_node_id |-> Str("b"),
                condition |-> Unset],
  approval |-> [required |-> Unset, level |-> Null, approvers |-> Unset]]

Described(t, u) ==
  LET d == [Ordinary EXCEPT ![t[1]][t[2]] = t[3], ![u[1]][u[2]] = u[3]]
      Unless(x, part) == IF x.is = "absent" THEN part ELSE x
      node  == Dict([d.node EXCEPT !.retry = Unless(@, Dict(d.retry))])
      graph == Dict([d.graph EXCEPT
                       !.nodes = Unless(@, List(<<node, Dict(d.other)>>)),
                       !.edges = Unless(@, List(<<Dict(d.edge)>>))])
  IN Dict([d.tool EXCEPT !.graph = Unless(@, graph),
                         !.approval = Unless(@, Dict(d.approval))])

(***************************************************************************)
(* What is accepted can be stored and read back for ever: it is accepted   *)
(* again, as the same tool; and it has a graph the runtime can take, whose *)
(* nodes are known by their ids, may be tried and have a policy.           *)
(***************************************************************************)
LoadsAgain(raw) ==
  LET tool == Built(raw)
  IN /\ Fits(Stored(tool)) /\ Built(Stored(tool)) = tool
     /\ \A m, n \in DOMAIN tool.graph.nodes :
          tool.graph.nodes[m].id = tool.graph.nodes[n].id => m = n
     /\ \A n \in DOMAIN tool.graph.nodes :
          /\ tool.graph.nodes[n].max_attempts >= 1
          /\ tool.graph.nodes[n].on_failure \in FailureMode

ToolsLoadAgain ==
  \A i \in DOMAIN Tweaks, j \in DOMAIN Tweaks : i <= j =>
    LET raw == Described(Tweaks[i], Tweaks[j])
    IN Fits(raw) => LoadsAgain(raw)
=============================================================================
