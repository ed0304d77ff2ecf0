-------------------------- MODULE MCAdministration --------------------------
(* Instances of Administration for TLC. *)
EXTENDS Administration, TLC

\* A report with and without a dataset; EveryTextComposes is about the others.
MCIntents == {<<{"report"}, TRUE>>, <<{"report"}, FALSE>>}

\* What may stand in the description of an engine tool.
MCTweaks == <<
  <<"tool", "ai", Unset>>,
  <<"tool", "id", Unset>>, <<"tool", "id", Str("")>>, <<"tool", "id", Str(" ")>>,
  <<"tool", "id", Num(7)>>, <<"tool", "name", Str(" a")>>, <<"tool", "name", Str(" ")>>,
  <<"tool", "version", Null>>, <<"tool", "description", Num(0)>>,
  <<"tool", "status", Str("approved")>>, <<"tool", "status", Str("gone")>>,
  <<"tool", "trigger", Null>>, <<"tool", "trigger", Dict([type |-> Str("event")])>>,
  <<"tool", "inputs", Null>>, <<"tool", "inputs", Dict(<<>>)>>,
  <<"tool", "inputs", List(<<Null>>)>>, <<"tool", "metadata", List(<<Null>>)>>,
  <<"graph", "nodes", Null>>, <<"graph", "edges", Null>>,
  <<"graph", "entry_node_id", Unset>>, <<"graph", "entry_node_id", Str(" ")>>,
  <<"graph", "entry_node_id", Str("c")>>, <<"graph", "entry_node_id", Null>>,
  <<"node", "id", Str("a")>>, <<"node", "id", Str("b")>>, <<"node", "id", Str(" ")>>,
  <<"node", "action_type", Unset>>, <<"node", "params", Null>>,
  <<"node", "timeout_ms", Num(0)>>, <<"node", "timeout_ms", Unset>>,
  <<"node", "on_failure", Str("skip_node")>>, <<"node", "on_failure", Str("stop")>>,
  <<"node", "condition", Str("")>>,
  <<"other", "id", Str(" a")>>, <<"other", "id", Str("a")>>,
  <<"retry", "max_attempts", Num(0)>>, <<"retry", "max_attempts", Unset>>,
  <<"retry", "backoff_ms", Num(-1)>>, <<"retry", "retryable_errors", Null>>,
  <<"edge", "from_node_id", Str("b")>>, <<"edge", "to_node_id", Str(" a")>>,
  <<"edge", "to_node_id", Str("c")>>,
  <<"approval", "required", Null>>, <<"approval", "required", Bool(FALSE)>>,
  <<"approval", "level", Str("none")>>, <<"approval", "approvers", Num(1)>>>>

Symmetry == Permutations(Workers) \cup Permutations(Threads)
=============================================================================
