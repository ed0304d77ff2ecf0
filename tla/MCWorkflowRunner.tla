-------------------------- MODULE MCWorkflowRunner --------------------------
EXTENDS WorkflowRunner

Step(id, type, when) == [id |-> id, type |-> type, when |-> when]
Plain(type)          == Step(0, type, {})
If(of, field, equal, value) ==
  {[of |-> of, field |-> field, equal |-> equal, value |-> value]}
Multi(dataset, dry, steps) ==
  [kind |-> "steps", dataset |-> dataset, dry |-> dry, steps |-> steps]
Plan(steps) ==
  [kind |-> "plan", dataset |-> 0, dry |-> FALSE, steps |-> steps]
Prio(p, type) == [priority |-> p, type |-> type, id |-> 0]

MCWorkflows == {
  Multi(0, FALSE, <<Plain("generate"), Step(0, "email", If(1, "status", TRUE, "completed"))>>),
  Multi(1, FALSE, <<Plain("generate"), Plain("email")>>),
  Multi(0, FALSE, <<Plain("email"), Step(0, "notify", If(1, "sent", FALSE, "True"))>>),
  Multi(0, FALSE, <<Step(2, "analyze", {}), Step(0, "notify", If(2, "status", FALSE, "completed")),
                    Step(0, "email", If(2, "status", TRUE, "skipped"))>>),
  Multi(0, FALSE, <<Plain("generate"), Plain("generate"), Plain("email")>>),
  Multi(0, TRUE,  <<Plain("generate"), Step(0, "email", If(3, "status", TRUE, "completed")), Plain("notify")>>),
  Multi(1, FALSE, <<Step(5, "analyze", {}), Step(0, "notify", If(5, "status", TRUE, "skipped"))>>),
  Plan(<<Prio(2, "http"), Prio(1, "email"), Prio(2, "fetch")>>),
  Plan(<<Prio(3, "notify"), Prio(1, "fetch"), Prio(2, "unhandled")>>)}
=============================================================================
