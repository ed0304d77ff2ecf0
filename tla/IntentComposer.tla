--------------------------- MODULE IntentComposer ---------------------------
(***************************************************************************)
(* What core/composer/intent_composer.py proposes for a text: the steps of *)
(* a workflow, or the primitives of a dynamic tool, what it asks for, and  *)
(* how risky it is.  A text is the set of the telling words it contains;   *)
(* Words has one for each combination of word lists that words are on.     *)
(* A model may then refine the proposal, within limits.  Pure operators.   *)
(***************************************************************************)
EXTENDS Naturals, Sequences, FiniteSets

Words == {"report", "dataset", "analysis", "monitor", "drift", "trend", "notify", "ping",
          "email", "mailing", "remind", "fetch", "parse", "template", "api"}

WorkflowSignals == {"report", "dataset", "analysis"}
AnomalySignals  == {"monitor", "drift"}
ReportSignals   == {"report", "monitor", "trend"}
AlertSignals    == {"notify", "ping"}
EmailSignals    == {"email", "mailing"}
DynamicSignals  == {"fetch", "parse", "template", "api"}

Says(text, signals) == text \cap signals # {}

StepTypes == <<"analyze_dataset", "generate_dataset_report", "email_dataset_report",
               "send_notification">>

PrimitiveTypes == <<"http_request", "transform_json", "send_email", "send_notification",
                    "format_output">>

\* ALLOWED_MULTI_STEP_TYPES of workflow_service.py
MultiStepTypes == {"generate_dataset_report", "email_dataset_report", "send_notification",
                   "analyze_dataset"}

ToSetOf(s) == {s[i] : i \in DOMAIN s}

\* The appends in the order of types, neither list of which has more than five.
InOrder(types, some) ==
  LET Take(i) == IF i \in DOMAIN types /\ types[i] \in some THEN <<types[i]>> ELSE <<>>
  IN Take(1) \o Take(2) \o Take(3) \o Take(4) \o Take(5)

-----------------------------------------------------------------------------
\* _classify_intent
Kind(text) ==
  IF \/ Says(text, WorkflowSignals)
     \/ Says(text, AnomalySignals) /\ Says(text, AlertSignals)
     \/ ~Says(text, DynamicSignals) /\ ~Says(text, {"email", "notify"})
    THEN "workflow" ELSE "dynamic_tool"

\* The steps a text asks for by name; a reminder asks for neither analysis nor report.
AskedSteps(text) ==
  LET reminder == "remind" \in text
      anomaly  == Says(text, AnomalySignals)
      analyze  == ~reminder /\ "analysis" \in text
      report   == ~reminder /\ Says(text, ReportSignals)
  IN {s \in ToSetOf(StepTypes) :
        \/ s = "analyze_dataset" /\ (anomaly \/ analyze)
        \/ s = "generate_dataset_report" /\ report
        \/ /\ s = "email_dataset_report"
           /\ Says(text, EmailSignals) /\ (report \/ anomaly \/ analyze)
        \/ s = "send_notification" /\ Says(text, AlertSignals)}

\* _match_workflow_steps: in their order; without any, a report is meant.
WorkflowSteps(text) ==
  IF AskedSteps(text) # {} THEN InOrder(StepTypes, AskedSteps(text))
  ELSE IF "remind" \in text THEN <<>>
  ELSE IF Says(text, EmailSignals) THEN <<"email_dataset_report">>
  ELSE <<"generate_dataset_report">>

\* _match_primitives
Primitives(text) ==
  LET asked == {p \in ToSetOf(PrimitiveTypes) :
        \/ p = "http_request" /\ "fetch" \in text
        \/ p = "transform_json" /\ "parse" \in text
        \/ p = "send_email" /\ "email" \in text
        \/ p = "send_notification" /\ Says(text, AlertSignals)
        \/ p = "format_output" /\ "template" \in text}
  IN IF asked = {} THEN <<"format_output">> ELSE InOrder(PrimitiveTypes, asked)

\* _compute_risk: 0 low, 1 medium, 2 high.
RiskOf(step) ==
  CASE step = "http_request" -> 2
    [] step \in {"send_email", "email_dataset_report"} -> 1
    [] OTHER -> 0

Risk(steps) ==
  CHOOSE r \in 0 .. 2 : /\ \A s \in ToSetOf(steps) : RiskOf(s) <= r
                        /\ r = 0 \/ \E s \in ToSetOf(steps) : RiskOf(s) = r

-----------------------------------------------------------------------------
(***************************************************************************)
(* _detect_clarification: the report type of a workflow is never unknown,  *)
(* so that every workflow is taken to be a report's, and a missing dataset *)
(* is asked for whatever its steps.                                        *)
(***************************************************************************)
AsksForDataset(kind, dataset) == kind = "workflow" /\ ~dataset

\* compose_from_intent, by rules only.
ByRules(text, dataset) ==
  LET kind == Kind(text)
      steps == IF kind = "workflow" THEN WorkflowSteps(text) ELSE Primitives(text)
  IN [kind |-> kind, steps |-> steps, risk |-> Risk(steps),
      asks |-> AsksForDataset(kind, dataset), source |-> "rule_based"]

(***************************************************************************)
(* _ai_enrich: what the model may have answered.  It may name other inputs *)
(* and, for a dynamic tool, other primitives, of which the allowed ones    *)
(* are taken (bound: one of them); the risk is never lowered.              *)
(***************************************************************************)
Refined(proposal, asks, steps) ==
  [proposal EXCEPT !.source = "ai_assisted", !.asks = asks, !.steps = steps,
                   !.risk = IF Risk(steps) >= @ THEN Risk(steps) ELSE @]

Enriched(proposal) ==
  {Refined(proposal, asks, steps) : asks \in BOOLEAN,
     steps \in {proposal.steps} \cup
       (IF proposal.kind = "dynamic_tool" THEN {<<p>> : p \in ToSetOf(PrimitiveTypes)} ELSE {})}

Composed(text, dataset) ==
  {ByRules(text, dataset)} \cup Enriched(ByRules(text, dataset))

-----------------------------------------------------------------------------
(***************************************************************************)
(* Of every text: the steps of a workflow are such that workflow_service   *)
(* stores them, in the order data has to flow (analysis, report, mail,     *)
(* notification), none of them twice; a workflow has steps unless it is a  *)
(* reminder; and no refinement changes them or makes the risk less than    *)
(* that of a step.                                                         *)
(***************************************************************************)
Refinable(rules) ==
  \A p \in Enriched(rules) :
    /\ p.kind = "workflow" => p.steps = rules.steps
    /\ \A s \in ToSetOf(p.steps) : RiskOf(s) <= p.risk

EveryTextComposes ==
  \A text \in SUBSET Words : \A dataset \in BOOLEAN :
    LET rules == ByRules(text, dataset)
    IN /\ Refinable(rules)
       /\ rules.kind = "workflow" =>
            /\ ToSetOf(rules.steps) \subseteq MultiStepTypes
            /\ Len(rules.steps) = Cardinality(ToSetOf(rules.steps))
            /\ rules.steps = InOrder(StepTypes, ToSetOf(rules.steps))
            /\ rules.steps = <<>> => "remind" \in text
=============================================================================
