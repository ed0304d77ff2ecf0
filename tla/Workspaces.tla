----------------------------- MODULE Workspaces -----------------------------
(***************************************************************************)
(* The workspaces of the AI page (data/workspace_service.py) and the       *)
(* workflows that are made of their proposals (create_workflow_draft_route *)
(* and data/workflow_service.py): the workflow is stored in one            *)
(* transaction and linked in another.                                      *)
(***************************************************************************)
EXTENDS RequestThreads, ToolPlanning

CONSTANTS
  Intents,      \* bound: what is composed, each a text and whether a dataset is named
  MaxWorkspaces, MaxWorkflows   \* bounds: rows

VARIABLES
  spaces,       \* ai_workspaces: status, proposals, dataset, workflow_id (0: none)
  flows,        \* workflows: the workspace each was made of, and whether it is there
  cut           \* history: workspaces with a workflow that was deleted, or not linked

drafts == <<spaces, flows, cut>>

SpacesInit == spaces = <<>> /\ flows = <<>> /\ cut = {}

\* create_workspace_draft
NewSpace(dataset) == [status |-> "draft", proposals |-> {}, dataset |-> dataset, flow |-> 0]

\* POST /tools/compose with save_workspace: the draft, then the proposal.
Compose(w, text, dataset) ==
  /\ Len(spaces) < MaxWorkspaces
  /\ spaces' = Append(spaces, NewSpace(dataset))
  /\ \E p \in Composed(text, dataset) :
       Begin(w, [pc |-> "propose", space |-> Len(spaces) + 1, proposal |-> p])
  /\ UNCHANGED <<flows, cut>>

Propose(w) ==
  LET s == job[w].space
  IN /\ At(w, "propose")
     /\ spaces' = [spaces EXCEPT ![s].proposals = {job[w].proposal}, ![s].status = "proposed"]
     /\ End(w)
     /\ UNCHANGED <<flows, cut>>

\* PATCH .../execution and .../save: the status is not looked at.
Advance(w, s, status) ==
  /\ job[w] = Rest
  /\ spaces' = [spaces EXCEPT ![s].status = status]
  /\ UNCHANGED <<job, flows, cut>>

\* Mutant of Draftable: the demand for a dataset is not looked at.
DraftableAnyway(space, p) ==
  /\ p.kind = "workflow"
  /\ p.steps # <<>> /\ ToSetOf(p.steps) \subseteq MultiStepTypes

\* A workflow can be made of a proposal with steps whose demand for a dataset is met.
Draftable(space, p) ==
  /\ p.kind = "workflow"
  /\ p.steps # <<>> /\ ToSetOf(p.steps) \subseteq MultiStepTypes
  /\ p.asks => space.dataset

\* POST .../create-workflow-draft: of a proposal that fits.
Draft(w, s) ==
  /\ \E p \in spaces[s].proposals : Draftable(spaces[s], p)
  /\ Begin(w, [pc |-> "store", space |-> s])
  /\ UNCHANGED drafts

\* create_workflow
Store(w) ==
  /\ At(w, "store")
  /\ Len(flows) < MaxWorkflows
  /\ flows' = Append(flows, [of |-> job[w].space, there |-> TRUE])
  /\ job' = [job EXCEPT ![w] = [pc |-> "link", space |-> @.space, flow |-> Len(flows) + 1]]
  /\ UNCHANGED <<spaces, cut>>

\* link_workspace_workflow; the foreign key refuses a workflow that is gone.
MayLink(f)   == flows[f].there
LinkTo(s, f) == spaces' = [spaces EXCEPT ![s].flow = f]

\* The link is made with best effort: what is raised is swallowed, and the workflow stays.
Link(w, ok) ==
  LET s == job[w].space
  IN /\ At(w, "link")
     /\ IF ok /\ MayLink(job[w].flow)
          THEN LinkTo(s, job[w].flow) /\ UNCHANGED cut
          ELSE cut' = cut \cup {s} /\ UNCHANGED spaces
     /\ End(w)
     /\ UNCHANGED flows

\* DELETE /workflows/{id}: the links to it are set to null.
DeleteWorkflow(w, f) ==
  /\ job[w] = Rest
  /\ flows[f].there
  /\ flows' = [flows EXCEPT ![f].there = FALSE]
  /\ spaces' = [s \in DOMAIN spaces |->
                  IF spaces[s].flow = f THEN [spaces[s] EXCEPT !.flow = 0] ELSE spaces[s]]
  /\ cut' = cut \cup {flows[f].of}
  /\ UNCHANGED job

-----------------------------------------------------------------------------
SpaceStep(w) == Propose(w) \/ Store(w) \/ \E ok \in BOOLEAN : Link(w, ok)

SpaceRequest(w) ==
  \/ \E i \in Intents : Compose(w, i[1], i[2])
  \/ \E s \in DOMAIN spaces :
       Draft(w, s) \/ \E status \in {"executed", "saved"} : Advance(w, s, status)
  \/ \E f \in DOMAIN flows : DeleteWorkflow(w, f)

(***************************************************************************)
(* A workflow stems from a proposal with steps that its workspace held     *)
(* when it was made; one proposed by rules alone has a dataset, which the  *)
(* steps of a report need.  (A model may take the demand for a dataset     *)
(* out of the proposal.)                                                   *)
(***************************************************************************)
WorkflowsCanRun ==
  \A f \in DOMAIN flows :
    \E p \in spaces[flows[f].of].proposals :
      /\ p.kind = "workflow" /\ p.steps # <<>>
      /\ p.source = "rule_based" => spaces[flows[f].of].dataset

(***************************************************************************)
(* The workflow a workspace is linked to is there and was made of it; and  *)
(* a workspace of which a workflow was made is linked to one, unless a     *)
(* workflow of it was deleted or could not be linked.                      *)
(***************************************************************************)
WorkflowsAreLinked ==
  /\ \A s \in DOMAIN spaces :
       spaces[s].flow # 0 => flows[spaces[s].flow] = [of |-> s, there |-> TRUE]
  /\ \A f \in DOMAIN flows :
       \/ spaces[flows[f].of].flow # 0
       \/ flows[f].of \in cut
       \/ \E w \in AtSteps({"link"}) : job[w].flow = f

\* What the user finds of workflows: they can run, and their links are true.
WorkflowsAreSound == WorkflowsCanRun /\ WorkflowsAreLinked

(***************************************************************************)
(* From a text to a tool: every text composes to what can be stored, every *)
(* plan to a draft that loads again, and no proposal that is kept is said  *)
(* to be less of a risk than a step of it.                                 *)
(***************************************************************************)
PlansAreSound ==
  /\ EveryTextComposes /\ EveryPlanIsADraft /\ ToolsLoadAgain
  /\ \A s \in DOMAIN spaces : \A p \in spaces[s].proposals :
       \A step \in ToSetOf(p.steps) : RiskOf(step) <= p.risk
=============================================================================
