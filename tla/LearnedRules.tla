---------------------------- MODULE LearnedRules ----------------------------
(***************************************************************************)
(* The domains of a source's tables, and the naming rules learned about    *)
(* them, on top of the snapshots of MetadataJobs: assign a domain to every *)
(* profiled table, suggest rules from the unknown ones, approve or reject  *)
(* a rule, look for finer rules below broad ones, approve, reject and      *)
(* promote these.  The services read in one connection, compute, and write *)
(* in another; the same threads serve these requests and those of          *)
(* MetadataJobs.  The entities of tables are learned by the same code,     *)
(* without the refinements.                                                *)
(***************************************************************************)
EXTENDS MetadataJobs, SequencesExt, FiniteSetsExt

CONSTANTS
  Unknown, LabelOrder, NameOf, SchemaOf, Begins, Signals, MinSupport,
  Stages         \* what earlier requests may have left: rules, those that were
                 \* applied to the tables, and refinements

INSTANCE DomainRules

\* The keywords and the tables that the rules are about.
ASSUME DomainsAssumption ==
  /\ IsFiniteSet(Tables) /\ IsFiniteSet(Words)
  /\ LabelOrder \in Seq(Labels) /\ LabelOrder # <<>>
  /\ Signals \in [Tables -> [Labels -> [named : Nat, inSchema : Nat, structure : Nat, types : Nat]]]
  /\ NameOf \in [Tables -> Seq(Words)]

ASSUME LearnedRulesAssumption ==
  /\ Unknown \notin Labels
  /\ \A u \in Words : u \in Begins[u]
  /\ MinSupport \in Nat \ {0}
  /\ MaxCalls >= 1

Statuses == {"PENDING", "APPROVED", "REJECTED"}

LearningRules == [pattern : Patterns, label : Labels \cup {Unknown}, status : Statuses, from : Nat]
RefinementSuggestions == [parent : Nat, pattern : Patterns, label : Labels, status : Statuses]

ApprovedIn(rows) ==
  {<<rows[i].pattern, rows[i].label>> :
     i \in {j \in DOMAIN rows : rows[j].status = "APPROVED"}}

\* Rules as requests can have left them.
IsStage(stage) ==
  LET approved == ApprovedIn(stage.rules) \cup ApprovedIn(stage.refinements)
  IN /\ stage.rules \in Seq(LearningRules) /\ stage.refinements \in Seq(RefinementSuggestions)
     /\ \A i, j \in DOMAIN stage.rules :
          stage.rules[i].pattern = stage.rules[j].pattern => i = j
     /\ \A i \in DOMAIN stage.rules :
          IF stage.rules[i].from = 0 THEN stage.rules[i].label = Unknown
          ELSE <<stage.rules[i].pattern, stage.rules[i].label>> \in approved
     /\ \A i \in DOMAIN stage.refinements : stage.refinements[i].parent \in DOMAIN stage.rules
     /\ DOMAIN stage.applied \subseteq Nat
     /\ \A i \in DOMAIN stage.applied :
          <<stage.applied[i].pattern, stage.applied[i].label>> \in approved

ASSUME StagesAssumption == \A stage \in Stages : IsStage(stage)

VARIABLES
  assigned,      \* domain_assignments: per table a set of at most one row
  rules,         \* domain_learning_rules in the order of their ids
  refinements,   \* domain_rule_refinement_suggestions in the order of their ids
  desk,          \* what each thread is doing about rules
  approvals,     \* history: the rules and refinements that were ever approved
  clash,         \* history: two decisions about one row were under way at once
  mixed,         \* history: a request about rules overlapped with another one
  last_done      \* history: the kind of the request that was answered last

ruleVars == <<assigned, rules, refinements, desk, approvals, clash,
              mixed, last_done>>
vars == <<metaVars, ruleVars>>

RuleKinds == {"generate", "suggest", "approve", "reject", "analyze",
              "approveFiner", "rejectFiner", "promote"}

Away == [pc |-> "away", kind |-> "generate", id |-> 0, tables |-> {},
         rows |-> <<>>]

RuleRows == <<assigned, rules, refinements>>
History  == <<approvals, clash, mixed>>

-----------------------------------------------------------------------------
NoRequest ==
  /\ desk = [w \in Workers |-> Away]
  /\ clash = FALSE
  /\ mixed = FALSE
  /\ last_done = "none"

NothingLearned ==
  /\ assigned = [t \in Tables |-> {}]
  /\ rules = <<>>
  /\ refinements = <<>>
  /\ approvals = {}

\* Later in the life of a source: its job is done, all its tables are profiled.
Profiled ==
  /\ source = "there"
  /\ job = "COMPLETE"
  /\ schemas = <<[version |-> 1, tables |-> Tables]>>
  /\ last = 1
  /\ profiles = <<[version |-> 1, schema |-> 1, wants |-> Tables, has |-> Tables]>>
  /\ call = [w \in Workers |-> Idle]
  /\ calls = 1
  /\ faults = 0
  /\ overlapped = FALSE

\* The row of a table: its domain, and the profile it was found in.
Assignment(learned, t, snap) ==
  LET found == Classify(learned, t)
  IN [label |-> found.label, rivals |-> found.rivals, by |-> found.by, snap |-> snap]

\* The assignments a generation makes with some learned rules.
Generated(learned) ==
  [t \in Tables |-> {Assignment(learned, t, 1)}]

\* Stages the requests lead to one after the other, each a start for their overlaps.
LearnedSoFar ==
  /\ \E stage \in Stages :
       /\ rules = stage.rules
       /\ assigned = Generated(stage.applied)
       /\ refinements = stage.refinements
  /\ approvals = ApprovedIn(rules) \cup ApprovedIn(refinements)

LearnedInit ==
  /\ \/ Init /\ NothingLearned
     \/ Profiled /\ (NothingLearned \/ LearnedSoFar)
  /\ NoRequest

\* The request of w about rules is answered.
Leave(w) ==
  /\ desk' = [desk EXCEPT ![w] = Away]
  /\ last_done' = desk[w].kind

\* The next step of w's request.
Turn(w, d) == desk' = [desk EXCEPT ![w] = d] /\ UNCHANGED last_done

Busy == \E v \in Workers : call[v].pc # "idle" \/ desk[v].pc # "away"

RuleRequest(w, kind, id) ==
  /\ call[w].pc = "idle" /\ desk[w].pc = "away"
  /\ source # "new"
  /\ calls < MaxCalls
  /\ calls' = calls + 1
  /\ mixed' = (mixed \/ Busy)
  /\ desk' = [desk EXCEPT ![w] = [Away EXCEPT !.pc = "read", !.kind = kind,
                                              !.id = id]]
  /\ UNCHANGED <<Rows, call, faults, overlapped, RuleRows, approvals, clash,
                 last_done>>

Reading(w, kind) == desk[w].pc = "read" /\ desk[w].kind = kind
Writing(w, kind) == desk[w].pc = "write" /\ desk[w].kind = kind

-----------------------------------------------------------------------------
\* generate_domain_assignments: the latest profile; none is an error.
ReadSnapshot(w) ==
  /\ Reading(w, "generate")
  /\ IF ~IsThere \/ profiles = <<>>
       THEN Leave(w)
       ELSE Turn(w, [desk[w] EXCEPT !.pc = "tables", !.id = Len(profiles)])
  /\ UNCHANGED <<metaVars, RuleRows, History>>

\* The tables profiled so far in that snapshot.
ReadTables(w) ==
  /\ desk[w].pc = "tables"
  /\ Turn(w, [desk[w] EXCEPT !.pc = "rules",
       !.tables = IF desk[w].id \in DOMAIN profiles
                    THEN profiles[desk[w].id].has ELSE {}])
  /\ UNCHANGED <<metaVars, RuleRows, History>>

\* Mutant of ActiveRules: the pending rules are taken as well.
ActiveRulesAndPending == Restrict(rules, {i \in DOMAIN rules : rules[i].status # "REJECTED"})

\* The approved rows, by their ids.
ApprovedOf(rows) == Restrict(rows, {i \in DOMAIN rows : rows[i].status = "APPROVED"})

ActiveRules == ApprovedOf(rules)

ReadRules(w) ==
  /\ desk[w].pc = "rules"
  /\ Turn(w, [desk[w] EXCEPT !.pc = "write", !.rows = ActiveRules])
  /\ UNCHANGED <<metaVars, RuleRows, History>>

\* Mutant of WriteAssignments: rows of tables that have one are left as they are.
WriteAssignmentsOnce(w) ==
  /\ Writing(w, "generate")
  /\ IF ~IsThere
       THEN UNCHANGED assigned
       ELSE assigned' = [t \in Tables |->
              IF t \in desk[w].tables /\ assigned[t] = {}
                THEN {Assignment(desk[w].rows, t, desk[w].id)}
                ELSE assigned[t]]
  /\ Leave(w)
  /\ UNCHANGED <<metaVars, rules, refinements, History>>

\* One transaction of upserts; refused as a whole when the source is gone.
WriteAssignments(w) ==
  /\ Writing(w, "generate")
  /\ IF ~IsThere
       THEN UNCHANGED assigned
       ELSE assigned' = [t \in Tables |->
              IF t \in desk[w].tables
                THEN {Assignment(desk[w].rows, t, desk[w].id)}
                ELSE assigned[t]]
  /\ Leave(w)
  /\ UNCHANGED <<metaVars, rules, refinements, History>>

-----------------------------------------------------------------------------
\* generate_domain_rule_suggestions: the tables that are Unknown now.
ReadUnknown(w) ==
  /\ Reading(w, "suggest")
  /\ LET unknown == {t \in Tables : \E a \in assigned[t] : a.label = Unknown}
         rivals == [t \in unknown |-> UNION {a.rivals : a \in assigned[t]}]
     IN IF ~IsThere \/ unknown = {}
          THEN Leave(w)
          ELSE Turn(w, [desk[w] EXCEPT !.pc = "write",
                                       !.rows = Suggestions(unknown, rivals)])
  /\ UNCHANGED <<metaVars, RuleRows, History>>

Has(rows, pattern) == \E i \in DOMAIN rows : rows[i].pattern = pattern

\* Those of some rows, in the order of their ids.
Listed(rows, ids) ==
  LET order == SortedBy(ids, [i \in ids |-> i])
  IN [n \in DOMAIN order |-> rows[order[n]]]

\* Insert one row after the other, each unless its pattern has a rule by then,
\* whatever its status.
AddRules(new) ==
  LET added == {i \in DOMAIN new : /\ ~Has(rules, new[i].pattern)
                                   /\ \A j \in DOMAIN new :
                                        new[j].pattern = new[i].pattern => i <= j}
  IN rules' = IF IsThere THEN rules \o Listed(new, added) ELSE rules

WriteSuggestions(w) ==
  /\ Writing(w, "suggest")
  /\ AddRules([i \in DOMAIN desk[w].rows |->
       [pattern |-> desk[w].rows[i].pattern, label |-> desk[w].rows[i].label,
        status |-> "PENDING", from |-> 0]])
  /\ Leave(w)
  /\ UNCHANGED <<metaVars, assigned, refinements, History>>

-----------------------------------------------------------------------------
\* Somebody else is between the check and the write of the same row.
AlsoDeciding(w) ==
  \E v \in Workers \ {w} :
    desk[v].pc = "write" /\ desk[v].id = desk[w].id
      /\ \/ {desk[v].kind, desk[w].kind} \subseteq {"approve", "reject"}
         \/ {desk[v].kind, desk[w].kind} \subseteq {"approveFiner", "rejectFiner"}

\* Mutant of CheckPending: any row may be decided.
CheckPendingNot(w, rows) ==
  IF ~IsThere \/ desk[w].id \notin DOMAIN rows
    THEN Leave(w) /\ UNCHANGED clash
    ELSE Turn(w, [desk[w] EXCEPT !.pc = "write"]) /\ clash' = (clash \/ AlsoDeciding(w))

\* The row must be there and PENDING; the write does not look again.
CheckPending(w, rows) ==
  IF ~IsThere \/ desk[w].id \notin DOMAIN rows
    THEN Leave(w) /\ UNCHANGED clash
  ELSE IF rows[desk[w].id].status # "PENDING"
    THEN Leave(w) /\ UNCHANGED clash
    ELSE Turn(w, [desk[w] EXCEPT !.pc = "write"]) /\ clash' = (clash \/ AlsoDeciding(w))

CheckRule(w) ==
  /\ Reading(w, "approve") \/ Reading(w, "reject")
  /\ CheckPending(w, rules)
  /\ UNCHANGED <<metaVars, RuleRows, approvals, mixed>>

CheckFiner(w) ==
  /\ Reading(w, "approveFiner") \/ Reading(w, "rejectFiner")
  /\ CheckPending(w, refinements)
  /\ UNCHANGED <<metaVars, RuleRows, approvals, mixed>>

\* approve_domain_rule, reject_domain_rule: an UPDATE by id, of no row if it is gone.
DecideRule(w) ==
  LET status == IF desk[w].kind = "approve" THEN "APPROVED" ELSE "REJECTED"
      i == desk[w].id
  IN /\ Writing(w, "approve") \/ Writing(w, "reject")
     /\ IF i \in DOMAIN rules
          THEN /\ rules' = [rules EXCEPT ![i].status = status]
               /\ approvals' = IF status = "APPROVED"
                    THEN approvals \cup {<<rules[i].pattern, rules[i].label>>}
                    ELSE approvals
          ELSE UNCHANGED <<rules, approvals>>
     /\ Leave(w)
     /\ UNCHANGED <<metaVars, assigned, refinements, clash, mixed>>

\* approve_refinement_suggestion, reject_refinement_suggestion.
DecideFiner(w) ==
  LET status == IF desk[w].kind = "approveFiner" THEN "APPROVED" ELSE "REJECTED"
      i == desk[w].id
  IN /\ Writing(w, "approveFiner") \/ Writing(w, "rejectFiner")
     /\ IF i \in DOMAIN refinements
          THEN /\ refinements' = [refinements EXCEPT ![i].status = status]
               /\ approvals' = IF status = "APPROVED"
                    THEN approvals \cup {<<refinements[i].pattern,
                                           refinements[i].label>>}
                    ELSE approvals
          ELSE UNCHANGED <<refinements, approvals>>
     /\ Leave(w)
     /\ UNCHANGED <<metaVars, assigned, rules, clash, mixed>>

-----------------------------------------------------------------------------
\* analyze_rule_refinement: the approved rules ...
ReadApproved(w) ==
  /\ Reading(w, "analyze")
  /\ IF ~IsThere
       THEN Leave(w)
       ELSE Turn(w, [desk[w] EXCEPT !.pc = "matches", !.rows = ActiveRules])
  /\ UNCHANGED <<metaVars, RuleRows, History>>

\* ... what they assigned, as the evidence of the assignments tells, among the
\* tables of the latest profile; and the finer rules that follow.
ReadMatches(w) ==
  /\ desk[w].pc = "matches"
  /\ LET broad == desk[w].rows
         known == IF profiles = <<>> THEN {} ELSE profiles[Len(profiles)].has
         found == [i \in DOMAIN broad |->
                     {t \in known : \E a \in assigned[t] :
                                      a.by = {broad[i].pattern}}]
         labelled == Cardinality({t \in Tables : \E a \in assigned[t] :
                                                   a.label # Unknown})
     IN Turn(w, [desk[w] EXCEPT !.pc = "write",
                                !.rows = Refinements(broad, found, labelled)])
  /\ UNCHANGED <<metaVars, RuleRows, History>>

\* Insert each unless its parent has one for the pattern.
WriteFiner(w) ==
  /\ Writing(w, "analyze")
  /\ LET new == [i \in DOMAIN desk[w].rows |->
                  [parent |-> desk[w].rows[i].parent, pattern |-> desk[w].rows[i].pattern,
                   label |-> desk[w].rows[i].label, status |-> "PENDING"]]
         added == {i \in DOMAIN new : \A j \in DOMAIN refinements :
                    <<refinements[j].parent, refinements[j].pattern>>
                      # <<new[i].parent, new[i].pattern>>}
     IN refinements' = IF IsThere THEN refinements \o Listed(new, added) ELSE refinements
  /\ Leave(w)
  /\ UNCHANGED <<metaVars, assigned, rules, History>>

\* promote_approved_refinements: the approved refinements ...
ApprovedFiner == ApprovedOf(refinements)

ReadFiner(w) ==
  /\ Reading(w, "promote")
  /\ IF ~IsThere
       THEN Leave(w)
       ELSE Turn(w, [desk[w] EXCEPT !.pc = "write", !.rows = ApprovedFiner])
  /\ UNCHANGED <<metaVars, RuleRows, History>>

\* ... become approved rules, behind those there are.
WritePromoted(w) ==
  /\ Writing(w, "promote")
  /\ AddRules([i \in DOMAIN desk[w].rows |->
       [pattern |-> desk[w].rows[i].pattern, label |-> desk[w].rows[i].label,
        status |-> "APPROVED", from |-> i]])
  /\ Leave(w)
  /\ UNCHANGED <<metaVars, assigned, refinements, History>>

-----------------------------------------------------------------------------
\* Deleting the source takes everything that was learned about it with it.
DeleteWithRules(w) ==
  /\ DeleteSource(w)
  /\ assigned' = [t \in Tables |-> {}]
  /\ rules' = <<>>
  /\ refinements' = <<>>
  /\ last_done' = "delete"
  /\ UNCHANGED <<desk, History>>

\* A storage call of a request about rules raises before it has effect.
RuleStorageFails(w) ==
  /\ desk[w].pc # "away"
  /\ faults < MaxFaults
  /\ faults' = faults + 1
  /\ Leave(w)
  /\ UNCHANGED <<Rows, call, calls, overlapped, RuleRows, History>>

\* The server stops: no request goes on.
CrashAll ==
  /\ \E w \in Workers : call[w].pc # "idle" \/ desk[w].pc # "away"
  /\ faults < MaxFaults
  /\ faults' = faults + 1
  /\ call' = [w \in Workers |-> Idle]
  /\ desk' = [w \in Workers |-> Away]
  /\ UNCHANGED <<Rows, calls, overlapped, RuleRows, History, last_done>>

\* A request of MetadataJobs, at a thread that is free.
MetaRequest(w, kind) ==
  /\ desk[w].pc = "away"
  /\ Request(w, kind)
  /\ mixed' = (mixed \/ \E v \in Workers : desk[v].pc # "away")
  /\ UNCHANGED <<RuleRows, desk, approvals, clash, last_done>>

\* A step of MetadataJobs that leaves the rules alone.
MetaStep ==
  /\ \/ CreateSource \/ CreateJob
     \/ \E w \in Workers :
          \/ JobStep(w) \/ DiscoveryStep(w) \/ ProfilingStep(w) \/ LookForJob(w)
          \/ ConnectorFails(w) \/ StorageFails(w)
  /\ last_done' = IF \E w \in Workers : call[w].pc # "idle" /\ call'[w].pc = "idle"
                    THEN "metadata" ELSE last_done
  /\ UNCHANGED <<RuleRows, desk, History>>

RuleStep(w) ==
  \/ ReadSnapshot(w) \/ ReadTables(w) \/ ReadRules(w) \/ WriteAssignments(w)
  \/ ReadUnknown(w) \/ WriteSuggestions(w)
  \/ CheckRule(w) \/ CheckFiner(w) \/ DecideRule(w) \/ DecideFiner(w)
  \/ ReadApproved(w) \/ ReadMatches(w) \/ WriteFiner(w)
  \/ ReadFiner(w) \/ WritePromoted(w)

\* The ids a request of a kind can name.  (Bound: nobody suggests, analyzes or
\* promotes, which would do nothing, before anything was assigned.)
IdsFor(kind) ==
  CASE kind \in {"approve", "reject"} -> DOMAIN rules
    [] kind \in {"approveFiner", "rejectFiner"} -> DOMAIN refinements
    [] kind = "generate" -> {0}
    [] OTHER -> IF \E t \in Tables : assigned[t] # {} THEN {0} ELSE {}

LearnedNext ==
  \/ MetaStep \/ CrashAll
  \/ \E w \in Workers :
       \/ \E kind \in Kinds : MetaRequest(w, kind)
       \/ RuleStep(w) \/ DeleteWithRules(w) \/ RuleStorageFails(w)
       \/ \E kind \in RuleKinds : \E id \in IdsFor(kind) : RuleRequest(w, kind, id)

LearnedSpec == LearnedInit /\ [][LearnedNext]_vars

-----------------------------------------------------------------------------
\* The rows and the threads have their types.
RulesTypeOK ==
  /\ \A t \in Tables : \A a \in assigned[t] :
       /\ a.label \in Labels \cup {Unknown} /\ a.by \subseteq Patterns
       /\ a.rivals \subseteq Labels
  /\ \A t \in Tables : Cardinality(assigned[t]) <= 1
  /\ rules \in Seq(LearningRules) /\ refinements \in Seq(RefinementSuggestions)
  /\ \A i \in DOMAIN refinements : refinements[i].parent \in DOMAIN rules

(***************************************************************************)
(* However generations, approvals and rejections overlap: a domain that a  *)
(* learned rule gave comes from a rule that somebody had approved, with    *)
(* that label, and that fits the table.                                    *)
(***************************************************************************)
LearnedLabelsWereApproved ==
  \A t \in Tables : \A a \in assigned[t] : \A p \in a.by :
    <<p, a.label>> \in approvals /\ Matches(p, t)

(***************************************************************************)
(* The rules that were promoted are refinements somebody approved.         *)
(***************************************************************************)
PromotionsWereApproved ==
  \A i \in DOMAIN rules :
    rules[i].from # 0 => <<rules[i].pattern, rules[i].label>> \in approvals

(***************************************************************************)
(* A pattern has one rule, also when suggestions and promotions that did   *)
(* not see each other's rows write one after the other.                    *)
(***************************************************************************)
OneRulePerPattern ==
  \A i, j \in DOMAIN rules : rules[i].pattern = rules[j].pattern => i = j

(***************************************************************************)
(* An assignment tells the profile it was made from, and that profile has  *)
(* the table, although it may still be in the middle of being saved.       *)
(***************************************************************************)
AssignmentsAreOfProfiles ==
  \A t \in Tables : \A a \in assigned[t] :
    a.snap \in DOMAIN profiles /\ t \in profiles[a.snap].has

(***************************************************************************)
(* A request that was on its way when the source was deleted leaves        *)
(* nothing of it behind.                                                   *)
(***************************************************************************)
NothingIsLearnedOfNoSource ==
  ~IsThere => /\ \A t \in Tables : assigned[t] = {}
              /\ rules = <<>>
              /\ refinements = <<>>

(***************************************************************************)
(* Requests one at a time, none failing: after a generation every table of *)
(* the latest profile has the domain that the approved rules, and then the *)
(* generic engine, give it.  (Two generations that overlap may leave the   *)
(* older one's.)                                                           *)
(***************************************************************************)
GenerationIsCurrent ==
  (~mixed /\ faults = 0 /\ ~Busy /\ last_done = "generate"
     /\ IsThere /\ profiles # <<>>) =>
    \A t \in profiles[Len(profiles)].has :
      assigned[t] = {Assignment(ActiveRules, t, Len(profiles))}

(***************************************************************************)
(* What is suggested names no domain: the tables it is made from are those *)
(* whose domain is Unknown, and their rivals, from which a domain would be *)
(* inferred, are not kept.  A rule approved from it hides what the generic *)
(* engine would find.                                                      *)
(***************************************************************************)
SuggestionsNameNothing ==
  \A i \in DOMAIN rules : rules[i].from = 0 => rules[i].label = Unknown

(***************************************************************************)
(* A decision stands: without two decisions about one row on their way at  *)
(* once, nothing that was approved or rejected changes.                    *)
(***************************************************************************)
DecisionsStand ==
  [][~clash =>
       /\ \A i \in DOMAIN rules \cap DOMAIN rules' :
            rules[i].status # "PENDING" => rules'[i] = rules[i]
       /\ \A i \in DOMAIN refinements \cap DOMAIN refinements' :
            refinements[i].status # "PENDING" => refinements'[i] = refinements[i]
    ]_<<rules, refinements>>

(***************************************************************************)
(* Nothing takes effect that nobody approved: neither the label a learned  *)
(* rule gave to a table nor a rule that was promoted; and no pattern has   *)
(* two rules that could disagree.                                          *)
(***************************************************************************)
LearnedWasApproved ==
  /\ RulesTypeOK /\ OneRulePerPattern /\ SuggestionsNameNothing
  /\ LearnedLabelsWereApproved /\ PromotionsWereApproved

(***************************************************************************)
(* What is learned is learned of something there: an assignment of a table *)
(* of the profile it names, and nothing at all of a source that was        *)
(* deleted while a request was on its way.                                 *)
(***************************************************************************)
LearnedOfWhatIsThere == AssignmentsAreOfProfiles /\ NothingIsLearnedOfNoSource
=============================================================================
