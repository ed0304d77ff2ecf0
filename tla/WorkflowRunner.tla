--------------------------- MODULE WorkflowRunner ---------------------------
(***************************************************************************)
(* One run of a saved workflow: core/workflows/workflow_runner.py, with    *)
(* the plan execution of core/execution/execution_engine.py for workflows  *)
(* of the older form, the mail delivery of core/email.py and the rows it   *)
(* leaves.  Meanwhile the user may upload and delete datasets and delete   *)
(* reports; statements may raise and the server may stop.                  *)
(*                                                                         *)
(* A report is represented by the dataset it was made of, datasets and     *)
(* reports by their row ids, which grow.  A template in a condition refers *)
(* to a step's status or to whether it delivered something.                *)
(***************************************************************************)
EXTENDS Integers, Sequences, FiniteSets, FiniteSetsExt, SequencesExt

CONSTANTS
  Workflows,   \* definitions that may be run, see WorkflowAssumption
  MaxRetries,  \* MAX_STEP_RETRIES
  MaxOthers,   \* bound: uploads and deletions meanwhile
  MaxFaults    \* bound: statements that raise, stops

StepTypes == {"analyze", "generate", "email", "notify"}
PlanKinds == {"fetch", "email", "notify", "http", "unhandled"}

\* The allowed types were checked when the workflow was saved.  id is 0 where
\* the definition gives none; a condition compares a field of a step.
ASSUME WorkflowAssumption ==
  /\ \A w \in Workflows : Len(w.steps) \in Nat
  /\ \A w \in Workflows :
       \/ /\ w.kind = "steps" /\ w.dry \in BOOLEAN /\ w.dataset \in Nat
          /\ \A k \in 1 .. Len(w.steps) :
               w.steps[k].id \in Nat /\ w.steps[k].type \in StepTypes
       \/ /\ w.kind = "plan" /\ ~w.dry
          /\ \A k \in 1 .. Len(w.steps) :
               w.steps[k].priority \in Nat /\ w.steps[k].type \in PlanKinds
  /\ MaxRetries \in Nat /\ MaxOthers \in Nat /\ MaxFaults \in Nat

VARIABLES
  workflow,   \* the definition that is run
  mode,       \* of mail: no recipient, disabled, not configured, real
  pc, at,     \* what the run does next, and in which step
  statuses,   \* step_statuses
  results,    \* completed_results, by step id
  outcome,    \* history: the result of each step
  ctx,        \* the report a step left for later ones, and its row
  work,       \* the locals of the step
  final,      \* final_status
  datasets, reports, snapshots,   \* rows: ids; what of; report ids
  notes,      \* notifications of the run, in order
  mails,      \* mails handed to the provider, with their rows in email_logs
  recorded,   \* execution_history and usage_events
  next,       \* the next id of a dataset, of a report
  others, faults

vars == <<workflow, mode, pc, at, statuses, results, outcome, ctx, work, final,
          datasets, reports, snapshots, notes, mails, recorded, next, others,
          faults>>
control == <<at, statuses, results, outcome, ctx, final>>
rows    == <<datasets, reports, snapshots, notes, mails, recorded, next>>
fixed   == <<workflow, mode, others>>

Steps    == workflow.steps
IdOf(k)  == IF Steps[k].id = 0 THEN k ELSE Steps[k].id
NoCtx    == [of |-> 0, id |-> 0]
Work(dataset, of, id) == [dataset |-> dataset, of |-> of, id |-> id, attempt |-> 0]
NoWork   == Work(0, 0, 0)
Unresolved == "unresolved"
\* str() of what the result holds.
Text(sent) == IF sent THEN "True" ELSE "False"
Result(status, sent) == [status |-> status, sent |-> sent]
NoResult == Result("none", Unresolved)

-----------------------------------------------------------------------------
\* run_plan: by priority, and sorted() is stable.
Before(j, k) ==
  \/ Steps[j].priority < Steps[k].priority
  \/ Steps[j].priority = Steps[k].priority /\ j < k

Place(k) == Cardinality({j \in 1 .. Len(Steps) : Before(j, k)}) + 1

Init ==
  /\ workflow \in Workflows
  /\ mode \in {"nobody", "disabled", "unconfigured", "real"}
  /\ pc = IF workflow.kind = "plan" THEN "plan" ELSE "step"
  /\ at = 1
  /\ statuses = [k \in 1 .. Len(Steps) |-> "pending"]
  /\ results = <<>> /\ outcome = [k \in 1 .. Len(Steps) |-> NoResult]
  /\ ctx = NoCtx /\ work = NoWork /\ final = "completed"
  /\ datasets \in {{}, {1}} /\ reports = <<>> /\ snapshots = {}
  /\ notes = <<>> /\ mails = <<>> /\ recorded = {}
  /\ next = [dataset |-> 2, report |-> 1]
  /\ others = 0 /\ faults = 0

\* An insert that raises for another reason than a foreign key.
Fault == faults < MaxFaults /\ faults' = faults + 1

-----------------------------------------------------------------------------
\* The multi-step runner.

Put(f, k, v) == [x \in DOMAIN f \cup {k} |-> IF x = k THEN v ELSE f[x]]

\* The step is over with this status and result: the next one.
StepOver(status, result) ==
  /\ statuses' = [statuses EXCEPT ![at] = status]
  /\ results' = Put(results, IdOf(at), result)
  /\ outcome' = [outcome EXCEPT ![at] = result]
  /\ at' = at + 1 /\ pc' = "step"
  /\ work' = NoWork
  /\ UNCHANGED final

\* Mutant of Told: the step is not looked for.
ToldNever == FALSE

\* _has_send_notif_step: any such step in the list, run or not.
Told == \E k \in 1 .. Len(Steps) : Steps[k].type = "notify"

\* A reference to a step without a result, or to a field the result has not,
\* stays as it is written and equals nothing.
Holds(cond) ==
  LET value == IF cond.of \in DOMAIN results THEN results[cond.of][cond.field]
                                             ELSE Unresolved
  IN  (value = cond.value) <=> cond.equal

Runnable(k) == \A cond \in Steps[k].when : Holds(cond)

AtStep == pc = "step" /\ at <= Len(Steps)

DryStep ==
  /\ AtStep /\ workflow.dry
  /\ StepOver("would_run", Result("would_run", Unresolved))
  /\ UNCHANGED <<fixed, ctx, rows, faults>>

SkipStep ==
  /\ AtStep /\ ~workflow.dry /\ ~Runnable(at)
  /\ StepOver("skipped", Result("skipped", Unresolved))
  /\ UNCHANGED <<fixed, ctx, rows, faults>>

StartStep ==
  /\ AtStep /\ ~workflow.dry /\ Runnable(at)
  /\ statuses' = [statuses EXCEPT ![at] = "running"]
  /\ pc' = Steps[at].type
  /\ UNCHANGED <<fixed, at, results, outcome, ctx, work, final, rows, faults>>

StepsEnd ==
  /\ pc = "step" /\ at > Len(Steps)
  /\ pc' = IF workflow.dry THEN "done" ELSE "end"
  /\ UNCHANGED <<fixed, control, work, rows, faults>>

\* Mutant of Dataset: the newest, whichever the workflow names.
DatasetNewest == Max(datasets \cup {0})

\* The dataset of the workflow if it names one, else the user's newest; 0 if
\* there is none.
Dataset == IF workflow.dataset # 0
             THEN IF workflow.dataset \in datasets THEN workflow.dataset ELSE 0
             ELSE Max(datasets \cup {0})

\* Mutant of FailStep: the failure is noted in the step only.
FailStepAlone ==
  /\ pc \in {"analyze", "generate", "email"} /\ Fault
  /\ statuses' = [statuses EXCEPT ![at] = "failed"]
  /\ at' = at + 1 /\ pc' = "step" /\ work' = NoWork
  /\ UNCHANGED <<fixed, final, results, outcome, ctx, rows>>

\* Mutant of FailStep: every other step is listed as skipped.
FailStepSkipsAll ==
  /\ pc \in {"analyze", "generate", "email"} /\ Fault
  /\ statuses' = [k \in 1 .. Len(Steps) |-> IF k = at THEN "failed" ELSE "skipped"]
  /\ final' = "failed" /\ pc' = "end" /\ work' = NoWork
  /\ UNCHANGED <<fixed, at, results, outcome, ctx, rows>>

\* Reading the dataset or making the report raises: there is no result, and
\* the rest is skipped.  Nothing returns a status of failed.
FailStep ==
  /\ pc \in {"analyze", "generate", "email"} /\ Fault
  /\ statuses' = [k \in 1 .. Len(Steps) |->
                    IF k < at THEN statuses[k]
                              ELSE IF k = at THEN "failed" ELSE "skipped"]
  /\ final' = "failed" /\ pc' = "end" /\ work' = NoWork
  /\ UNCHANGED <<fixed, at, results, outcome, ctx, rows>>

\* Also without a dataset the step is completed.
AnalyzeStep ==
  /\ pc = "analyze"
  /\ StepOver("completed", Result("completed", Unresolved))
  /\ UNCHANGED <<fixed, ctx, rows, faults>>

NotifyStep ==
  /\ pc = "notify"
  /\ \/ /\ notes' = Append(notes, "step")
        /\ StepOver("completed", Result("completed", Text(TRUE)))
        /\ UNCHANGED faults
     \/ /\ Fault
        /\ StepOver("completed", Result("completed", Text(FALSE)))
        /\ UNCHANGED notes
  /\ UNCHANGED <<fixed, ctx, datasets, reports, snapshots, mails, recorded, next>>

\* generate_dataset_report ends: its report, or none, is left for later steps.
LeaveReport(of, id) ==
  /\ StepOver("completed", Result("completed", Unresolved))
  /\ ctx' = [of |-> of, id |-> id]

LoadForReport ==
  /\ pc = "generate"
  /\ IF Dataset = 0
       THEN LeaveReport(0, 0)
       ELSE /\ work' = Work(Dataset, Dataset, 0)
            /\ pc' = "save"
            /\ UNCHANGED control
  /\ UNCHANGED <<fixed, rows, faults>>

\* A report that an earlier step left is mailed as it is, under the name of
\* the dataset that is loaded now.
LoadForMail ==
  /\ pc = "email"
  /\ IF Dataset = 0
       THEN StepOver("completed", Result("completed", Unresolved)) /\ UNCHANGED ctx
       ELSE /\ work' = IF ctx.of # 0 THEN Work(Dataset, ctx.of, ctx.id)
                                     ELSE Work(Dataset, Dataset, 0)
            /\ pc' = IF ctx.of # 0 THEN "log" ELSE "save"
            /\ UNCHANGED control
  /\ UNCHANGED <<fixed, rows, faults>>

Mailing == pc \notin {"plan"} /\ Steps[at].type = "email"

\* save_report: a dataset deleted meanwhile violates the foreign key.  The
\* step goes on without a row.
SaveReport ==
  /\ pc = "save"
  /\ \/ /\ work.dataset \in datasets
        /\ reports' = Put(reports, next.report, work.of)
        /\ next' = [next EXCEPT !.report = @ + 1]
        /\ work' = [work EXCEPT !.id = next.report]
        /\ pc' = IF Mailing THEN "snapshot" ELSE "note"
        /\ UNCHANGED <<control, faults>>
     \/ /\ \/ work.dataset \notin datasets /\ UNCHANGED faults
           \/ work.dataset \in datasets /\ Fault
        /\ IF Mailing THEN pc' = "log" /\ UNCHANGED <<control, work>>
                      ELSE LeaveReport(work.of, 0)
        /\ UNCHANGED <<reports, next>>
  /\ UNCHANGED <<fixed, datasets, snapshots, notes, mails, recorded>>

\* "Report saved", for a report that is still there.
NoteReport ==
  /\ pc = "note"
  /\ notes' = IF work.id \in DOMAIN reports THEN Append(notes, "report") ELSE notes
  /\ pc' = "snapshot"
  /\ UNCHANGED <<fixed, control, work, datasets, reports, snapshots, mails,
                 recorded, next, faults>>

SaveSnapshot ==
  /\ pc = "snapshot"
  /\ snapshots' = IF work.id \in DOMAIN reports /\ work.dataset \in datasets
                    THEN snapshots \cup {work.id} ELSE snapshots
  /\ IF Mailing THEN pc' = "log" /\ UNCHANGED <<control, work>>
                ELSE LeaveReport(work.of, work.id)
  /\ UNCHANGED <<fixed, datasets, reports, notes, mails, recorded, next, faults>>

-----------------------------------------------------------------------------
\* core/email.py, for both runners.

\* The mail step is over: sent tells whether the provider confirmed.
MailOver(sent) ==
  IF workflow.kind = "plan" THEN pc' = "plan done" /\ UNCHANGED <<control, work>>
  ELSE StepOver("completed", Result("completed", Text(sent))) /\ UNCHANGED ctx

\* No address to send to: nothing is logged and nobody is told.
NoRecipient ==
  /\ pc = "log" /\ mode = "nobody"
  /\ MailOver(FALSE)
  /\ UNCHANGED <<fixed, rows, faults>>

\* create_email_log: a report deleted meanwhile violates the foreign key; the
\* mail is sent all the same.
LogMail ==
  /\ pc = "log" /\ mode # "nobody"
  /\ \E logged \in BOOLEAN :
       /\ IF work.id = 0 \/ work.id \in DOMAIN reports
            THEN (logged /\ UNCHANGED faults) \/ (~logged /\ Fault)
            ELSE ~logged /\ UNCHANGED faults
       /\ mails' = Append(mails, [of |-> work.of, names |-> work.dataset,
            report |-> work.id, logged |-> logged, status |-> "pending",
            attempts |-> 0, delivered |-> 0, lost |-> 0])
  /\ pc' = "send"
  /\ UNCHANGED <<fixed, control, work, datasets, reports, snapshots, notes,
                 recorded, next>>

\* A mail with this status and so many more copies in the mailbox: the last.
Updated(mail, status, attempts, copies, lost) ==
  [mail EXCEPT !.status = status, !.attempts = attempts,
               !.delivered = mail.delivered + copies, !.lost = mail.lost + lost]

Logged(status, attempts, copies, lost) ==
  mails' = [mails EXCEPT ![Len(mails)] = Updated(@, status, attempts, copies, lost)]

\* What the user is told of the mail is put into work for TellOfMail.
SendOver(sent) ==
  IF workflow.kind = "plan" THEN MailOver(sent)
  ELSE /\ work' = [work EXCEPT !.attempt = IF sent THEN 1 ELSE 0]
       /\ pc' = "tell" /\ UNCHANGED control

\* Nothing leaves the program: simulated if delivery is switched off.
SendNothing ==
  /\ pc = "send" /\ mode \in {"disabled", "unconfigured"}
  /\ Logged(IF mode = "disabled" THEN "simulated" ELSE "failed", 0, 0, 0)
  /\ SendOver(FALSE)
  /\ UNCHANGED <<fixed, datasets, reports, snapshots, notes, recorded, next, faults>>

Attempt == work.attempt + 1

Confirmed ==
  /\ pc = "send" /\ mode = "real"
  /\ Logged("sent", Attempt, 1, 0)
  /\ SendOver(TRUE)
  /\ UNCHANGED <<fixed, datasets, reports, snapshots, notes, recorded, next, faults>>

\* The attempt raises.  The provider may have taken the mail all the same, if
\* what raised came after that: its answer, or closing the session.
Raised ==
  /\ pc = "send" /\ mode = "real"
  /\ \E copies \in {0, 1} :
       Logged(IF Attempt <= MaxRetries THEN "pending" ELSE "failed",
              Attempt, copies, copies)
  /\ IF Attempt <= MaxRetries
       THEN work' = [work EXCEPT !.attempt = @ + 1] /\ UNCHANGED <<pc, control>>
       ELSE SendOver(FALSE)
  /\ UNCHANGED <<fixed, datasets, reports, snapshots, notes, recorded, next, faults>>

\* A simulated mail is told of as if it had been sent.
TellOfMail ==
  /\ pc = "tell"
  /\ notes' = IF work.id = 0 \/ work.id \in DOMAIN reports
                THEN Append(notes, IF work.attempt = 1 \/ mode = "disabled"
                                     THEN "mail sent" ELSE "mail failed")
                ELSE notes
  /\ MailOver(work.attempt = 1)
  /\ UNCHANGED <<fixed, datasets, reports, snapshots, mails, recorded, next, faults>>

-----------------------------------------------------------------------------
EndWord == IF final = "failed" THEN "end failed" ELSE "end completed"

\* The end of a run of steps: a notification, unless a step is there for it.
TellEnd ==
  /\ pc = "end"
  /\ \/ /\ notes' = IF Told THEN notes ELSE Append(notes, EndWord)
        /\ UNCHANGED faults
     \/ ~Told /\ Fault /\ UNCHANGED notes
  /\ pc' = "record"
  /\ UNCHANGED <<fixed, control, work, datasets, reports, snapshots, mails,
                 recorded, next>>

\* log_execution_history does not raise, log_usage_event does.
Record ==
  /\ pc = "record"
  /\ \/ recorded' = recorded \cup {final} /\ UNCHANGED faults
     \/ Fault /\ UNCHANGED recorded
  /\ pc' = "charge"
  /\ UNCHANGED <<fixed, control, work, datasets, reports, snapshots, notes,
                 mails, next>>

Charge ==
  /\ pc = "charge"
  /\ \/ recorded' = recorded \cup {"charged"} /\ UNCHANGED faults
     \/ Fault /\ UNCHANGED recorded
  /\ pc' = "done"
  /\ UNCHANGED <<fixed, control, work, datasets, reports, snapshots, notes,
                 mails, next>>

-----------------------------------------------------------------------------
\* run_plan, for workflows that hold a plan.

Current == CHOOSE k \in 1 .. Len(Steps) : Place(k) = at

PlanNext ==
  /\ pc = "plan done"
  /\ statuses' = [statuses EXCEPT ![Current] = "success"]
  /\ at' = at + 1 /\ pc' = "plan" /\ work' = NoWork
  /\ UNCHANGED <<fixed, results, outcome, ctx, final, rows, faults>>

PlanEnd ==
  /\ pc = "plan" /\ at > Len(Steps)
  /\ pc' = "record"
  /\ UNCHANGED <<fixed, control, work, rows, faults>>

\* The built-in handlers return; that of mail does whatever becomes of it.
PlanDispatch ==
  /\ pc = "plan" /\ at <= Len(Steps)
  /\ CASE Steps[Current].type = "email" -> pc' = "log"
       [] Steps[Current].type = "unhandled" -> pc' = "plan fails"
       [] OTHER -> pc' = "plan done"
  /\ work' = NoWork
  /\ UNCHANGED <<fixed, control, rows, faults>>

\* An error that is not a ValueError or a TypeError is tried again: of the
\* dynamic tools' requests, what breaks while the answer is read; a timeout
\* and an HTTP status are made ValueErrors.
PlanRequestFails ==
  /\ pc = "plan" /\ at <= Len(Steps) /\ Steps[Current].type = "http"
  /\ \E transient \in BOOLEAN :
       IF transient /\ work.attempt < MaxRetries
         THEN work' = [work EXCEPT !.attempt = @ + 1] /\ UNCHANGED pc
         ELSE pc' = "plan fails" /\ UNCHANGED work
  /\ UNCHANGED <<fixed, control, rows, faults>>

\* The first failure ends the plan; the steps after it are not listed.
PlanFails ==
  /\ pc = "plan fails"
  /\ statuses' = [statuses EXCEPT ![Current] = "failed"]
  /\ final' = "failed" /\ pc' = "record" /\ work' = NoWork
  /\ UNCHANGED <<fixed, at, results, outcome, ctx, rows, faults>>

-----------------------------------------------------------------------------
\* Other requests of the user, and the server.
Running == pc \notin {"done", "stopped"}

Upload ==
  /\ datasets' = datasets \cup {next.dataset}
  /\ next' = [next EXCEPT !.dataset = @ + 1]
  /\ UNCHANGED reports

DeleteDataset ==
  /\ \E d \in datasets : datasets' = datasets \ {d}
  /\ UNCHANGED <<reports, next>>

DeleteReport ==
  /\ \E r \in DOMAIN reports :
       reports' = [x \in DOMAIN reports \ {r} |-> reports[x]]
  /\ UNCHANGED <<datasets, next>>

Other ==
  /\ Running /\ others < MaxOthers /\ others' = others + 1
  /\ Upload \/ DeleteDataset \/ DeleteReport
  /\ UNCHANGED <<workflow, mode, pc, control, work, snapshots, notes, mails,
                 recorded, faults>>

\* The run is lost with the server; nothing takes it up again.
Stop ==
  /\ Running /\ Fault
  /\ pc' = "stopped"
  /\ UNCHANGED <<fixed, control, work, rows>>

StepNext == DryStep \/ SkipStep \/ StartStep \/ StepsEnd \/ FailStep \/ AnalyzeStep
            \/ NotifyStep \/ LoadForReport \/ LoadForMail \/ SaveReport
            \/ NoteReport \/ SaveSnapshot
MailNext == NoRecipient \/ LogMail \/ SendNothing \/ Confirmed \/ Raised \/ TellOfMail
EndNext  == TellEnd \/ Record \/ Charge
PlanWork == PlanNext \/ PlanEnd \/ PlanDispatch \/ PlanRequestFails \/ PlanFails
Run  == StepNext \/ MailNext \/ EndNext \/ PlanWork
Next == Run \/ Other \/ Stop

Spec == Init /\ [][Next]_vars

-----------------------------------------------------------------------------
Statuses == {"pending", "running", "completed", "skipped", "failed", "would_run",
             "success"}
Notes == {"step", "report", "mail sent", "mail failed", "end completed", "end failed"}

\* The run, its steps and the rows keep their types.
TypeOK ==
  /\ at \in 1 .. Len(Steps) + 1
  /\ statuses \in [1 .. Len(Steps) -> Statuses]
  /\ \A k \in DOMAIN results : results[k].sent \in {"True", "False", Unresolved}
  /\ final \in {"completed", "failed"}
  /\ ctx.of \in 0 .. next.dataset - 1 /\ ctx.id \in 0 .. next.report - 1
  /\ work.attempt \in 0 .. Max({1, MaxRetries})
  /\ datasets \subseteq 1 .. next.dataset - 1
  /\ DOMAIN reports \subseteq 1 .. next.report - 1
  /\ snapshots \subseteq 1 .. next.report - 1
  /\ \A k \in 1 .. Len(notes) : notes[k] \in Notes

Over     == pc = "done"
OfSteps  == workflow.kind = "steps" /\ ~workflow.dry

\* At the end every step is accounted for: without a failure each has run or
\* was skipped by its condition; with one it is the only one, none before it
\* is unfinished and none after it ran.
EveryStepIsAccountedFor ==
  Over /\ OfSteps =>
    IF final = "failed"
      THEN \E k \in 1 .. Len(Steps) :
             /\ statuses[k] = "failed"
             /\ \A j \in 1 .. k - 1 : statuses[j] \in {"completed", "skipped"}
             /\ \A j \in k + 1 .. Len(Steps) : statuses[j] = "skipped"
      ELSE \A k \in 1 .. Len(Steps) : statuses[k] \in {"completed", "skipped"}

\* The result listed for a step is its own, if no two steps go by one id: an
\* id that the definition gives may be the number another step gets for want
\* of one.
ResultsAreTheirSteps ==
  (\A j, k \in 1 .. Len(Steps) : workflow.kind = "steps" /\ j # k => IdOf(j) # IdOf(k)) =>
    \A k \in 1 .. Len(Steps) :
      workflow.kind = "steps" /\ statuses[k] \in {"completed", "would_run"} =>
        IdOf(k) \in DOMAIN results /\ results[IdOf(k)] = outcome[k]

\* One word at the end, and the right one: the run itself tells at most once,
\* what it tells is how it ended, it does not repeat a step that told, and
\* without a fault it is silent only where the definition has such a step.
EndNotes == {k \in 1 .. Len(notes) : notes[k] \in {"end completed", "end failed"}}
OneWordAtTheEnd ==
  /\ \A j, k \in EndNotes : j = k
  /\ \A k \in EndNotes : notes[k] = EndWord /\ \A j \in 1 .. Len(notes) : notes[j] # "step"
  /\ Over /\ OfSteps /\ EndNotes = {} =>
       faults > 0 \/ \E k \in 1 .. Len(Steps) : Steps[k].type = "notify"

\* A report is mailed under the name of its dataset, if the workflow names its
\* dataset or none came or went meanwhile.
MailsNameTheirDataset ==
  \A k \in 1 .. Len(mails) :
    workflow.kind = "steps" /\ (workflow.dataset # 0 \/ others = 0) =>
      mails[k].of = mails[k].names

\* The report a mail is filed under is the one that was mailed.
MailsNameTheirReport ==
  \A k \in 1 .. Len(mails) :
    mails[k].report \in DOMAIN reports => reports[mails[k].report] = mails[k].of

\* The log bounds what reached the mailbox: a mail counted as sent is there, no
\* attempt brings two copies, and a second copy takes a lost answer.
LogTellsDeliveries ==
  \A k \in 1 .. Len(mails) :
    /\ mails[k].status = "sent" => mails[k].delivered >= 1
    /\ mails[k].delivered <= mails[k].attempts
    /\ mails[k].attempts <= MaxRetries + 1
    /\ mails[k].delivered <= mails[k].lost + 1

\* "All attempts are recorded in email_logs": but for a fault, a mail without a
\* row is one whose report was deleted under way.
MailsAreLogged ==
  \A k \in 1 .. Len(mails) : ~mails[k].logged =>
    \/ faults > 0
    \/ mails[k].report # 0 /\ mails[k].report \notin DOMAIN reports

\* "Does not execute any tools, write to the DB, or send notifications": also
\* where a condition or a step comes first.
DryRunLeavesNothing ==
  workflow.dry => reports = <<>> /\ notes = <<>> /\ mails = <<>> /\ recorded = {}

\* A plan is run by priority up to the first failure: what is not begun comes
\* after all that was.
PlanIsRunInOrder ==
  workflow.kind = "plan" =>
    \A j, k \in 1 .. Len(Steps) :
      statuses[j] = "pending" /\ statuses[k] # "pending" =>
        Steps[k].priority <= Steps[j].priority

\* The run record tells what happened to each step of a workflow or a plan: what
\* ran, was skipped or failed, in which order, and with whose result.
StepsAreToldTruly ==
  TypeOK /\ DryRunLeavesNothing /\ EveryStepIsAccountedFor /\ ResultsAreTheirSteps /\ PlanIsRunInOrder

\* A mail names what it carries: the dataset and the report.
MailsNameWhatTheyCarry == MailsNameTheirDataset /\ MailsNameTheirReport

\* Every mail is in the log, and the log tells what reached the mailbox.
LogTellsOfMails == LogTellsDeliveries /\ MailsAreLogged

\* What was mailed, what the mail names, its row and what arrived belong together.
MailsAreTrue == MailsNameWhatTheyCarry /\ LogTellsOfMails

\* The step that is taken at a place, and how many were settled.
StepAt(i) == IF workflow.kind = "plan"
               THEN CHOOSE k \in 1 .. Len(Steps) : Place(k) = i ELSE i
Taken     == IF final = "failed" THEN at ELSE at - 1

Stepwise == INSTANCE StepwiseRun WITH
  Outcomes <- {"completed", "skipped", "would_run", "success"}, Failure <- "failed",
  Completed <- "completed", Failed <- "failed", MayGiveUp <- FALSE,
  settled <- [i \in 1 .. Taken |-> statuses[StepAt(i)]],
  left <- Len(Steps) - Taken, broken <- final = "failed",
  verdicts <- recorded \cap {"completed", "failed"}

\* Both runners carry out a run of steps: in the order of the list, or of the
\* priorities, each is settled once and its status stays, a failure is the last,
\* and the execution history gets at most one verdict, the right one, after all.
StepsAreRunStepwise == Stepwise!Spec
=============================================================================
