# ToolSmith AI: formal models

ToolSmith AI is a FastAPI server over one SQLite file. Request handlers run on
the threads of a pool, an APScheduler interval job runs due schedules in a
thread of its own, and nearly every operation is several storage calls, each
with a connection and a transaction of its own. A unit test exercises one such
operation from its beginning to its end. What it hardly reaches is what happens
*between* the calls: another thread acts, a call raises, the server stops, the
row is deleted. These modules model that, and the algorithms (the order of a
graph, the next run of a schedule, the rules that find a table's domain, the
order and the findings of a report) that everything above them trusts.

Paths are those of the repository; line numbers are in `PROJECT.json`, which
maps every definition to the code it stands for, lists the hazards each property
is about, and gives for each property a mutant of the code that violates it.

1. [The system](#1-the-system)
2. [The modules](#2-the-modules)
3. [The runs](#3-the-runs)
4. [What is proved](#4-what-is-proved)
5. [What disagrees](#5-what-disagrees)
6. [What is not modelled, and what is left](#6-what-is-not-modelled-and-what-is-left)

## 1. The system

| component | state | operations | hard about it | correct when | modules |
| --- | --- | --- | --- | --- | --- |
| engine approval (`core/engine/approval.py`, `data/engine/tool_store.py`, `approval_store.py`, save route) | `engine_tools.status`, `engine_approval_events` | save, submit, approve, reject, revoke, deprecate, auto-approval | load and check, write, log: three transactions; requests overlap, calls raise | alone: only the listed transitions; overlapping: no status that was not earned | `ToolLifecycle`, `ToolApproval` |
| executing approved tools (execute route, engine ticks) | `engine_runs` | load, gate, run | the gate looks at the copy that was loaded | revoking takes hold, only approved tools run | `GatedExecution` |
| engine runtime (`core/engine/runtime.py`, `run_store.py`, `registry.py`) | `engine_runs` | nodes in order with retries and failure policies, hooks, record | handlers, storage and hooks raise anywhere; stop | the record says what was done and is final | `ToolRuntime`, `StepwiseRun` |
| graph utilities (`core/engine/graph.py`) | none | detect a cycle, order the nodes | repeated edges, loops, cross edges | a topological order just when there is one | `GraphOrder` |
| scheduler (`data/scheduled_workflow_service.py`, `scheduler_run_service.py`, `api/app.py`) | `scheduled_workflows`, `scheduled_workflow_runs`, the tick lock | create, pause, resume, delete, run now, tick | ticks overlap routes and each other; many storage calls per run; restart | no slot runs twice; due slots run; rows and counts agree with what was run | `Scheduler` |
| schedule parser (`core/engine/schedule_parser.py`) | none | next run of an expression | ends of hours, weeks, months | the first match in the future | `CronNextRun` |
| metadata jobs and data sources (`data/datasource_service.py`, `schema_service.py`, full and structural profiling) | sources, `metadata_jobs`, `schema_snapshots`, `profiling_snapshots` | create, discover, profile, run the job, delete | version read before the insert; snapshot committed before its tables; jobs run twice; stop | a job says what was done, "latest" is the latest | `MetadataJobs` |
| domain and entity learning (`core/domains`, `data/domain_*`, the entity ones) | assignments, rules, refinements | assign, suggest, approve, reject, analyze, promote | check and write apart, on a profile in the middle of being saved | a decision stands; only approved rules apply | `DomainRules`, `LearnedRules` |
| data dictionary (`data/dictionary_service.py`, `core/dictionary`) | `data_dictionary_*` | generate, approve | generated over approved entries, of a snapshot read before | approved is what somebody approved; people's data is left to people | `DataDictionary` |
| batch profiling (`data/profiling_service.py`) | `profiling_snapshots`, `profiling_table_profiles` | start, continue | duplicate and overlapping calls, a stop between two transactions, deletion of the source | progress is never overstated; the client gets to the end | `BatchProfiling` |
| dataset files (`data/dataset_service.py`, `dataset_replacement_service.py`) | `datasets`, files, replacement records | upload, replace, reprofile, delete | file, row and record apart | the file the row names is there; profiles are of it | `DatasetFiles` |
| workflow runner, legacy plans, mail (`core/workflows/workflow_runner.py`, `core/execution/execution_engine.py`, `core/email.py`) | results, reports, notifications, `email_logs`, usage | run or dry-run a workflow | skips, conditions, retries, rows deleted meanwhile, lost answers of the mail server | every step is accounted for; one word at the end; the log bounds what was mailed | `WorkflowRunner`, `StepwiseRun` |
| report generator and its history (`core/tools/report_generator.py`, `core/intelligence/report_planner.py`, `report_strategy_engine.py`, `data/report_metric_snapshot_service.py`) | `report_metric_snapshots` | plan, build, order and cut sections; compare with earlier reports | caps, sorts and cuts in a row; runs interleave with each other's snapshots | what weighs most stays; headlines are of the rules; changes are real | `ReportTables`, `ReportSections`, `ReportAssembly`, `Reports` |
| accounts, login, invites (auth routes, `auth/`) | `users`, `admin_invites`, tokens | register, verify, sign in, change the password, create and use invites | look and write in different connections | nobody has a role unearned; no invite is used in vain | `Accounts` |
| rate limiter (`api/middleware/rate_limiter.py`) | two counters with windows | let in, turn away, count | failures are counted after the answer | overlapping requests exceed the limit only by what was under way | `Limits` |
| administered tools (`data/tool_service.py`, `core/registry/tool_registry.py`) | `tools`, the registry | create, edit, approve; read at start | approval and name are looked at before the write | approved tools come to rest as approved | `AdminTools` |
| audit log and retention (`data/audit.py`) | `audit.log`, `audit_logs` | append; a user's deletion; the purge | two copies; the file is read and replaced | both copies tell the same | `AuditLog` |
| composer, planner, tool schema (`core/composer`, `core/engine/planner.py`, `schema.py`) | none | text to proposal to description to definition | what was accepted once must be accepted for ever | every plan is an acceptable draft | `IntentComposer`, `ToolPlanning`, `ToolSchema` |
| workspaces (`data/workspace_service.py`, `workflow_service.py`) | `ai_workspaces`, `workflows` | compose, draft a workflow, execute, save, delete | two transactions, the second best-effort | links lead to what was made of the workspace | `Workspaces` |

How they meet: the routes call the services; a tick calls `handle_input` or
`execute_tool`; `execute_tool` calls `get_execution_order`, which calls
`detect_cycle`; a schedule gets its `next_run_at` from
`compute_next_run_from_cron`; the domain and entity assignments read the latest
profiling snapshot, which may still be in the middle of being saved; a workflow
loads a dataset, generates a report, saves, mails and notifies. There are no
messages and, but for reading a body, no await points: what interleaves are
threads, at their storage calls. SQLite serialises writes, so each storage call
is one atomic step of a model.

## 2. The modules

A component has a module with its mutants (operators that say in their comment
which definition they replace); where an instance needs more than a `.cfg` can
say, a module `MC...`; and where something is proved of it, `..._proofs`. The
proofs about an algorithm lie with those of the component that trusts it:
`GraphOrder`'s in `ToolRuntime_proofs`, `CronNextRun`'s in `Scheduler_proofs`,
`ToolApproval`'s in `GatedExecution_proofs`, and those of `MetadataJobs` and
`LearnedRules` in `DataDictionary_proofs`.
Histories are variables the program does not have, and are marked as such.

```
ToolApproval   (INSTANCE ToolLifecycle, which it refines)
  +-- GatedExecution
  +-- Administration
        EXTENDS Limits, Accounts, AdminTools, AuditLog, Workspaces
        each EXTENDS RequestThreads; Workspaces also IntentComposer, ToolSchema, ToolPlanning
MetadataJobs
  +-- LearnedRules   (DomainRules: the rules the services apply)
        +-- DataDictionary
ReportSections, ReportTables
  +-- ReportAssembly
        +-- Reports
ToolRuntime, WorkflowRunner   (INSTANCE StepwiseRun, which both refine)
on their own: Scheduler, CronNextRun, GraphOrder, BatchProfiling, DatasetFiles
```

**`ToolLifecycle`, `ToolApproval`.** `ToolLifecycle` is what the header of
`approval.py` promises: five edges, one at a time. In `ToolApproval` a request
is a plan (one operation, or the pair of the auto-approval) that a worker works
off in the steps `Load` (load and check), `UpdateStatus` (the write, which does
not look again) and `Emit` (the event); `Fail` ends it before any of them.
`SaveTool` is the save route. Histories: the status a tool was saved with, and
those it has had. Names, notes and versions are left out.

**`GatedExecution`** composes `ToolApproval` with the threads that execute tools:
`LoadTool` reads the definition and passes the gate on what it read, `CreateRun`
creates the row without looking again, `Finish` stores the outcome. History: the
runs created since the tool was last taken from approved.

**`ToolRuntime`.** One call of `execute_tool`, from the gate to the hooks, with
the settings of the nodes chosen in `Init`: failure policy, attempts, and
whether a handler is registered. Each storage call, hook and handler is an
action, and can raise; the exception handler with its two calls is modelled as
it is written. Outputs and templates are left out: an attempt answers or raises.

**`StepwiseRun`** is what the engine and the workflow runners have in common, and
promise without saying it: the steps of a run are settled one after another and
for good (`Settle`); one that breaks the run is the last (`Break`); and one
verdict is recorded, completed if every step was settled and none broke the run
(`Complete`), failed if one did (`Fail`), after which nothing is settled any
more. `MayGiveUp` says whether a run may also fail for another reason: the
engine's may, when a call around its nodes raises. `ToolRuntime` implements it
with its list of results and the stored status (`NodesAreRunStepwise`),
`WorkflowRunner` with the statuses of the steps in the order in which they are
taken, and what is in the execution history (`StepsAreRunStepwise`).

**`GraphOrder`.** `detect_cycle` and Kahn's algorithm, one action per edge
looked at, on a graph chosen in `Init`: nodes are positions, edges a sequence,
with repetitions and loops, which the validation accepts.

**`Scheduler`.** A thread has a label (`next`, `record`, `work`, `settle`,
`except`, `complete`, `fail`), which is the storage call it is about to make;
each call is an action, its failure another (`...Fails`). `TickStart` takes the
process-wide lock and reads the due rows once, with their slot, which may be
stale when it is used; `Advance` writes `next_run_at` before anything is run. A
manual run shares the steps of a tick from `RecordRun` on. What a text makes of
a schedule is one of four kinds. A deleted schedule takes its run rows along.
`Crash` empties threads and lock. History: the slots whose execution was
started, per schedule.

**`CronNextRun`.** The computation as operators on minutes, one per pattern
`parse_schedule_intent` produces, beside what an expression *means*
(`Matches`, `IsNext`); and a schedule in time, which is created at some minute
and found due, on time or late, by ticks. The calendar is a set of days on which
months begin. Matching minute by minute is modelled by its result, the first
match; recognising a phrase is left out.

**`MetadataJobs`, `LearnedRules`, `DataDictionary`** share the threads and extend
one another. A discovery is the connector's answer, the version, the insert
(refused by the unique index or the foreign key) and the source's
`last_snapshot_id`; a profile is the schema snapshot, the version, the snapshot
committed as COMPLETE, and its tables one by one; the job runs both and records
how it went. `DomainRules` holds the pure rules: the score of a domain in tenths,
which naming rule matches, what is suggested from unknown tables, which finer
rule lies below a broad one; a table is its schema, the words of its name and
the points each domain gets (`Signals`). `LearnedRules` has the requests that
read in one connection and write in another: generate, suggest, decide, analyze,
promote. Entities run the same code, without the refinements. `DataDictionary`
adds generation and approval of entries. Histories: whether requests overlapped
(`overlapped`, `mixed`), whether two decisions about one row did (`clash`), what
was ever approved.

**`BatchProfiling`.** The plan is a number of tables and which of them are
profiled with SQL. A call of continue is answered from the row (`AnswerRow`) or
loads it (`Load`), saves its batch (`Save`, `INSERT OR IGNORE`), writes the
snapshot (`Update`: index and status from what was loaded, counts added to what
is there), reads it back (`ReadBack`) and counts the depths (`CountDepths`).
`Fail` ends a call before any of these; `DeleteSource` cascades. That deletion
is refused while a metadata job runs is left out: it only takes deletions away.
History: whether calls have overlapped.

**`DatasetFiles`.** The row (which file it names, of which file its profiles
are), the records by the file they brought, the files on the disk and those
nobody can parse. Upload and replacement are coroutines without an await past
the reading of the body, so the event loop serves one at a time (`LoopIsFree`);
reprofiling and deletion run in threads beside them. Writes, statements and
parsing fail, and the server may stop between any two steps.

**`WorkflowRunner`.** One run of a workflow of either form. A step has a type,
an optional id and condition; its outcome, the report it leaves, the rows and
the mails it makes are state. Meanwhile the user uploads and deletes. A mail
leaves the program before its row is updated; an attempt that raises may have
been taken by the provider all the same, and is tried again.

**`ReportTables`, `ReportSections`, `ReportAssembly`, `Reports`.** The tables of
the planner and the strategies; what each rule finds in a stored profile; how
the sections are put together, ordered, filtered and cut; and runs over time,
each of which loads the dataset, the latest snapshot and up to ten of them,
generates, saves the report and saves a snapshot of what was *returned*. A
finding is the rule that found it and its grade; a text is the set of the phrases
it contains; shares are compared by cross-multiplication.

**`RequestThreads`, `Limits`, `Accounts`, `AdminTools`, `AuditLog`,
`Workspaces`.** A request is a job that goes from one storage call to the next
(`Begin`, `At`, `Goto`, `End`). `Administration` puts them together with
`ToolApproval` behind the limiter (`Arrive`, `Continue`, `Clock`), and adds
`Restart`: requests are lost, the limiter starts anew, the registry is read. An
account is a row by address, in two spellings of one mailbox, since invites are
lower-cased and accounts are not. `AdminTools` edits one field per request, as
looked at and as written. `AuditLog` keeps file and table apart. `Workspaces`
composes (`IntentComposer`), drafts a workflow and links it in a second
transaction. `ToolSchema` is `validate_tool_definition` over small JSON values,
`ToolPlanning` is `plan_tool`.

Not composed: `Scheduler` assumes of `CronNextRun` that a next run lies in the
future (constant `Periods`), which `RunsAreLater` proves for all patterns but the
hourly one; `ToolRuntime` assumes of `GraphOrder` an order in which nodes are
numbered, which `SortingIsRight` proves there is.

## 3. The runs

| run | instance | shows |
| --- | --- | --- |
| `Gated` | 1 tool, 1 approval worker, 5 requests, 2 threads that execute, 4 runs | every write is a transition of `ToolLifecycle` and the trail leads to the status; a revoked tool is started at most once more by each thread; only what was approved runs |
| `SchedulerSafety` | 2 schedules (one makes another, one runs an engine tool), 2 tick threads, 1 manual run, 1 fault, 1 restart | slots run at most once, completed runs worked, rows have runners and counts agree |
| `SchedulerLive` | 2 schedules, 1 tick thread, 1 fault, 2 clock ticks | due slots run, in spite of an aborted tick |
| `Runtime` | 3 nodes, every policy, 2 attempts, 2 faults, a stop | records stand; attempts follow the policies; a run is a `StepwiseRun` whose row is final |
| `CronNextRun` | all patterns, starts around boundaries, runs on time or late | next runs are the first matches, and in the future |
| `GraphOrder` | every graph of 4 nodes with up to 4 edges | verdict, order, completeness |
| `BatchProfiling` | plans of 0 to 5 tables, batches of 2, a client and 2 duplicates, 1 fault, deletion | progress is saved, totals add up, nothing outlives the source, the client finishes |
| `Metadata` | 5 tables, 2 threads, 3 requests, 1 fault or stop, deletion; from the start and from six later stages | jobs tell the truth, snapshots are in order, only approved rules are learned from, what is known of a source is sound and current, decisions stand |
| `DatasetFiles` | 1 dataset, 3 requests at once, 5 in all, 4 files, 2 faults | the row's file is there, profiles are of it, the history of replacements is true |
| `WorkflowRunner` | 9 workflows, every kind of mail set-up, 1 retry, 3 uploads or deletions, 2 faults | steps are told truly, one word at the end, mails and their log; a run is a `StepwiseRun` |
| `Reports` | 5 files by 11 requests with a fault; 4 reports in a row by 2 runs, of two files or by two requests | what weighs most is kept, headlines are those of the rules, changes are real |
| `Administration` | 2 handler threads, 4 requests of one component, a restart, limits of 1 failure and 3 requests; or 3 approval workers with failures | approvals, limits, accounts, tools, audit and drafts when looking and writing are apart |

Several properties are conjunctions of named parts, each a sentence of its own in
the module. Type invariants are among the parts:

| property | parts |
| --- | --- |
| `BookkeepingAgrees` | rows that run have a runner; run counts agree with what was run |
| `AttemptsFollowPolicies` | a failed graph stops; only exceptions are tried again |
| `NodesAreRunStepwise` | the refinement of `StepwiseRun`; a terminal row is not rewritten |
| `GraphsAreOrdered` | the search's verdict; the order respects the edges; the sort never stops short |
| `NextRunIsExact` | in the future but for the hourly patterns; first match for fixed hours; legacy weeklies on their weekday; every multiple for steps that divide their unit |
| `ProgressIsTrue` | progress is saved; counts agree while no calls overlapped |
| `JobsTellTheTruth` | RUNNING is being run, COMPLETE left a full profile, a thin profile is being saved |
| `SnapshotsAreInOrder` | versions follow the inserts; without overlap newer profiles are of newer schemas |
| `LearnedWasApproved` | learned assignments are of approved, fitting rules; promoted refinements were approved; one rule for a pattern; suggestions name no domain |
| `KnowledgeIsSound` | assignments are of tables in the profile they name; nothing outlives the source; entries are of a snapshot with the item, approved just if somebody did, and leave people's data to people |
| `KnowledgeIsCurrent` | what was generated with nothing in between is of the newest profile and of the newest snapshot |
| `HistoryIsTrue` | successes are not undone, pending records are attended to, files are accounted for, the history goes with its dataset |
| `StepsAreToldTruly` | a dry run leaves nothing; every step has a status and result, and they are its own; the plan is run in order |
| `MailsAreTrue` | a mail carries the report it names; the log bounds what was delivered |
| `ApprovalsAreEarned` | every status is earned; the trail invents nothing |
| `AccountsAreEarned` | types; tokens and administrators are earned; without a restart no used invite was in vain |
| `ToolsAreAsApproved` | edits of an approved tool end, names settle, the registry was approved |
| `WorkflowsAreSound` | stored workflows can run; links are true |
| `PlansAreSound` | every text composes; every plan is a draft; accepted tools load again; no proposal that is kept is said to be less of a risk than a step of it |

*Bounds.* Every bound is a constant named in its module. They are chosen so that
the interesting case is inside. Three approval workers: one to pass the check,
two to move the tool on meanwhile; four requests are a whole cycle. Two
schedules: one that is executed and one that is made, paused or deleted
meanwhile; two tick threads for the lock; one fault and one restart, since each
step may be the one they hit. Three nodes put one before and one after the node
that fails; two faults make the handler of an exception raise as well. The
calendar has months of 29, 30 and 31 days (the proofs allow 28). Four nodes and
four edges hold two paths to one node, repeated edges, and cycles off the path
first searched. Five tables in batches of two: two full batches and a short
one; zero to four tables are among the plans as well, so the last batch is also
a full one.

In `Metadata` the life of a source is too long to be searched from its creation:
`Stages` are states that requests one after the other lead to (a source profiled;
its rules suggested; one approved and applied; all of them, with finer rules
found; those approved as well; its dictionary generated), and from each of them, and from scratch, three requests overlap. The five tables are two
unknown ones, two that begin like them and one that does not, one of them for
staging; with `MinSupport` 2 the patterns of pairs count, as those of three do
in the code. In one behaviour requests are about rules or about the dictionary.
In `Administration`, `area` is such a bound: in one behaviour the requests of one
component arrive. The components have no tables in common, and what they share
(the limiter, the threads, the restart) is in every behaviour. `Intents` are the
texts of workspaces, with and without a dataset; about composing alone, the
parts of `PlansAreSound` speak of every combination of telling words. `Tweaks`
are what the description of an ordinary tool of two nodes may have in place of
its values: two at a time, some two thousand descriptions. `DatasetFiles` needs
three requests at once (one in the loop, two threads beside it) and two faults,
to fail and then to fail in cleaning up. The workflows of `WorkflowRunner` are
those in which steps meet: a report mailed later, a report of another dataset,
conditions on what came before, ids that are positions of others, a notification
that is skipped. The files of `Reports` have more findings than are told, none
at all, ties, and no rows; the histories are long enough to compare with one
report, with several, and with one that another run saved in between.

*Deadlock* is not checked: requests, runs and computations end, and the bounds
end the rest.

*Fairness* is stated where liveness is. `SchedulerLive` assumes that a thread
that runs goes on (weak fairness of its own steps, never of failures), and that
the interval job fires again and again, which `api/app.py` starts at 60-second
intervals with the server, and not that any tick is free of faults: their number
is bounded, no more. `BatchProfiling` assumes that a call goes on and that the
client calls again as the docstring of start tells it to ("Call
continue_batch_profiling repeatedly until status=COMPLETE"). Elsewhere nothing
in the code promises that a request is ever made again: a job left RUNNING or a
record left pending by a stop is never looked for.

Each property of each run is shown not to be vacuous by a mutant in
`PROJECT.json`: a definition with the change a plausible bug would make, under
which the same run finds the property violated.

## 4. What is proved

All theorems are checked by TLAPS for every value of the constants that the
named assumption of the module allows.

| theorem | for any number of | inductive argument |
| --- | --- | --- |
| `GatedExecution_proofs!StatusesAreEarned`, `TrailIsTrue` | tools, workers, requests, failures | the stored status was visited; a worker past its check relies on a status that was visited, not on the one there is (`HistoryInv`) |
| `SerialImplementsLifecycle` | tools and requests, one worker | between check and write nobody else acts (`LoadIsFresh`), so each write is a `Move` of the lifecycle |
| `SerialTrailIsComplete` | tools and requests, one worker, no failing call | the trail is one event behind the status just while the worker is about to log it (`TrailInv`) |
| `ImplementsApproval`, `RevocationTakesHold`, `OnlyEarnedToolsRun` | the above, and threads that execute | executions leave the approvals alone, so what is proved of them carries over; runs since a tool left approved and threads still past the gate are together no more than the threads there are |
| `Scheduler_proofs!SlotsRunOnce` | schedules, threads, faults, restart | one tick at a time holds pairs of a schedule and a slot; a pair still to be advanced is the slot the row has; a slot that was taken lies before it; all slots already run lie before both (`SlotInv`) |
| `CompletedRunsDidTheWork` | the same, with no schedule whose text is only a recurrence | a tick past the execution did the work, and a row that a manual run closes is no tick's (`WorkInv`) |
| `BooksAgree` | schedules and threads, while nothing is disturbed | a thread past the recording has a row of its schedule, or the schedule was deleted before there was one; a running row has its one thread; counts are ahead of the closed rows by the threads about to close one (`Book`) |
| `ToolRuntime_proofs!CompletedRunsStand`, `AttemptsFollowThePolicies`, `TerminalRecordsAreFinal` | nodes, attempts, faults, a stop | which row each stage meets, that only the last step can have failed the graph, how often handlers were called (`RunInv`) |
| `ToolRuntime_proofs!RuntimeRunsStepwise` | the same | while nodes are run the row is RUNNING, so nothing was recorded; a result is appended, and is FAILED if it breaks the graph; the row becomes terminal once (`RunInv`) |
| `Scheduler_proofs!NextRunsAreExact`, `RunsAreLater`, `DividingStepsAreExact` | schedules, minutes, steps, calendars with months of 28 to 31 days | the next run is always the one computed at the time of the last (`Computed`), and lemmas about each pattern: a remainder by a divisor may be taken after one by a multiple of it (`ThroughMultiples`), and nothing lies between a time and the next multiple (`RoundedUp`) |
| `ToolRuntime_proofs!CycleSearchIsRight`, `SortingIsRight`, together `OrderingIsRight` | nodes and edges | the search: grey nodes are the stack, black ones have only black successors and lie on no cycle (`SearchInv`). The sort: in-degrees count the edges still to be taken off, queue and order hold a node once and hold it when nothing is left before it (`SortInv`); nodes left over would all have a predecessor among themselves, a cycle |
| `BatchProfiling_proofs!ProgressIsReportedTruly`, `DeletionIsFinal`, `TotalsAddUp` | tables, batch sizes, callers, duplicates, faults | whatever a call may still write into the index is already covered by profiles (`CallsAreCovered`), and profiles are only ever taken back with the snapshot; while calls do not overlap the one there is started at the index (`CountsAreOrderly`), and what it finds saved after its update is exactly what lies before it (`SavedInOrder`) |
| `DatasetFiles_proofs!TheFileStays`, `HistoryTellsTheTruth`, `ProfilesFollowTheFile` | requests, files, failures, stops | one request at a time is in the event loop, files it has written and not yet named in the row are its own, and no file but a removed one's is unlinked while the row names it (`FilesInv`); a file nobody knows was left by a fault (`StraysInv`); while requests come one at a time, what is being profiled is the file of the row (`AloneInv`) |
| `DataDictionary_proofs!JobsAreTrue`, `OrderHolds` | workers, discoveries, jobs, faults, deletion, with dictionary and rules going on beside them | who marks a job COMPLETE has left a whole profile, a profile with tables missing has its one worker who knows which, and versions are the places of the inserts (`MetaInv`); while requests do not overlap the one there is works on the newest schema (`OrderInv`) |
| `KnowledgeHolds`, `KnowledgeStaysCurrent` | the above, rules, refinements, tables, entries | snapshots only grow while there is a source (`Grows`), so what a request has read of one stays of it; an item has at most one row, approved just if it was signed (`KnowInv`); without overlap and fault what a generation has read is still so when it writes (`CurrentInv`) |
| `LearnedIsApproved`, `DecisionsHold` | the above, with labels, patterns and keyword signals of any kind | an approved row's pattern and label were approved by somebody, and rows only change from PENDING or are added under a pattern of their own; what a thread holds to write was approved, or is written as PENDING (`PapersOK`); tables without a domain have no rivals kept, so nothing is inferred of them; while no two decisions about one row are under way, each finds its row PENDING (`DecisionsOK`). These are `LearnInv`, which rests on what the rules compute: a list sorted by a key holds each member of its set once (`SortedByEnumerates`), and `Suggestions` and `Refinements` are rows of their tables (`SuggestionsAreRows`, `RefinementsAreRows`) |
| `WorkflowRunner_proofs!StepsTold`, `OneWord`, `MailsTrue` | workflows of any length and form, retries, mails, reports, faults, rows deleted meanwhile | the steps before the current one are settled and have their results under their ids, and a plan's are ordered by places, which are a permutation (`Progress`); reports and datasets carried along are those of their rows (`Locals`); the mail under way is the last one, whose attempts are the retries so far (`Tables`); the end is told once and last (`NotesOK`) |
| `WorkflowRunner_proofs!RunnersRunStepwise` | the same | a step writes the status at its own place, or at later ones too if it fails, and the places of a plan are a permutation (`StepsAtPlaces`), so what was settled stays (`OneMoreSettled`); nothing is recorded before the end, and a run without a failure comes there with all its steps behind it (`RecordOK`) |
| `Administration_proofs!LimitsAreKept` | threads, limits, windows, restarts | for every request that may still be answered 401 there is a thread: answering one 401 more is one thread less that may fail (`LimitsInv`) |
| `RestartsKeepApprovals` | the above, with approvals among other requests and a server that is restarted | a restart drops the requests, and what was relied on with them |
| `AccountsStayEarned` | threads, addresses, invites, restarts | a handler writes by what it looked at before; nothing it relies on (`Relies`) is ever taken back (`Grows`): accounts keep their roles, invites their addressee, and used ones stay used |
| `ToolsComeToRest` | threads, tools, names, restarts | of the threads, one approves, and each other has at most one edit left to write (`EditsHold`); all threads that bring a name are counted against one place more, because a rename to the name a tool already has adds one only once that tool is renamed away (`NameFits`) |
| `AuditAgrees` | threads, users, entries, removals, restarts | of an entry that no failure and no overlap exposed: it is in the file and not yet in the table while it is written, by nobody else removed meanwhile; is removed by one request, which has read all of the file that is to stay; and else is in both or in neither (`RecordsInv`) |
| `DraftsStaySound` | threads, workspaces, texts, workflows, restarts | a proposal is attached only while the workspace has none, so what was checked when a draft began is still there when it is stored (`ProposalsInv`); a link is written by the request that stored its workflow (`LinksInv`) |
| `AcceptedForEver` | every description of a tool, of any nodes, edges and texts | not an invariant but of the operators: node by node and edge by edge, what is built of an accepted part is stored as a part that is accepted and built the same (`NodeAgain`, `EdgeAgain`, `GraphAgain`); of `Strip` only that stripping twice is stripping once |
| `PlansStaySound` | threads, workspaces, texts, tweaks of descriptions, restarts | what is taken in the order of a list is a part of it without repetitions and is taken the same again (`TakenInOrder`); a plan's nodes have the ids of their places, so its graph is sound (`DraftFacts`), and `AcceptedForEver` does the rest; that a proposal tells its risk is a part of what is known of a proposal from its composing to its workspace (`Demands` in `ProposalsInv`) |

and the types: `TypeCorrect` for `ToolApproval`, `Scheduler`, `ToolRuntime`,
`BatchProfiling`, `DatasetFiles` and `DataDictionary` (with `MetadataJobs` and
`LearnedRules`), `CronTypeCorrect`, `GraphTypeCorrect`; those of `WorkflowRunner`
are in `RunInvHolds`, those of `Administration` part of `AccountsAreEarned`.

The invariants are needed because none of the properties is inductive as it
stands. "No slot runs twice", for example, speaks only of what was run; a step
that runs a slot is harmless only because the slot a tick holds is above all
those, and that in turn because `next_run_at` was advanced by the same tick,
which is why the lock, and the order of advance and execution, appear in the
invariant. "Every administrator has a used invite" speaks only of rows; the
insert is harmless only because its request still relies on the invite it used
two storage calls before. "Both copies of the audit agree" speaks only of the
moments when nothing is under way, and is kept by knowing of each entry, at every other
moment, which request is about to put right what differs.

The proofs corrected the models where these were wrong. An id of the audit was a
cardinality, which comes back after a removal; it is one more than any id so far.
The words of a table's name were read past their end when a rule looks for what
tells two patterns apart. From the stages the `Metadata` run had, no dictionary with
approved entries was ever generated again; from a generated one, which it now
starts from as well, it is. Two approved refinements with one pattern made two rules
when they were promoted by one request; `ON CONFLICT DO NOTHING` applies row by
row, so they make one.

Assumptions are those on the constants (`...Assumption`), which TLC evaluates on
every run: positive sizes and limits, finite sets of threads, months of 28 to 31
days, next runs in the future. `DomainsAssumption` says that the signals of the
keyword rules are numbers and that tables and words are finite; `StagesAssumption`
says of the stages the `Metadata` run starts from, besides the start itself, that
the rules in them are as requests can have left them. `TweaksAreJson` says that
what is said to be a list is one.

*Only model-checked*, in the instances above:

- the liveness of `DueSlotsRun` and `ClientFinishes`, which the prover cannot
  treat;
- the three properties of `Reports`: what their recursive folds compute for every
  input needs an induction over data the prover does not offer; there the bound is
  the choice of files, requests and tables. (Where the least number or a greatest
  value was all that was needed, as for the tie-breaks of `DomainRules`, it is
  had from the well-foundedness of finite subsets: `LeastNumber`.)

## 5. What disagrees

Where code and words differ. None of it is asserted by a run; where a
property had to be weakened for it, the property's comment says so.

*Approvals.* Every transition is said to validate the current status
(`core/engine/approval.py`); the status validated is the one loaded, and two
requests that overlap take a tool from approved back to pending. An
auto-approval that fails half way is said to leave the tool in draft
(`api/v1/routes.py:1265`); after the submission it is pending approval.

*Schedules.* The job is said to execute all due workflows; one whose text only
names a recurrence makes another schedule instead, and is recorded as completed.
"Every N hours" computed in an hour that is a multiple of N gives the beginning
of that hour, so the schedule is due at every tick. A schedule that is paused
after a tick read its rows is still executed in that tick. A minute step that
does not divide 60 misses the full hour, which its expression matches.

*Runtime and graphs.* Unexpected errors are said to update the run to FAILED;
when saving the steps is what raised, the handler saves them again, raises too,
and the row stays RUNNING. The order of nodes that are ready together is by when
they became ready, not always by position. A cyclic graph is accepted when a
tool is saved, and refused when it is executed.

*Metadata.* An empty plan of a batch stays RUNNING whatever the client calls; a
repeated call on a COMPLETE snapshot is answered with no depths; overlapping
repetitions of a batch, whose insert is called safely idempotent, add its tables
to `tables_profiled` twice (the condition of `CountsAgree`). A job is retried by
repeating all of it. `last_snapshot_id` is written and never read.

*Learned rules.* Rules suggested from unknown tables always say Unknown, since
the rivals they would be inferred from are only kept for tables with a domain;
approving one hides what the generic engine would find. `analyze_rule_refinement`
is called read-only and inserts. A rule that is pending or rejected silently
blocks the promotion of a refinement with its pattern; a promoted rule stands
behind its parent, which may go on matching first. Promotion has no route.
Assignments of tables that have vanished stay. Generating a dictionary again
keeps `is_approved` over a text nobody has seen.

*Datasets.* A replacement that fails after the row was pointed at the new file
is recorded as failed and not taken back.

*Workflows.* A workflow whose notification step is skipped, or comes after the
step that failed, ends without a word, because such a step counts as one that
ran (`core/workflows/workflow_runner.py:674`). `http_request` turns timeouts into
a `ValueError`, which is not retried. A mail whose row cannot be inserted,
because its report was deleted, is sent without one; an answer of the mail server
that is lost leads to a second copy. Usage is charged for runs that failed.

*Reports.* "All builders still run so inter-section references (historical,
drift) remain correct" is true of one report and not of the next: the snapshot holds the sections that
were returned, so a section that was cut or not selected shows as a change.
A hint that "always wins" has a weight (executive 3.4 against 3.1 for a KPI
summary, and the user's words are added). Recommendations "ordered by priority"
stand in the order of the rules. Sections of the AI narrative have no score and
come last. The strategy types `missing_data` and `trend_insights` match no
section; `max_sections` 0 is ignored; `section_order` is computed before sections
are selected and cut.

*Composer and schema.* The type of a report is never unknown, so that every
workflow asks for a dataset; a refinement by the model may take that demand away.
"Email and notify", without a word of a report, loses the mail step. A number in
place of the approvers raises a `TypeError` and not a `SchemaValidationError`; an
explicit null for the parameters is refused where an absent one has a default.

*Administration.* "Approved tools are immutable" but for requests that had
looked before; names are unique but for requests that looked at once; two
requests may both pass `consume_invite`, which is to mark "atomically"; an invite
is used up although its address has an account. Invites are in lower case and
accounts are not. A line that is appended to `audit.log` while it is rewritten is
lost, or comes back after its deletion. The purge goes on to the file although
the rows could not be deleted. A workspace may go from saved back to executed,
and a second draft takes the link from the first workflow.

## 6. What is not modelled, and what is left

*Not modelled*, because it keeps no state and its answers are scores or wording:
business intelligence (heuristics over column statistics in floating point), the
classification and the statistics of profiling, the texts, segmentation and
forecast numbers of reports and their renderings, the domain quality report
(whose flags are those of the refinement analysis, which is modelled), the words
of dictionary entries, the phrases the input handler and the schedule parser
recognise. Because it is I/O or a library: connectors and schema discovery, the
database layer and migrations (constraints that matter are in the modules that
meet them), configuration and encryption, the frontend. Stubs: the engine hooks,
of which `ToolRuntime` has that they may raise. The REST layer's parsing,
permissions and status codes; its handlers with control of their own are in the
modules of their services.

Left out of components that are otherwise modelled, each one statement or data:
the connectivity test of a source, renaming a dataset, exports and marking
notifications as read, expiry of tokens and inactive accounts, API keys, the copy
of the graph in `engine_graphs`.

*What is left*, in order: of `ChangesAreReal` the part that needs no fold, that a
run compares with snapshots of its own dataset only and in the order they were
saved; an abstract life cycle of the metadata job and the refinement that
`MetadataJobs` implements it while runs do not overlap; the composition of
`Scheduler` with `WorkflowRunner`.
