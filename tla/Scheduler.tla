----------------------------- MODULE Scheduler -----------------------------
(***************************************************************************)
(* The background scheduler of data/scheduled_workflow_service.py: the     *)
(* interval job that runs whatever is due, the run-now route, and the      *)
(* routes that create, pause, resume and delete schedules meanwhile.  Each *)
(* storage call commits on its own, so another thread may act between any  *)
(* two of them; a call may raise, and the server may stop.                 *)
(*                                                                         *)
(* Time is a counter; next_run_at is always computed in its future (module *)
(* CronNextRun asks whether the computation does that).  The text of a     *)
(* schedule is abstracted to what handle_input makes of it:                *)
(*   "plain"   a task, executed                                            *)
(*   "both"    a task with a recurrence and a now-signal: executed, and a  *)
(*             schedule is created for the recurrence                      *)
(*   "future"  a task with a recurrence only: the early exit creates a     *)
(*             schedule and executes nothing                               *)
(* and "engine" is a schedule with an engine_tool_id, whose text is the    *)
(* name of the tool.                                                       *)
(***************************************************************************)
EXTENDS Sequences, Naturals, FiniteSets

CONSTANTS
  Ids,          \* ids schedules may get; AUTOINCREMENT never reuses one
  Tickers,      \* threads in which the interval job may fire
  Users,        \* threads that serve the run-now route
  Kinds,        \* the kinds of schedule users create
  Periods,      \* distances from now at which a next run may be computed
  MaxClock,     \* bound: clock ticks
  MaxFaults,    \* bound: storage calls that raise
  MaxManual,    \* bound: manual runs
  MayCrash,     \* whether the server may stop (once)
  Free          \* the tick lock when nobody holds it

ASSUME SchedulerAssumption ==
  /\ Kinds \subseteq {"plain", "both", "future", "engine"}
  /\ Periods \subseteq Nat \ {0} /\ Periods # {}
  /\ MaxClock \in Nat /\ MaxFaults \in Nat /\ MaxManual \in Nat
  /\ MayCrash \in BOOLEAN
  /\ Tickers \cap Users = {} /\ Free \notin Tickers

VARIABLES
  sched,        \* scheduled_workflows
  runs,         \* scheduled_workflow_runs, in id order
  lock,         \* _scheduler_tick_lock
  thr,          \* what each thread is doing
  clock,        \* the time
  faults,       \* storage calls that raised
  manual,       \* manual runs that were asked for
  crashed,      \* whether the server stopped already
  ran           \* history: the slots whose execution was started, per schedule

rows == <<sched, runs>>
env  == <<clock, faults, manual, crashed>>
vars == <<sched, runs, lock, thr, env, ran>>

Threads == Tickers \cup Users

\* The idle thread; run = 0 stands for run_id None.
Idle == [pc |-> "idle", due |-> {}, cur |-> Free, slot |-> 0, run |-> 0,
         did |-> FALSE]

Unborn == [state |-> "unborn", kind |-> "plain", enabled |-> FALSE,
           next |-> 0, runCount |-> 0]

Live(i) == sched[i].state = "live"
Due(i)  == Live(i) /\ sched[i].enabled /\ sched[i].next <= clock

-----------------------------------------------------------------------------
Init ==
  /\ sched   = [i \in Ids |-> Unborn]
  /\ runs    = <<>>
  /\ lock    = Free
  /\ thr     = [k \in Threads |-> Idle]
  /\ clock   = 0
  /\ faults  = 0
  /\ manual  = 0
  /\ crashed = FALSE
  /\ ran     = [i \in Ids |-> <<>>]

\* The row create_scheduled_workflow inserts.
NewRow(kind, p) == [state |-> "live", kind |-> kind, enabled |-> TRUE,
                    next |-> clock + p, runCount |-> 0]

\* A storage call raises.
Fault == faults < MaxFaults /\ faults' = faults + 1 /\ UNCHANGED <<clock, manual, crashed>>

Goto(k, label) == thr' = [thr EXCEPT ![k].pc = label]

-----------------------------------------------------------------------------
(* The routes. *)

Create(i, kind, p) ==
  /\ sched[i].state = "unborn"
  /\ sched' = [sched EXCEPT ![i] = NewRow(kind, p)]
  /\ UNCHANGED <<runs, lock, thr, env, ran>>

Pause(i) ==
  /\ Live(i)
  /\ sched' = [sched EXCEPT ![i].enabled = FALSE]
  /\ UNCHANGED <<runs, lock, thr, env, ran>>

\* next_run_at stays what it was: a long pause leaves the schedule due.
Resume(i) ==
  /\ Live(i)
  /\ sched' = [sched EXCEPT ![i].enabled = TRUE]
  /\ UNCHANGED <<runs, lock, thr, env, ran>>

\* The run rows of the schedule go with it: ON DELETE CASCADE.
Delete(i) ==
  /\ Live(i)
  /\ sched' = [sched EXCEPT ![i].state = "deleted"]
  /\ runs'  = [r \in DOMAIN runs |->
                 IF runs[r].sched = i THEN [runs[r] EXCEPT !.status = "deleted"]
                                      ELSE runs[r]]
  /\ UNCHANGED <<lock, thr, env, ran>>

\* run_schedule_now_route, up to the insert of the run row.
RunNow(u, i) ==
  /\ thr[u] = Idle
  /\ Live(i)
  /\ manual < MaxManual
  /\ manual' = manual + 1
  /\ thr' = [thr EXCEPT ![u].pc = "record", ![u].cur = i]
  /\ UNCHANGED <<rows, lock, clock, faults, crashed, ran>>

-----------------------------------------------------------------------------
(* One tick: run_due_workflows. *)

\* Mutant of TickStart: the lock is not asked for.
TickStartUnlocked(k) ==
  /\ thr[k] = Idle
  /\ lock' = k
  /\ thr' = [thr EXCEPT ![k].pc = "next",
                        ![k].due = {<<i, sched[i].next>> : i \in {j \in Ids : Due(j)}}]
  /\ UNCHANGED <<rows, env, ran>>

\* Take the lock or skip the tick, and read what is due.  (When the read
\* raises, the lock is released again and nothing has changed.)
TickStart(k) ==
  /\ thr[k] = Idle
  /\ lock = Free
  /\ lock' = k
  /\ thr' = [thr EXCEPT ![k].pc = "next",
                        ![k].due = {<<i, sched[i].next>> : i \in {j \in Ids : Due(j)}}]
  /\ UNCHANGED <<rows, env, ran>>

\* The tick is over, or an exception leaves run_due_workflows.
TickEnd(k) ==
  /\ lock' = Free
  /\ thr' = [thr EXCEPT ![k] = Idle]

\* Mutant of TickAborts: no finally around the tick.
TickAbortsLocked(k) == thr' = [thr EXCEPT ![k] = Idle] /\ UNCHANGED lock

TickAborts(k) == TickEnd(k)

AllDone(k) ==
  /\ thr[k].pc = "next"
  /\ thr[k].due = {}
  /\ TickEnd(k)
  /\ UNCHANGED <<rows, env, ran>>

\* mark_scheduled_workflow_run, before anything of the workflow is run.
Advance(k, d, p) ==
  /\ thr[k].pc = "next"
  /\ d \in thr[k].due
  /\ thr' = [thr EXCEPT ![k] = [Idle EXCEPT !.pc = "record", !.cur = d[1],
                                  !.slot = d[2], !.due = thr[k].due \ {d}]]
  /\ sched' = IF Live(d[1]) THEN [sched EXCEPT ![d[1]].next = clock + p] ELSE sched
  /\ UNCHANGED <<runs, lock, env, ran>>

\* The mark raises: nothing catches it before the lock is released.
AdvanceFails(k) ==
  /\ thr[k].pc = "next"
  /\ thr[k].due # {}
  /\ Fault
  /\ TickAborts(k)
  /\ UNCHANGED <<rows, ran>>

-----------------------------------------------------------------------------
(* One workflow, for a tick and for run-now. *)

\* create_schedule_run; the row of a deleted schedule violates its foreign key.
RecordRun(k) ==
  /\ thr[k].pc = "record"
  /\ IF Live(thr[k].cur)
       THEN /\ runs' = Append(runs, [sched |-> thr[k].cur, status |-> "running",
                                     tick |-> k \in Tickers, worked |-> FALSE])
            /\ thr' = [thr EXCEPT ![k].pc = "work", ![k].run = Len(runs) + 1]
       ELSE Goto(k, "work") /\ UNCHANGED runs
  /\ UNCHANGED <<sched, lock, env, ran>>

\* The insert raises: the workflow runs without a row.
RecordRunFails(k) ==
  /\ thr[k].pc = "record"
  /\ Fault
  /\ Goto(k, "work")
  /\ UNCHANGED <<rows, lock, ran>>

\* The execution for a slot of the schedule begins (a manual run has no slot).
Started(k) ==
  ran' = IF k \in Tickers THEN [ran EXCEPT ![thr[k].cur] = Append(@, thr[k].slot)]
                          ELSE ran

\* Whether the call executes the work the schedule was made for: run-now
\* hands the text of an engine schedule to handle_input.
DoesWork(k) ==
  LET kind == sched[thr[k].cur].kind
  IN IF k \in Tickers THEN kind # "future" ELSE kind \in {"plain", "both"}

\* handle_input finds a recurrence in the text, and makes a schedule for it.
Rearms(k) == sched[thr[k].cur].kind \in {"both", "future"}

\* Mutant of Work: an exception is taken for a result.
WorkSwallowsErrors(k) ==
  /\ thr[k].pc = "work"
  /\ Started(k)
  /\ \E did \in {FALSE, DoesWork(k)} :
       thr' = [thr EXCEPT ![k].pc = "settle", ![k].did = did]
  /\ UNCHANGED <<rows, lock, env>>

\* execute_tool or handle_input returns, and has made no schedule of the text:
\* none is asked for, or its insert raised, which _maybe_create_schedule hides.
Work(k) ==
  /\ thr[k].pc = "work"
  /\ Started(k)
  /\ thr' = [thr EXCEPT ![k].pc = "settle", ![k].did = DoesWork(k)]
  /\ UNCHANGED <<rows, lock, env>>

\* _maybe_create_schedule makes a schedule; handle_input then returns, or
\* raises in what it still has to log and format.
WorkRearms(k, j, p) ==
  /\ thr[k].pc = "work"
  /\ Rearms(k)
  /\ sched[j].state = "unborn"
  /\ sched' = [sched EXCEPT ![j] = NewRow(sched[thr[k].cur].kind, p)]
  /\ Started(k)
  /\ \/ thr' = [thr EXCEPT ![k].pc = "settle", ![k].did = DoesWork(k)]
     \/ Goto(k, "except")
  /\ UNCHANGED <<runs, lock, env>>

\* execute_tool or handle_input raises.
WorkRaises(k) ==
  /\ thr[k].pc = "work"
  /\ Started(k)
  /\ Goto(k, "except")
  /\ UNCHANGED <<rows, lock, env>>

\* update_scheduled_workflow_outcome of a schedule that is still there.
CountRun(k) ==
  sched' = IF Live(thr[k].cur) THEN [sched EXCEPT ![thr[k].cur].runCount = @ + 1]
                               ELSE sched

\* The outcome of a call that returned; raising here leads to the handler.
Settle(k) ==
  /\ thr[k].pc = "settle"
  /\ CountRun(k)
  /\ Goto(k, "complete")
  /\ UNCHANGED <<runs, lock, env, ran>>

SettleFails(k) ==
  /\ thr[k].pc = "settle"
  /\ Fault
  /\ Goto(k, "except")
  /\ UNCHANGED <<rows, lock, ran>>

\* Mutant of Except: a run that failed is not counted.
ExceptUncounted(k) ==
  /\ thr[k].pc = "except"
  /\ Goto(k, "fail")
  /\ UNCHANGED <<rows, lock, env, ran>>

\* The handler of the exception: the outcome is "failed".
Except(k) ==
  /\ thr[k].pc = "except"
  /\ CountRun(k)
  /\ Goto(k, "fail")
  /\ UNCHANGED <<runs, lock, env, ran>>

\* It raises too: run-now goes on, a tick is aborted with its other workflows.
ExceptFails(k) ==
  /\ thr[k].pc = "except"
  /\ Fault
  /\ IF k \in Users THEN Goto(k, "fail") /\ UNCHANGED lock ELSE TickAborts(k)
  /\ UNCHANGED <<rows, ran>>

\* The next workflow of the tick, or the end of the route.
Onwards(k) ==
  thr' = [thr EXCEPT ![k] = IF k \in Tickers
                              THEN [Idle EXCEPT !.pc = "next", !.due = thr[k].due]
                              ELSE Idle]

\* complete_schedule_run and fail_schedule_run.
MarkRow(k, status) ==
  runs' = [r \in DOMAIN runs |->
             IF r = thr[k].run /\ runs[r].status # "deleted"
               THEN [runs[r] EXCEPT !.status = status, !.worked = thr[k].did]
               ELSE runs[r]]

CloseRow(k) ==
  /\ thr[k].pc \in {"complete", "fail"}
  /\ MarkRow(k, IF thr[k].pc = "complete" THEN "completed" ELSE "failed")
  /\ Onwards(k)
  /\ UNCHANGED <<sched, lock, env, ran>>

\* The row cannot be written: the exception is swallowed.
CloseRowFails(k) ==
  /\ thr[k].pc \in {"complete", "fail"}
  /\ Fault
  /\ Onwards(k)
  /\ UNCHANGED <<rows, lock, ran>>

-----------------------------------------------------------------------------
\* The server stops and starts again: threads and lock are gone, rows stay.
Crash ==
  /\ MayCrash /\ ~crashed
  /\ crashed' = TRUE
  /\ lock' = Free
  /\ thr' = [k \in Threads |-> Idle]
  /\ UNCHANGED <<rows, clock, faults, manual, ran>>

Tick ==
  /\ clock < MaxClock
  /\ clock' = clock + 1
  /\ UNCHANGED <<rows, lock, thr, faults, manual, crashed, ran>>

\* The steps a thread takes once it runs.
Step(k) ==
  \/ AllDone(k)
  \/ \E d \in thr[k].due, p \in Periods : Advance(k, d, p)
  \/ RecordRun(k) \/ Work(k) \/ WorkRaises(k)
  \/ \E j \in Ids, p \in Periods : WorkRearms(k, j, p)
  \/ Settle(k) \/ Except(k) \/ CloseRow(k)

StepFails(k) ==
  \/ AdvanceFails(k) \/ RecordRunFails(k) \/ SettleFails(k)
  \/ ExceptFails(k) \/ CloseRowFails(k)

Routes ==
  \E i \in Ids :
    \/ \E kind \in Kinds, p \in Periods : Create(i, kind, p)
    \/ Pause(i) \/ Resume(i) \/ Delete(i)
    \/ \E u \in Users : RunNow(u, i)

Next ==
  \/ \E k \in Tickers : TickStart(k)
  \/ \E k \in Threads : Step(k) \/ StepFails(k)
  \/ Routes \/ Crash \/ Tick

Spec == Init /\ [][Next]_vars

\* The interval job fires for ever, and a thread that runs goes on.
FairSpec ==
  /\ Spec
  /\ WF_vars(\E k \in Tickers : TickStart(k))
  /\ \A k \in Threads : WF_vars(Step(k))

-----------------------------------------------------------------------------
Labels == {"idle", "next", "record", "work", "settle", "except", "complete", "fail"}

Schedules == [state: {"unborn", "live", "deleted"}, kind: Kinds \cup {"plain"},
              enabled: BOOLEAN, next: Nat, runCount: Nat]
RunRows == [sched: Ids, tick: BOOLEAN, worked: BOOLEAN,
            status: {"running", "completed", "failed", "deleted"}]
ThreadStates == [pc: Labels, due: SUBSET (Ids \X Nat), cur: Ids \cup {Free},
                 slot: Nat, run: Nat, did: BOOLEAN]

\* Rows, lock, threads and counters have their types; a run row always names a
\* schedule.
TypeOK ==
  /\ sched \in [Ids -> Schedules]
  /\ runs \in Seq(RunRows)
  /\ lock \in Tickers \cup {Free}
  /\ thr \in [Threads -> ThreadStates]
  /\ clock \in 0 .. MaxClock /\ faults \in 0 .. MaxFaults
  /\ manual \in 0 .. MaxManual /\ crashed \in BOOLEAN
  /\ ran \in [Ids -> Seq(Nat)]

(***************************************************************************)
(* next_run_at is advanced before the execution to prevent duplicate runs: *)
(* no slot of a schedule is executed twice by ticks, and slots are         *)
(* executed in order, whatever is paused, deleted, run by hand, failing or *)
(* stopped meanwhile.                                                      *)
(***************************************************************************)
NoSlotRunsTwice ==
  \A i \in Ids : \A m, n \in DOMAIN ran[i] : m < n => ran[i][m] < ran[i][n]

(***************************************************************************)
(* A run that a tick recorded as completed did the work of its schedule.   *)
(***************************************************************************)
CompletedRunsWorked ==
  \A r \in DOMAIN runs :
    runs[r].tick /\ runs[r].status = "completed" => runs[r].worked

\* The threads that work for a run row.
Runners(r) == {k \in Threads : thr[k].run = r}

\* Nothing went wrong so far: no storage call raised, the server was not stopped.
Undisturbed == faults = 0 /\ ~crashed

(***************************************************************************)
(* Undisturbed, a row says "running" exactly as long as one thread runs    *)
(* it, so no run is left hanging and no two threads share a row.           *)
(***************************************************************************)
RunningRowsHaveARunner ==
  Undisturbed =>
    \A r \in DOMAIN runs :
      runs[r].status # "deleted" =>
        Cardinality(Runners(r)) = IF runs[r].status = "running" THEN 1 ELSE 0

(***************************************************************************)
(* Undisturbed, run_count of a schedule is the number of its runs that     *)
(* have an outcome, those of overlapping manual runs included.             *)
(***************************************************************************)
RunCountAgrees ==
  Undisturbed =>
    \A i \in Ids : Live(i) =>
      sched[i].runCount =
          Cardinality({r \in DOMAIN runs :
                         runs[r].sched = i /\ runs[r].status \in {"completed", "failed"}})
        + Cardinality({k \in Threads :
                         thr[k].cur = i /\ thr[k].pc \in {"complete", "fail"}})

(***************************************************************************)
(* Storage calls may raise but the server stays up: the slot of a due      *)
(* schedule is executed, unless the schedule is paused or deleted first.   *)
(* An aborted tick must leave the lock free and the rest due.              *)
(***************************************************************************)
DueSlotsRun ==
  \A i \in Ids, s \in 1 .. MaxClock :
    (Due(i) /\ sched[i].next = s)
      ~> (\/ \E n \in DOMAIN ran[i] : ran[i][n] = s
          \/ ~Live(i) \/ ~sched[i].enabled)

(***************************************************************************)
(* Undisturbed, the bookkeeping agrees with what is run, when manual runs  *)
(* and ticks of one schedule overlap and schedules are deleted under way:  *)
(* each running row has its one thread, and run_count counts the outcomes. *)
(***************************************************************************)
BookkeepingAgrees == RunningRowsHaveARunner /\ RunCountAgrees
=============================================================================
