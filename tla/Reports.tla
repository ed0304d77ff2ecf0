------------------------------- MODULE Reports -------------------------------
(***************************************************************************)
(* Reports about one dataset of one user: run_dataset_report_plan of       *)
(* core/workflows/workflow_runner.py with the snapshots of                 *)
(* data/report_metric_snapshot_service.py.                                 *)
(*                                                                         *)
(* A run loads the dataset, then the latest snapshot, then up to ten of    *)
(* them, generates the report, saves it, and saves a snapshot of what it   *)
(* returns.  Each of these is a connection of its own, so that runs        *)
(* interleave, and any of the last four may fail without the run failing.  *)
(*                                                                         *)
(* The dataset's profile and a run's request are names of members of       *)
(* Profiles and Requests.  A history is a bound: which profiles, which     *)
(* requests, how many runs and how many faults.  A snapshot carries,       *)
(* besides its metrics, what it was made of: the profile, the request and  *)
(* the sections the report returned.                                       *)
(***************************************************************************)
EXTENDS ReportAssembly

CONSTANTS Runs,      \* runs that may be under way at once
          Profiles,  \* a function: name -> profile
          Requests,  \* a function: name -> request
          Histories  \* a set of [profiles, requests, reports, faults]

ASSUME HistoriesAssumption ==
  \A h \in Histories : /\ h.profiles \in SUBSET (DOMAIN Profiles) \ {{}}
                       /\ h.requests \subseteq DOMAIN Requests
                       /\ h.reports \in Nat /\ h.faults \in Nat

Asked == [name \in DOMAIN Requests |-> Heard(Requests[name])]
Window == 10   \* limit of get_snapshot_baseline_for_dataset

VARIABLES history, dataset, snapshots, runs, started, faults
vars == <<history, dataset, snapshots, runs, started, faults>>

Stages == {"idle", "loaded", "previous", "baseline", "generated", "saved"}
Idle == [stage |-> "idle", dataset |-> "none", request |-> "none",
         previous |-> <<>>, baseline |-> <<>>, made |-> <<>>, report |-> <<>>]

Init == /\ history \in Histories
        /\ dataset \in history.profiles
        /\ snapshots = <<>>
        /\ runs = [r \in Runs |-> Idle]
        /\ started = 0 /\ faults = 0

-----------------------------------------------------------------------------
At_(r, stage) == runs[r].stage = stage
Goes(r, record) == runs' = [runs EXCEPT ![r] = record]
Untouched == UNCHANGED <<history, dataset, started>>

\* A replacement of the file, with the profile of the new one.
Replace == /\ \E d \in history.profiles \ {dataset} : dataset' = d
           /\ UNCHANGED <<history, snapshots, runs, started, faults>>

Start(r) == /\ At_(r, "idle") /\ started < history.reports
            /\ \E q \in history.requests :
                 Goes(r, [Idle EXCEPT !.stage = "loaded", !.dataset = dataset,
                                      !.request = q])
            /\ started' = started + 1
            /\ UNCHANGED <<history, dataset, snapshots, faults>>

Fine == faults' = faults
Fault == faults < history.faults /\ faults' = faults + 1

\* A read that fails finds nothing.
LoadPrevious(r) ==
  /\ At_(r, "loaded")
  /\ \/ Fine /\ Goes(r, [runs[r] EXCEPT !.stage = "previous",
                           !.previous = Upto(1, Reverse(snapshots))])
     \/ Fault /\ Goes(r, [runs[r] EXCEPT !.stage = "previous"])
  /\ UNCHANGED snapshots /\ Untouched

\* The most recent ones, the oldest first.
Latest(n) == Reverse(Upto(n, Reverse(snapshots)))
LoadBaseline(r) ==
  /\ At_(r, "previous")
  /\ \/ Fine /\ Goes(r, [runs[r] EXCEPT !.stage = "baseline",
                           !.baseline = Latest(Window)])
     \/ Fault /\ Goes(r, [runs[r] EXCEPT !.stage = "baseline"])
  /\ UNCHANGED snapshots /\ Untouched

MetricsOf(list) == Each(list, LAMBDA s : s.metrics)
Generate(r) ==
  /\ At_(r, "baseline")
  /\ LET run  == runs[r]
         q    == Asked[run.request]
         p    == Profiles[run.dataset]
         made == Assembled(q, p, MetricsOf(run.previous), MetricsOf(run.baseline))
     IN Goes(r, [run EXCEPT !.stage = "generated", !.made = made,
                            !.report = Returned(q, p, made)])
  /\ Fine /\ UNCHANGED snapshots /\ Untouched

\* From here on only what was returned is there.
SaveReport(r) ==
  /\ At_(r, "generated")
  /\ Goes(r, [Idle EXCEPT !.stage = "saved", !.dataset = runs[r].dataset,
                          !.request = runs[r].request,
                          !.report = runs[r].report])
  /\ Fine /\ UNCHANGED snapshots /\ Untouched

\* Without a saved report there is no snapshot either.
SaveFails(r) == /\ At_(r, "generated")
                /\ Goes(r, Idle)
                /\ Fault /\ UNCHANGED snapshots /\ Untouched

Snapshot(run) == [metrics |-> Metrics(run.report), dataset |-> run.dataset,
                  request |-> run.request,
                  shown |-> {s.type : s \in ToSet(run.report)}]
SaveSnapshot(r) == /\ At_(r, "saved")
                   /\ snapshots' = Append(snapshots, Snapshot(runs[r]))
                   /\ Goes(r, Idle)
                   /\ Fine /\ Untouched

SnapshotFails(r) == /\ At_(r, "saved")
                    /\ Goes(r, Idle)
                    /\ Fault /\ UNCHANGED snapshots /\ Untouched

Next == \/ Replace
        \/ \E r \in Runs :
             \/ Start(r) \/ LoadPrevious(r) \/ LoadBaseline(r) \/ Generate(r)
             \/ SaveReport(r) \/ SaveFails(r)
             \/ SaveSnapshot(r) \/ SnapshotFails(r)

Spec == Init /\ [][Next]_vars

-----------------------------------------------------------------------------
Reporting == {r \in Runs : At_(r, "generated")}

\* What the reader sees first weighs most: a report is in the order of the
\* scores, a section that was asked for is missing only if the budget went to
\* sections that weigh as much, and no chart of the overview is ever missing
\* ("the slice retains the highest-priority sections").
MostImportantFirst ==
  \A r \in Reporting :
    LET run == runs[r]
        q == Asked[run.request]
        p == Profiles[run.dataset]
        Weighs(s) == Score(q, p, s.type)
        budgeted == SelectSeq(run.report, LAMBDA s : ~s.overview)
    IN /\ \A m, n \in DOMAIN run.report :
            m < n => Weighs(run.report[m]) >= Weighs(run.report[n])
       /\ \A s \in ToSet(run.made) \ ToSet(run.report) : Wanted(q, s) =>
            /\ ~s.overview
            /\ Len(budgeted) = MaxSections[Style(q, p)]
            /\ \A kept \in ToSet(budgeted) : Weighs(kept) >= Weighs(s)

\* The dashboard's risk stands for a finding or a recommendation of high
\* grade, wherever the rules found it; the priority list opens with one of
\* the gravest, and only a dataset with nothing to say has none.
HeadlinesAreTrue ==
  \A r \in Reporting :
    LET run == runs[r]
        p   == Profiles[run.dataset]
        recs == Recs(Asked[run.request], p)
        headline == FactsOf(run.made, "ai_dashboard").list[1]
        first == FactsOf(run.made, "insight_priority").list
        told == ToSet(AllFindings(p))
                  \cup ToSet(FactsOf(run.made, "drift_detection").list)
                  \cup {Finding(x.rule, x.grade) : x \in ToSet(recs)}
        Grave(s) == \E f \in s : f.grade = "high"
    IN /\ headline.insight = (AllFindings(p) # <<>>)
       /\ headline.risk = \/ Grave(ToSet(AllFindings(p)))
                          \/ Grave(ToSet(recs))
       /\ (first = <<>>) = (told = {})
       /\ Grave(told) => first[1].grade = "high"

\* Which snapshots speak for a metric of this run: the section that carries it
\* was returned, for the same profile and the same request.
Alike(run, snap, m) == /\ snap.dataset = run.dataset
                       /\ snap.request = run.request
                       /\ Carrier[m] \in snap.shown
Rows(run, type) == FactsOf(run.made, type).list

\* A report tells a change only where there is one: what the comparison calls
\* different, and what is said to drift from the last reports, was measured
\* of another profile or by another request, or had not been returned.
ChangesAreReal ==
  \A r \in Reporting :
    LET run == runs[r]
    IN /\ \A row \in ToSet(Rows(run, "historical_comparison")) :
            row.current # row.previous => ~Alike(run, run.previous[1], row.metric)
       /\ \A row \in ToSet(Rows(run, "drift_detection")) :
            /\ Len(run.baseline) >= 3
            /\ \E s \in ToSet(run.baseline) : ~Alike(run, s, row.rule)

\* The comments of generate_dataset_report promise more: the selection "only
\* affects what is returned to the caller".  Then reports of one profile by
\* one request never differ.
SameDataSameStory ==
  \A r \in Reporting :
    LET run == runs[r]
        Same(s) == s.dataset = run.dataset /\ s.request = run.request
    IN run.previous # <<>> /\ Same(run.previous[1]) =>
         \A row \in ToSet(Rows(run, "historical_comparison")) :
           row.current = row.previous
=============================================================================
