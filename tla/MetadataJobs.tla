---------------------------- MODULE MetadataJobs ----------------------------
(***************************************************************************)
(* A data source and what is found out about it: the schema snapshots of   *)
(* its discoveries, the profiling snapshots made of them, and the metadata *)
(* job that runs a discovery and a structural profile one after the other. *)
(* Each storage call of data/datasource_service.py, schema_service.py and  *)
(* profiling_service.py has a connection of its own; the version of a      *)
(* snapshot is read before it is inserted, and the tables of a profile are *)
(* committed one by one after its snapshot.  Threads interleave between    *)
(* the calls, the connector and the storage may raise, the server stops.   *)
(***************************************************************************)
EXTENDS Naturals, Sequences, FiniteSets

CONSTANTS
  Workers,       \* threads that serve requests
  Tables,        \* tables of the foreign database
  Staging,       \* tables with the prefix of a staging or temporary table
  Found,         \* the sets of tables a discovery may find
  MaxCalls,      \* bound: requests that are started
  MaxFaults      \* bound: storage calls that raise, and stops of the server

ASSUME MetadataJobsAssumption ==
  /\ Found \subseteq SUBSET Tables
  /\ MaxCalls \in Nat
  /\ MaxFaults \in Nat

VARIABLES
  source,        \* the row of data_source_connections: "new", "there", "gone"
  job,           \* metadata_jobs.status, or "none"
  schemas,       \* schema_snapshots in the order of their ids
  last,          \* last_snapshot_id of the source, 0 if there is none
  profiles,      \* profiling_snapshots in the order of their ids
  call,          \* what each thread is doing
  calls,         \* how many requests were started
  faults,        \* how many storage calls raised, and stops of the server
  overlapped     \* history: two requests were under way at once

metaVars == <<source, job, schemas, last, profiles, call, calls, faults,
              overlapped>>

Kinds == {"job", "discover", "structural", "full", "delete"}

JobStatuses == {"none", "QUEUED", "RUNNING", "COMPLETE", "FAILED"}

\* The storage calls of a discovery and of a profile, in their order.
Discovery == {"source", "version", "insert", "point"}
Profiling == {"owner", "schema", "number", "snapshot", "table"}
JobSteps  == Discovery \cup Profiling
               \cup {"load", "running", "profiling", "complete", "failed"}

Idle == [pc |-> "idle", kind |-> "job", ver |-> 0, id |-> 0, todo |-> {}]

Snapshots == [version : Nat, tables : SUBSET Tables]
Profiles  == [version : Nat, schema : Nat, wants : SUBSET Tables,
              has : SUBSET Tables]

IsThere == source = "there"

-----------------------------------------------------------------------------
Init ==
  /\ source = "new"
  /\ job = "none"
  /\ schemas = <<>>
  /\ last = 0
  /\ profiles = <<>>
  /\ call = [w \in Workers |-> Idle]
  /\ calls = 0
  /\ faults = 0
  /\ overlapped = FALSE

Rows == <<source, job, schemas, last, profiles>>
Counters == <<calls, faults, overlapped>>

Goto(w, pc) == call' = [call EXCEPT ![w].pc = pc]

\* The request of w is answered.
End(w) == call' = [call EXCEPT ![w] = Idle]

\* Where a thread goes when the discovery or the profile it runs is done.
AfterDiscovery(w) == IF call[w].kind = "job" THEN "profiling" ELSE "idle"
AfterProfiling(w) == IF call[w].kind = "job" THEN "complete" ELSE "idle"

\* On to pc, or to the end of the request.
Proceed(w, pc) == IF pc = "idle" THEN End(w) ELSE Goto(w, pc)

\* A discovery or a profile raises: the job records it, a route answers 4xx or 5xx.
Raise(w) == IF call[w].kind = "job" THEN Goto(w, "failed") ELSE End(w)

-----------------------------------------------------------------------------
\* create_data_source: the source is inserted and committed ...
CreateSource ==
  /\ source = "new"
  /\ source' = "there"
  /\ UNCHANGED <<job, schemas, last, profiles, call>>
  /\ UNCHANGED Counters

\* ... and then its job (a stop in between leaves a source without one).
CreateJob ==
  /\ IsThere
  /\ job = "none" /\ calls = 0
  /\ job' = "QUEUED"
  /\ UNCHANGED <<source, schemas, last, profiles, call>>
  /\ UNCHANGED Counters

\* A request arrives: run the job, discover, profile, delete.
Request(w, kind) ==
  /\ call[w].pc = "idle"
  /\ source # "new"
  /\ calls < MaxCalls
  /\ calls' = calls + 1
  /\ overlapped' = (overlapped \/ \E v \in Workers : call[v].pc # "idle")
  /\ call' = [call EXCEPT ![w] =
       [Idle EXCEPT !.kind = kind,
                    !.pc = CASE kind = "job" -> "load"
                             [] kind = "discover" -> "source"
                             [] kind = "delete" -> "look"
                             [] OTHER -> "owner"]]
  /\ UNCHANGED faults
  /\ UNCHANGED Rows

-----------------------------------------------------------------------------
\* run_metadata_job: the row of the job, whatever its status, or the end.
LoadJob(w) ==
  /\ call[w].pc = "load"
  /\ IF job = "none" THEN End(w) ELSE Goto(w, "running")
  /\ UNCHANGED Rows
  /\ UNCHANGED Counters

\* _update_job: an UPDATE by id, of no row when the job is gone.
UpdateJob(w, from, status, to) ==
  /\ call[w].pc = from
  /\ job' = IF job = "none" THEN "none" ELSE status
  /\ Proceed(w, to)
  /\ UNCHANGED <<source, schemas, last, profiles>>
  /\ UNCHANGED Counters

MarkRunning(w)   == UpdateJob(w, "running", "RUNNING", "source")
MarkProfiling(w) == UpdateJob(w, "profiling", "RUNNING", "owner")
MarkComplete(w)  == UpdateJob(w, "complete", "COMPLETE", "idle")

\* Mutant of MarkFailed: the failure is logged and not recorded.
MarkFailedInLogOnly(w) ==
  /\ call[w].pc = "failed"
  /\ End(w)
  /\ UNCHANGED Rows
  /\ UNCHANGED Counters

MarkFailed(w)    == UpdateJob(w, "failed", "FAILED", "idle")

-----------------------------------------------------------------------------
\* run_discovery: without the source there is nothing to do.
CheckSource(w) ==
  /\ call[w].pc = "source"
  /\ Proceed(w, IF IsThere THEN "version" ELSE AfterDiscovery(w))
  /\ UNCHANGED Rows
  /\ UNCHANGED Counters

\* The connector answered with some tables; the next version is read.
ReadVersion(w) ==
  /\ call[w].pc = "version"
  /\ \E found \in Found :
       call' = [call EXCEPT ![w].pc = "insert", ![w].todo = found,
                            ![w].ver = Len(schemas) + 1]
  /\ UNCHANGED Rows
  /\ UNCHANGED Counters

\* The connector raises, or cannot be reached.
ConnectorFails(w) ==
  /\ \/ call[w].pc = "version"
     \/ call[w].pc = "number" /\ call[w].kind = "full"
  /\ Raise(w)
  /\ UNCHANGED Rows
  /\ UNCHANGED Counters

\* idx_ss_source_version and idx_prsnap_source_version are unique.
Taken(rows, version) == \E i \in DOMAIN rows : rows[i].version = version

\* Mutant of InsertSchema: without the unique index.
InsertSchemaAnyway(w) ==
  /\ call[w].pc = "insert"
  /\ IF ~IsThere
       THEN Raise(w) /\ UNCHANGED schemas
       ELSE /\ schemas' = Append(schemas, [version |-> call[w].ver,
                                           tables |-> call[w].todo])
            /\ call' = [call EXCEPT ![w].pc = "point",
                                    ![w].id = Len(schemas) + 1]
  /\ UNCHANGED <<source, job, last, profiles>>
  /\ UNCHANGED Counters

\* _save_snapshot: refused without the source or when the version was taken.
InsertSchema(w) ==
  /\ call[w].pc = "insert"
  /\ IF ~IsThere \/ Taken(schemas, call[w].ver)
       THEN Raise(w) /\ UNCHANGED schemas
       ELSE /\ schemas' = Append(schemas, [version |-> call[w].ver,
                                           tables |-> call[w].todo])
            /\ call' = [call EXCEPT ![w].pc = "point",
                                    ![w].id = Len(schemas) + 1]
  /\ UNCHANGED <<source, job, last, profiles>>
  /\ UNCHANGED Counters

\* The source is told its latest schema snapshot, in a transaction of its own.
PointToSchema(w) ==
  /\ call[w].pc = "point"
  /\ last' = IF IsThere THEN call[w].id ELSE last
  /\ Proceed(w, AfterDiscovery(w))
  /\ UNCHANGED <<source, job, schemas, profiles>>
  /\ UNCHANGED Counters

-----------------------------------------------------------------------------
\* run_structural_profiling, run_full_profiling: without the source, nothing.
CheckOwner(w) ==
  /\ call[w].pc = "owner"
  /\ Proceed(w, IF IsThere THEN "schema" ELSE AfterProfiling(w))
  /\ UNCHANGED Rows
  /\ UNCHANGED Counters

\* The latest schema snapshot is what is profiled; there must be one.
ReadSchema(w) ==
  /\ call[w].pc = "schema"
  /\ IF schemas = <<>>
       THEN Raise(w)
       ELSE call' = [call EXCEPT ![w].pc = "number", ![w].id = Len(schemas),
                                 ![w].todo = schemas[Len(schemas)].tables]
  /\ UNCHANGED Rows
  /\ UNCHANGED Counters

\* The next version is read; a full profile leaves out the staging tables.
ReadNumber(w) ==
  /\ call[w].pc = "number"
  /\ call' = [call EXCEPT ![w].pc = "snapshot", ![w].ver = Len(profiles) + 1,
       ![w].todo = IF call[w].kind = "full" THEN @ \ Staging ELSE @]
  /\ UNCHANGED Rows
  /\ UNCHANGED Counters

\* _save_profiling_result: the snapshot is committed, as COMPLETE, before its tables.
InsertProfile(w) ==
  /\ call[w].pc = "snapshot"
  /\ IF ~IsThere \/ Taken(profiles, call[w].ver)
       THEN Raise(w) /\ UNCHANGED profiles
       ELSE /\ profiles' = Append(profiles,
                 [version |-> call[w].ver, schema |-> call[w].id,
                  wants |-> call[w].todo, has |-> {}])
            /\ call' = [call EXCEPT ![w].pc = "table",
                                    ![w].id = Len(profiles) + 1]
  /\ UNCHANGED <<source, job, schemas, last>>
  /\ UNCHANGED Counters

\* The next table and its columns, in a transaction; the snapshot may be gone.
InsertTable(w) ==
  /\ call[w].pc = "table"
  /\ IF call[w].todo = {}
       THEN Proceed(w, AfterProfiling(w)) /\ UNCHANGED profiles
       ELSE IF ~IsThere
       THEN Raise(w) /\ UNCHANGED profiles
       ELSE LET t == CHOOSE t \in call[w].todo : TRUE
            IN /\ profiles' = [profiles EXCEPT ![call[w].id].has = @ \cup {t}]
               /\ call' = [call EXCEPT ![w].todo = @ \ {t}]
  /\ UNCHANGED <<source, job, schemas, last>>
  /\ UNCHANGED Counters

-----------------------------------------------------------------------------
\* delete_data_source: refused while the job is queued or running ...
LookForJob(w) ==
  /\ call[w].pc = "look"
  /\ Proceed(w, IF IsThere /\ job \notin {"QUEUED", "RUNNING"}
                  THEN "delete" ELSE "idle")
  /\ UNCHANGED Rows
  /\ UNCHANGED Counters

\* ... which is not looked at again; everything of the source goes with it.
DeleteSource(w) ==
  /\ call[w].pc = "delete"
  /\ source' = "gone"
  /\ job' = "none"
  /\ schemas' = <<>>
  /\ last' = 0
  /\ profiles' = <<>>
  /\ End(w)
  /\ UNCHANGED Counters

-----------------------------------------------------------------------------
\* A storage call raises before it has effect.
StorageFails(w) ==
  /\ call[w].pc # "idle"
  /\ faults < MaxFaults
  /\ faults' = faults + 1
  /\ IF call[w].pc \in Discovery \cup Profiling THEN Raise(w) ELSE End(w)
  /\ UNCHANGED Rows
  /\ UNCHANGED <<calls, overlapped>>

\* The server stops and is started again; nothing looks for jobs that ran.
Crash ==
  /\ \E w \in Workers : call[w].pc # "idle"
  /\ faults < MaxFaults
  /\ faults' = faults + 1
  /\ call' = [w \in Workers |-> Idle]
  /\ UNCHANGED Rows
  /\ UNCHANGED <<calls, overlapped>>

JobStep(w) ==
  LoadJob(w) \/ MarkRunning(w) \/ MarkProfiling(w) \/ MarkComplete(w)
    \/ MarkFailed(w)
DiscoveryStep(w) ==
  CheckSource(w) \/ ReadVersion(w) \/ InsertSchema(w) \/ PointToSchema(w)
ProfilingStep(w) ==
  CheckOwner(w) \/ ReadSchema(w) \/ ReadNumber(w) \/ InsertProfile(w)
    \/ InsertTable(w)
DeletionStep(w) == LookForJob(w) \/ DeleteSource(w)

Step(w) ==
  JobStep(w) \/ DiscoveryStep(w) \/ ProfilingStep(w) \/ DeletionStep(w)

Next ==
  \/ CreateSource \/ CreateJob \/ Crash
  \/ \E w \in Workers :
       Step(w) \/ ConnectorFails(w) \/ StorageFails(w)
         \/ \E kind \in Kinds : Request(w, kind)

Spec == Init /\ [][Next]_metaVars

-----------------------------------------------------------------------------
\* Rows, threads and counters have their types.
TypeOK ==
  /\ source \in {"new", "there", "gone"}
  /\ job \in JobStatuses
  /\ schemas \in Seq(Snapshots)
  /\ last \in Nat
  /\ profiles \in Seq(Profiles)
  /\ call \in [Workers -> [pc : JobSteps \cup {"idle", "look", "delete"},
                           kind : Kinds, ver : Nat, id : Nat,
                           todo : SUBSET Tables]]
  /\ calls \in 0 .. MaxCalls
  /\ faults \in 0 .. MaxFaults
  /\ overlapped \in BOOLEAN

(***************************************************************************)
(* However discoveries and profiles overlap, the versions of the snapshots *)
(* follow the order in which they were inserted, without gap or repetition *)
(* ("latest" is by version): the version is read before the insert, and of *)
(* two that read the same one the later is refused.                        *)
(***************************************************************************)
VersionsFollowInserts ==
  /\ \A i \in DOMAIN schemas : schemas[i].version = i
  /\ \A i \in DOMAIN profiles : profiles[i].version = i

\* Workers that run the metadata job past its first update.
Runners == {w \in Workers : call[w].kind = "job"
                              /\ call[w].pc \notin {"idle", "load", "running"}}

(***************************************************************************)
(* As long as the storage holds and the server runs: a job that says       *)
(* RUNNING is being run, whatever the connector did and however often the  *)
(* job was started; so the source it keeps from being deleted is not kept  *)
(* for ever.                                                               *)
(***************************************************************************)
RunningJobsAreRun ==
  (faults = 0 /\ job = "RUNNING") => Runners # {}

(***************************************************************************)
(* A job that says COMPLETE has left a profile with every table it wanted, *)
(* also when several runs of it overlap and others of them fail.           *)
(***************************************************************************)
CompleteJobsHaveProfiles ==
  job = "COMPLETE" => \E i \in DOMAIN profiles : profiles[i].has = profiles[i].wants

(***************************************************************************)
(* A profiling snapshot is COMPLETE from the start, its tables come later: *)
(* while storage and server hold, one that lacks tables has a thread that  *)
(* is saving them.                                                         *)
(***************************************************************************)
ThinProfilesAreBeingSaved ==
  faults = 0 =>
    \A i \in DOMAIN profiles :
      profiles[i].has # profiles[i].wants =>
        \E w \in Workers : call[w].pc = "table" /\ call[w].id = i

(***************************************************************************)
(* While requests do not overlap, a newer profile is never of an older     *)
(* schema, and the source shows its latest schema snapshot (unless the     *)
(* update that says so failed).  When they overlap both may go back.       *)
(***************************************************************************)
NewestIsOfNewest ==
  ~overlapped =>
    /\ \A i, j \in DOMAIN profiles :
         i <= j => profiles[i].schema <= profiles[j].schema
    /\ \/ last = Len(schemas)
       \/ \E w \in Workers : call[w].pc = "point"
       \/ faults > 0

(***************************************************************************)
(* A job and a profiling snapshot say what was done, however runs of the   *)
(* job overlap and fail: RUNNING is being run, COMPLETE left a profile     *)
(* with all its tables, and a snapshot without all its tables is being     *)
(* saved.                                                                  *)
(***************************************************************************)
JobsTellTheTruth ==
  TypeOK /\ RunningJobsAreRun /\ CompleteJobsHaveProfiles /\ ThinProfilesAreBeingSaved

(***************************************************************************)
(* The snapshots stand in the order in which they were taken: by version   *)
(* always, and by what they are of as long as requests do not overlap.     *)
(***************************************************************************)
SnapshotsAreInOrder == VersionsFollowInserts /\ NewestIsOfNewest
=============================================================================
