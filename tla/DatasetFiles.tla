---------------------------- MODULE DatasetFiles ----------------------------
(***************************************************************************)
(* A dataset and its source file: data/dataset_service.py,                 *)
(* data/dataset_replacement_service.py and their routes.  The row names    *)
(* the file it was uploaded with or was last given; the profiles in the    *)
(* row were computed from some file; a replacement writes the new file,    *)
(* opens a record, points the row at the file, reprofiles, closes the      *)
(* record and removes the old file, each step with a connection or a       *)
(* system call of its own.                                                 *)
(*                                                                         *)
(* Upload and replacement are coroutines without an await past the reading *)
(* of the body: the event loop runs one of them at a time.  Reprofiling    *)
(* and deletion run in threads, also beside them.  Files have fresh names, *)
(* numbered here in the order they are written.                            *)
(***************************************************************************)
EXTENDS Integers, FiniteSets

CONSTANTS
  Requests,   \* requests that may be served at once
  MaxFiles,   \* bound: files written
  MaxCalls,   \* bound: requests served
  MaxFaults   \* bound: statements and writes that fail, stops of the server

ASSUME FilesAssumption ==
  MaxFiles \in Nat /\ MaxCalls \in Nat /\ MaxFaults \in Nat

VARIABLES
  row,            \* of datasets: whether it exists, file_path, of which file
                  \* its profiles are
  records,        \* dataset_source_replacements, by new_file_path
  disk, bad,      \* the files in the uploads directory; those nobody can parse
  made,           \* how many files were written so far
  call,           \* what each request is doing
  calls, faults,  \* requests served, faults met
  overlapped      \* history: a request arrived while another was served

vars == <<row, records, disk, bad, made, call, calls, faults, overlapped>>
counts == <<calls, faults, overlapped>>

NoFile == 0
Files  == 1 .. MaxFiles
Idle   == [kind |-> "none", pc |-> "idle", old |-> NoFile, new |-> NoFile,
           read |-> NoFile]
There  == row.state = "there"
Busy   == {q \in Requests : call[q].pc # "idle"}
At(q, kinds, pc) == call[q].kind \in kinds /\ call[q].pc = pc

Goto(q, pc) == call' = [call EXCEPT ![q].pc = pc]
Over(q)     == call' = [call EXCEPT ![q] = Idle]
\* UPDATE ... WHERE id: a record that went with its dataset is not missed.
Settle(n, status) ==
  records' = IF n \in DOMAIN records THEN [records EXCEPT ![n].status = status]
                                     ELSE records

Init ==
  /\ row = [state |-> "none", path |-> NoFile, profiled |-> NoFile]
  /\ records = <<>> /\ disk = {} /\ bad = {} /\ made = 0
  /\ call = [q \in Requests |-> Idle]
  /\ calls = 0 /\ faults = 0 /\ overlapped = FALSE

-----------------------------------------------------------------------------
\* Mutant of LoopIsFree: the routes are served by threads.
LoopIsThreads == TRUE

\* Only the event loop serves uploads and replacements.
LoopIsFree == \A q \in Requests : call[q].kind \notin {"upload", "replace"}

Serve(q, kind, pc) ==
  /\ call[q].pc = "idle" /\ calls < MaxCalls
  /\ call' = [call EXCEPT ![q] = [Idle EXCEPT !.kind = kind, !.pc = pc,
                                             !.old = row.path, !.read = row.path]]
  /\ calls' = calls + 1
  /\ overlapped' = (overlapped \/ Busy # {})
  /\ UNCHANGED <<row, records, disk, bad, made, faults>>

\* The file was parsed before it is written.
AskUpload(q)  == row.state = "none" /\ LoopIsFree /\ Serve(q, "upload", "write")
\* get_dataset_by_id finds the dataset: of another, or of another's, there is
\* nothing to do.  A reprofile goes by the path it loaded here.
AskReplace(q)   == There /\ LoopIsFree /\ Serve(q, "replace", "write")
AskReprofile(q) == There /\ Serve(q, "reprofile", "read")
AskDelete(q)    == There /\ Serve(q, "delete", "drop")

-----------------------------------------------------------------------------
Fresh == made + 1

\* An upload that cannot be written goes on without file_path; what was
\* written of the file stays.
WriteUpload(q) ==
  /\ At(q, {"upload"}, "write") /\ made < MaxFiles
  /\ made' = Fresh
  /\ \/ /\ disk' = disk \cup {Fresh}
        /\ call' = [call EXCEPT ![q].pc = "insert", ![q].new = Fresh]
        /\ UNCHANGED faults
     \/ /\ faults < MaxFaults /\ faults' = faults + 1
        /\ disk' \in {disk, disk \cup {Fresh}}
        /\ Goto(q, "insert")
  /\ UNCHANGED <<row, records, bad, calls, overlapped>>

InsertRow(q) ==
  /\ At(q, {"upload"}, "insert")
  /\ row' = [state |-> "there", path |-> call[q].new, profiled |-> made]
  /\ Over(q)
  /\ UNCHANGED <<records, disk, bad, made, counts>>

\* Nothing has looked into the replacement: it may be no table at all.
WriteFile(q) ==
  /\ At(q, {"replace"}, "write") /\ made < MaxFiles
  /\ made' = Fresh
  /\ disk' = disk \cup {Fresh}
  /\ bad' \in {bad, bad \cup {Fresh}}
  /\ call' = [call EXCEPT ![q].pc = "record", ![q].new = Fresh]
  /\ UNCHANGED <<row, records, counts>>

\* OSError: the request ends before any row is written.
WriteFails(q) ==
  /\ At(q, {"replace"}, "write") /\ made < MaxFiles
  /\ faults < MaxFaults /\ faults' = faults + 1
  /\ made' = Fresh
  /\ disk' \in {disk, disk \cup {Fresh}}
  /\ Over(q)
  /\ UNCHANGED <<row, records, bad, calls, overlapped>>

\* A record of a dataset that is gone violates the foreign key: the request
\* raises, and the file it wrote stays.
CreateRecord(q) ==
  /\ At(q, {"replace"}, "record")
  /\ IF There
       THEN /\ records' = [n \in DOMAIN records \cup {call[q].new} |->
                             IF n = call[q].new
                               THEN [old |-> call[q].old, status |-> "pending"]
                               ELSE records[n]]
            /\ Goto(q, "point")
       ELSE Over(q) /\ UNCHANGED records
  /\ UNCHANGED <<row, disk, bad, made, counts>>

\* UPDATE datasets SET file_path, also of no row.
PointAtFile(q) ==
  /\ At(q, {"replace"}, "point")
  /\ row' = IF There THEN [row EXCEPT !.path = call[q].new] ELSE row
  /\ Goto(q, "load")
  /\ UNCHANGED <<records, disk, bad, made, counts>>

\* The update raises: the record fails, the new file is removed.
PointFails(q) ==
  /\ At(q, {"replace"}, "point")
  /\ faults < MaxFaults /\ faults' = faults + 1
  /\ Settle(call[q].new, "failed")
  /\ disk' = disk \ {call[q].new}
  /\ Over(q)
  /\ UNCHANGED <<row, bad, made, calls, overlapped>>

-----------------------------------------------------------------------------
\* How a reprofile without a result ends: the route answers, the replacement
\* fails its record first.
NoResult(q) == IF call[q].kind = "replace" THEN Goto(q, "fail") ELSE Over(q)

\* The reprofile of a replacement loads the row again.
LoadRow(q) ==
  /\ At(q, {"replace"}, "load")
  /\ IF There THEN call' = [call EXCEPT ![q].pc = "read", ![q].read = row.path]
              ELSE NoResult(q)
  /\ UNCHANGED <<row, records, disk, bad, made, counts>>

\* A file that is missing ends it with None or, if it vanished just now, with
\* an exception; one that cannot be parsed with an exception.
ReadFile(q) ==
  /\ At(q, {"replace", "reprofile"}, "read")
  /\ IF call[q].read \in disk \ bad THEN Goto(q, "save") ELSE NoResult(q)
  /\ UNCHANGED <<row, records, disk, bad, made, counts>>

\* The update does not look at file_path.
SaveProfiles(q) ==
  /\ At(q, {"replace", "reprofile"}, "save")
  /\ row' = IF There THEN [row EXCEPT !.profiled = call[q].read] ELSE row
  /\ Goto(q, "return")
  /\ UNCHANGED <<records, disk, bad, made, counts>>

\* get_dataset_by_id once more: a dataset deleted meanwhile is None.
ReturnRow(q) ==
  /\ At(q, {"replace", "reprofile"}, "return")
  /\ IF There /\ call[q].kind = "replace" THEN Goto(q, "complete") ELSE NoResult(q)
  /\ UNCHANGED <<row, records, disk, bad, made, counts>>

\* A statement of the reprofile raises.
ReprofileRaises(q) ==
  /\ call[q].kind \in {"replace", "reprofile"}
  /\ call[q].pc \in {"load", "read", "save", "return"}
  /\ faults < MaxFaults /\ faults' = faults + 1
  /\ NoResult(q)
  /\ UNCHANGED <<row, records, disk, bad, made, calls, overlapped>>

-----------------------------------------------------------------------------
\* Mutant of FailRecord: the file of a failed replacement is removed.
FailAndRemove(q) ==
  /\ At(q, {"replace"}, "fail")
  /\ Settle(call[q].new, "failed")
  /\ disk' = disk \ {call[q].new}
  /\ Over(q)
  /\ UNCHANGED <<row, bad, made, counts>>

\* Mutant of FailRecord: the outcome is not looked at.
FailSucceeds(q) ==
  /\ At(q, {"replace"}, "fail")
  /\ Settle(call[q].new, "success")
  /\ Over(q)
  /\ UNCHANGED <<row, disk, bad, made, counts>>

\* fail_replacement: neither file_path nor the new file is taken back.
FailRecord(q) ==
  /\ At(q, {"replace"}, "fail")
  /\ Settle(call[q].new, "failed")
  /\ Over(q)
  /\ UNCHANGED <<row, disk, bad, made, counts>>

CompleteRecord(q) ==
  /\ At(q, {"replace"}, "complete")
  /\ Settle(call[q].new, "success")
  /\ Goto(q, "remove")
  /\ UNCHANGED <<row, disk, bad, made, counts>>

RemoveOld(q) ==
  /\ At(q, {"replace"}, "remove")
  /\ disk' = disk \ {call[q].old}
  /\ Over(q)
  /\ UNCHANGED <<row, records, bad, made, counts>>

\* Inserting the dataset, opening or closing the record raises: the request
\* ends as it stands.
RecordRaises(q) ==
  /\ At(q, {"upload"}, "insert") \/ \E pc \in {"record", "fail", "complete"} :
                                      At(q, {"replace"}, pc)
  /\ faults < MaxFaults /\ faults' = faults + 1
  /\ Over(q)
  /\ UNCHANGED <<row, records, disk, bad, made, calls, overlapped>>

-----------------------------------------------------------------------------
\* delete_dataset: the path was read before; the history goes by cascade.
DropRow(q) ==
  /\ At(q, {"delete"}, "drop")
  /\ IF There
       THEN /\ row' = [row EXCEPT !.state = "gone"]
            /\ records' = <<>>
            /\ Goto(q, "unlink")
       ELSE Over(q) /\ UNCHANGED <<row, records>>
  /\ UNCHANGED <<disk, bad, made, counts>>

Unlink(q) ==
  /\ At(q, {"delete"}, "unlink")
  /\ disk' = disk \ {call[q].old}
  /\ Over(q)
  /\ UNCHANGED <<row, records, bad, made, counts>>

\* The server stops and starts again: nothing looks at records or files.
Stop ==
  /\ Busy # {} /\ faults < MaxFaults /\ faults' = faults + 1
  /\ call' = [q \in Requests |-> Idle]
  /\ UNCHANGED <<row, records, disk, bad, made, calls, overlapped>>

Arrive(q)  == AskUpload(q) \/ AskReplace(q) \/ AskReprofile(q) \/ AskDelete(q)
Replace(q) == WriteFile(q) \/ WriteFails(q) \/ CreateRecord(q) \/ PointAtFile(q)
              \/ PointFails(q) \/ FailRecord(q) \/ CompleteRecord(q) \/ RemoveOld(q)
              \/ RecordRaises(q)
Reprofile(q) == LoadRow(q) \/ ReadFile(q) \/ SaveProfiles(q) \/ ReturnRow(q)
                \/ ReprofileRaises(q)
Next ==
  \/ \E q \in Requests : Arrive(q) \/ WriteUpload(q) \/ InsertRow(q) \/ Replace(q)
                         \/ Reprofile(q) \/ DropRow(q) \/ Unlink(q)
  \/ Stop

Spec == Init /\ [][Next]_vars

-----------------------------------------------------------------------------
Kinds == {"none", "upload", "replace", "reprofile", "delete"}
Pcs   == {"idle", "write", "insert", "record", "point", "load", "read", "save",
          "return", "fail", "complete", "remove", "drop", "unlink"}
Paths == Files \cup {NoFile}

\* Row, records, files and requests keep their types, and every record is of a
\* file that was written.
TypeOK ==
  /\ row \in [state : {"none", "there", "gone"}, path : Paths, profiled : Paths]
  /\ DOMAIN records \subseteq 1 .. made
  /\ \A n \in DOMAIN records :
       records[n] \in [old : Paths, status : {"pending", "success", "failed"}]
  /\ disk \subseteq 1 .. made /\ bad \subseteq 1 .. made
  /\ made \in 0 .. MaxFiles
  /\ call \in [Requests -> [kind : Kinds, pc : Pcs, old : Paths, new : Paths,
                        read : Paths]]
  /\ calls \in 0 .. MaxCalls /\ faults \in 0 .. MaxFaults
  /\ overlapped \in BOOLEAN

\* The file a dataset names is on the disk, whatever fails and whichever
\* requests overlap: replace and delete remove a file only after the row has
\* stopped naming it.
TheRowsFileIsThere == There /\ row.path # NoFile => row.path \in disk

\* A replacement that succeeded was not undone by an older one: the dataset
\* names the file of the newest success, or one that came after it.
SuccessesStand == There => \A n \in DOMAIN records :
                             records[n].status = "success" => n <= row.path

\* Files do not pile up: while the dataset lives, each file is the one it
\* names, is held by a request, or can be found through a record that did not
\* succeed; every other one was left by a fault of its own.
Held    == UNION {{call[q].old, call[q].new} : q \in Busy}
Found   == UNION {{n, records[n].old} : n \in {r \in DOMAIN records :
                                               records[r].status # "success"}}
Unknown == disk \ ({row.path} \cup Held \cup Found)
FilesAreAccountedFor == There => Cardinality(Unknown) <= faults

\* While requests come one at a time, the profiles are those of the file the
\* dataset names, unless its replacement is under way or did not succeed.  (A
\* reprofile beside a replacement may write those of the old file: its update
\* does not look at file_path.)
ProfilesAreOfTheFile ==
  There /\ ~overlapped /\ row.path # NoFile /\ row.profiled # row.path =>
    row.path \in DOMAIN records /\ records[row.path].status # "success"

\* A record is pending only while its request runs; only a fault can leave it.
PendingIsAttended ==
  \A n \in DOMAIN records : records[n].status = "pending" =>
    faults > 0 \/ \E q \in Busy : call[q].kind = "replace" /\ call[q].new = n

\* ON DELETE CASCADE: no history is kept, or written late, for a dataset that
\* was deleted.
HistoryGoesToo == row.state # "there" => records = <<>>

\* The history tells of the files: no success was undone by an older request, a
\* pending record has its request or a fault, a file that no row, request or open
\* record names was left by a fault, and a dataset that is gone has no history.
HistoryIsTrue ==
  TypeOK /\ SuccessesStand /\ PendingIsAttended /\ FilesAreAccountedFor /\ HistoryGoesToo
=============================================================================
