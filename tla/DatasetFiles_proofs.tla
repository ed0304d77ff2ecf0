------------------------ MODULE DatasetFiles_proofs ------------------------
(***************************************************************************)
(* Proofs about DatasetFiles, for every set of requests and every number   *)
(* of files, calls and faults.                                             *)
(***************************************************************************)
EXTENDS DatasetFiles, FiniteSetTheorems, TLAPS

USE FilesAssumption
USE DEF NoFile, Files, Paths, Kinds, Pcs, Idle, There

(***************************************************************************)
(* What a request relies on, at each of its steps.  A request that serves  *)
(* an upload or a replacement is the only one of these, so that the row    *)
(* names its old file until it points it at the new one, and the record it *)
(* opened is its own; the others may only find that the row is gone.       *)
(***************************************************************************)
Loopers == {"upload", "replace"}

OneLooper ==
  \A p, q \in Requests : call[p].kind \in Loopers /\ call[q].kind \in Loopers => p = q

Shape(q) ==
  /\ call[q].pc = "idle" => call[q] = Idle
  /\ call[q].kind = "none" => call[q].pc = "idle"
  /\ call[q].kind = "upload" => call[q].pc \in {"write", "insert"}
  /\ call[q].kind = "reprofile" => call[q].pc \in {"read", "save", "return"}
  /\ call[q].kind = "delete" => call[q].pc \in {"drop", "unlink"}
  /\ call[q].kind = "replace" =>
       call[q].pc \in {"write", "record", "point", "load", "read", "save",
                       "return", "fail", "complete", "remove"}

UploadOK(q) ==
  /\ row.state = "none" /\ call[q].old = NoFile
  /\ call[q].pc = "write" => call[q].new = NoFile
  /\ call[q].new # NoFile => call[q].new = made /\ call[q].new \in disk

\* The record a replacement opened.
OwnRecord(q, status) ==
  /\ call[q].new \in DOMAIN records
  /\ records[call[q].new] = [old |-> call[q].old, status |-> status]

ReplaceOK(q) ==
  /\ row.state # "none"
  /\ call[q].pc = "write" => call[q].new = NoFile
  /\ call[q].pc # "write" => call[q].new \in 1 .. made /\ call[q].old < call[q].new
  /\ call[q].pc = "record" => call[q].new \notin DOMAIN records
  /\ There =>
       /\ call[q].pc \in {"write", "record", "point"} => row.path = call[q].old
       /\ call[q].pc \in {"record", "point"} => call[q].new \in disk
       /\ call[q].pc \notin {"write", "record", "point"} => row.path = call[q].new
       /\ call[q].pc \notin {"write", "record", "remove"} => OwnRecord(q, "pending")
       /\ call[q].pc = "remove" => OwnRecord(q, "success")

CallOK(q) ==
  /\ Shape(q)
  /\ call[q].kind = "upload" => UploadOK(q)
  /\ call[q].kind = "replace" => ReplaceOK(q)
  /\ call[q].kind \in {"reprofile", "delete"} => row.state # "none"
  /\ call[q].pc = "unlink" => row.state = "gone"

RowOK ==
  /\ row.path <= made
  /\ row.state = "none" => row.path = NoFile

FilesInv ==
  /\ TypeOK /\ OneLooper /\ \A q \in Requests : CallOK(q)
  /\ RowOK /\ TheRowsFileIsThere
  /\ SuccessesStand /\ PendingIsAttended /\ HistoryGoesToo

(***************************************************************************)
(* Which file nobody knows, uploads and replacements alone considered: the *)
(* other requests hold files by name only, and may end at any time.        *)
(***************************************************************************)
Stray ==
  {n \in disk : /\ n # row.path
                /\ \A q \in Requests : call[q].kind \in Loopers => n \notin {call[q].old, call[q].new}
                /\ \A m \in DOMAIN records : records[m].status # "success" =>
                                             n \notin {m, records[m].old}}
StraysInv == row.state # "gone" => Cardinality(Stray) <= faults

(***************************************************************************)
(* While requests come one at a time, the one there is reads the file the  *)
(* row names, and what it has saved is of that file.                       *)
(***************************************************************************)
AloneInv ==
  ~overlapped =>
    /\ \A p, q \in Busy : p = q
    /\ \A q \in Requests : There =>
         /\ call[q].pc \in {"read", "save"} => call[q].read = row.path
         /\ call[q].pc \in {"return", "complete"} => row.profiled = row.path
    /\ ProfilesAreOfTheFile
-----------------------------------------------------------------------------
Calls == [kind : Kinds, pc : Pcs, old : Paths, new : Paths, read : Paths]

LEMMA Recorded ==
  ASSUME NEW c \in Calls, NEW n \in Paths
  PROVE  [c EXCEPT !.pc = "record", !.new = n] \in Calls
  BY DEF Calls

LEMMA OneCallChanges ==
  ASSUME call \in [Requests -> Calls], NEW q \in Requests, NEW c \in Calls,
         call' = [call EXCEPT ![q] = c]
  PROVE  /\ call' \in [Requests -> Calls]
         /\ call'[q] = c
         /\ \A p \in Requests : p # q => call'[p] = call[p]
  OBVIOUS

-----------------------------------------------------------------------------
LEMMA InitIsSound == Init => FilesInv
  <1> SUFFICES ASSUME Init PROVE FilesInv
    OBVIOUS
  <1> USE DEF Init
  <1>1. DOMAIN records = {}
    OBVIOUS
  <1>2. TypeOK
    <2>1. row \in [state : {"none", "there", "gone"}, path : Paths, profiled : Paths]
      OBVIOUS
    <2>2. call \in [Requests -> Calls]
      BY DEF Calls
    <2>3. overlapped \in BOOLEAN
      OBVIOUS
    <2>4. made \in 0 .. MaxFiles /\ calls \in 0 .. MaxCalls /\ faults \in 0 .. MaxFaults
      OBVIOUS
    <2> QED  BY <1>1, <2>1, <2>2, <2>3, <2>4 DEF TypeOK, Calls
  <1>3. OneLooper /\ \A q \in Requests : CallOK(q)
    BY DEF OneLooper, Loopers, CallOK, Shape
  <1>4. RowOK /\ TheRowsFileIsThere /\ SuccessesStand /\ PendingIsAttended /\ HistoryGoesToo
    BY <1>1 DEF RowOK, TheRowsFileIsThere, SuccessesStand, PendingIsAttended, HistoryGoesToo
  <1> QED  BY <1>2, <1>3, <1>4 DEF FilesInv

LEMMA AskUploadIsSound ==
  ASSUME FilesInv, NEW q \in Requests, AskUpload(q)
  PROVE  FilesInv'
  <1> USE DEF FilesInv, AskUpload, At, counts, Serve, LoopIsFree, Busy
  <1>1. TypeOK'
    <2>1. overlapped' \in BOOLEAN
      BY DEF TypeOK
    <2>2. call' \in [Requests -> Calls]
      BY DEF TypeOK, Calls
    <2> QED  BY <2>1, <2>2 DEF TypeOK, Calls
  <1>2. OneLooper'
    BY DEF TypeOK, OneLooper, Loopers
  <1>3. \A p \in Requests : CallOK(p)'
    <2>1. CallOK(q)'
      BY DEF RowOK, TypeOK, OneLooper, CallOK, Shape, UploadOK, ReplaceOK, OwnRecord, Loopers
    <2>2. ASSUME NEW p \in Requests, p # q PROVE CallOK(p)'
      <3>1. call'[p] = call[p]
        BY <2>2 DEF TypeOK
      <3> QED  BY <2>2, <3>1 DEF TypeOK, OneLooper, CallOK, Shape, UploadOK, ReplaceOK, OwnRecord, Loopers
    <2> QED  BY <2>1, <2>2
  <1>4. RowOK' /\ TheRowsFileIsThere' /\ SuccessesStand' /\ HistoryGoesToo'
    BY DEF TypeOK, RowOK, TheRowsFileIsThere, SuccessesStand, HistoryGoesToo, CallOK, UploadOK, ReplaceOK,
           OwnRecord
  <1>5. PendingIsAttended'
    BY DEF PendingIsAttended, TypeOK, CallOK, UploadOK, ReplaceOK, OwnRecord, HistoryGoesToo, Busy
  <1> QED  BY <1>1, <1>2, <1>3, <1>4, <1>5

LEMMA AskReplaceIsSound ==
  ASSUME FilesInv, NEW q \in Requests, AskReplace(q)
  PROVE  FilesInv'
  <1> USE DEF FilesInv, AskReplace, At, counts, Serve, LoopIsFree, Busy
  <1>1. TypeOK'
    <2>1. overlapped' \in BOOLEAN
      BY DEF TypeOK
    <2>2. call' \in [Requests -> Calls]
      BY DEF TypeOK, Calls
    <2> QED  BY <2>1, <2>2 DEF TypeOK, Calls
  <1>2. OneLooper'
    BY DEF TypeOK, OneLooper, Loopers
  <1>3. \A p \in Requests : CallOK(p)'
    BY DEF TypeOK, OneLooper, CallOK, Shape, UploadOK, ReplaceOK, OwnRecord, Loopers
  <1>4. RowOK' /\ TheRowsFileIsThere' /\ SuccessesStand' /\ HistoryGoesToo'
    BY DEF TypeOK, RowOK, TheRowsFileIsThere, SuccessesStand, HistoryGoesToo, CallOK, UploadOK, ReplaceOK,
           OwnRecord
  <1>5. PendingIsAttended'
    BY DEF PendingIsAttended, TypeOK, CallOK, UploadOK, ReplaceOK, OwnRecord, HistoryGoesToo, Busy
  <1> QED  BY <1>1, <1>2, <1>3, <1>4, <1>5

LEMMA AskReprofileIsSound ==
  ASSUME FilesInv, NEW q \in Requests, AskReprofile(q)
  PROVE  FilesInv'
  <1> USE DEF FilesInv, AskReprofile, At, counts, Serve, Busy
  <1>1. TypeOK'
    <2>1. overlapped' \in BOOLEAN
      BY DEF TypeOK
    <2>2. call' \in [Requests -> Calls]
      BY DEF TypeOK, Calls
    <2> QED  BY <2>1, <2>2 DEF TypeOK, Calls
  <1>2. OneLooper'
    BY DEF TypeOK, OneLooper, Loopers
  <1>3. \A p \in Requests : CallOK(p)'
    BY DEF TypeOK, OneLooper, CallOK, Shape, UploadOK, ReplaceOK, OwnRecord, Loopers
  <1>4. RowOK' /\ TheRowsFileIsThere' /\ SuccessesStand' /\ HistoryGoesToo'
    BY DEF TypeOK, RowOK, TheRowsFileIsThere, SuccessesStand, HistoryGoesToo, CallOK, UploadOK, ReplaceOK,
           OwnRecord
  <1>5. PendingIsAttended'
    BY DEF PendingIsAttended, TypeOK, CallOK, UploadOK, ReplaceOK, OwnRecord, HistoryGoesToo, Busy
  <1> QED  BY <1>1, <1>2, <1>3, <1>4, <1>5

LEMMA AskDeleteIsSound ==
  ASSUME FilesInv, NEW q \in Requests, AskDelete(q)
  PROVE  FilesInv'
  <1> USE DEF FilesInv, AskDelete, At, counts, Serve, Busy
  <1>1. TypeOK'
    <2>1. overlapped' \in BOOLEAN
      BY DEF TypeOK
    <2>2. call' \in [Requests -> Calls]
      BY DEF TypeOK, Calls
    <2> QED  BY <2>1, <2>2 DEF TypeOK, Calls
  <1>2. OneLooper'
    BY DEF TypeOK, OneLooper, Loopers
  <1>3. \A p \in Requests : CallOK(p)'
    BY DEF TypeOK, OneLooper, CallOK, Shape, UploadOK, ReplaceOK, OwnRecord, Loopers
  <1>4. RowOK' /\ TheRowsFileIsThere' /\ SuccessesStand' /\ HistoryGoesToo'
    BY DEF TypeOK, RowOK, TheRowsFileIsThere, SuccessesStand, HistoryGoesToo, CallOK, UploadOK, ReplaceOK,
           OwnRecord
  <1>5. PendingIsAttended'
    BY DEF PendingIsAttended, TypeOK, CallOK, UploadOK, ReplaceOK, OwnRecord, HistoryGoesToo, Busy
  <1> QED  BY <1>1, <1>2, <1>3, <1>4, <1>5

LEMMA WriteUploadIsSound ==
  ASSUME FilesInv, NEW q \in Requests, WriteUpload(q)
  PROVE  FilesInv'
  <1> USE DEF FilesInv, WriteUpload, At, counts, Fresh, Goto
  <1>1. TypeOK'
    BY DEF TypeOK
  <1>2. OneLooper'
    BY DEF TypeOK, OneLooper, Loopers
  <1>3. \A p \in Requests : CallOK(p)'
    BY DEF TypeOK, OneLooper, CallOK, Shape, UploadOK, ReplaceOK, OwnRecord, Loopers
  <1>4. RowOK' /\ TheRowsFileIsThere' /\ SuccessesStand' /\ HistoryGoesToo'
    BY DEF TypeOK, RowOK, TheRowsFileIsThere, SuccessesStand, HistoryGoesToo, CallOK, UploadOK, ReplaceOK,
           OwnRecord
  <1>5. PendingIsAttended'
    <2> SUFFICES ASSUME NEW n \in DOMAIN records, records[n].status = "pending", ~(faults > 0)
                 PROVE  \E p \in Busy' : call'[p].kind = "replace" /\ call'[p].new = n
      BY DEF PendingIsAttended, TypeOK
    <2>1. PICK p \in Busy : call[p].kind = "replace" /\ call[p].new = n
      BY DEF PendingIsAttended
    <2>2. p \in Requests /\ call[p].pc # "idle" /\ n # NoFile
      BY DEF Busy, TypeOK
    <2>3. p # q /\ call'[p] = call[p]
      BY <2>1, <2>2 DEF TypeOK
    <2> QED  BY <2>1, <2>2, <2>3 DEF Busy
  <1> QED  BY <1>1, <1>2, <1>3, <1>4, <1>5

LEMMA InsertRowIsSound ==
  ASSUME FilesInv, NEW q \in Requests, InsertRow(q)
  PROVE  FilesInv'
  <1> USE DEF FilesInv, InsertRow, At, counts, Over
  <1>1. TypeOK'
    BY DEF TypeOK
  <1>2. OneLooper'
    BY DEF TypeOK, OneLooper, Loopers
  <1>3. \A p \in Requests : CallOK(p)'
    <2>1. CallOK(q)'
      BY DEF TypeOK, OneLooper, CallOK, Shape, UploadOK, ReplaceOK, OwnRecord, Loopers
    <2>2. ASSUME NEW p \in Requests, p # q PROVE CallOK(p)'
      <3>1. call'[p] = call[p]
        BY <2>2 DEF TypeOK
      <3> QED  BY <2>2, <3>1 DEF TypeOK, OneLooper, CallOK, Shape, UploadOK, ReplaceOK, OwnRecord, Loopers
    <2> QED  BY <2>1, <2>2
  <1>4. RowOK' /\ TheRowsFileIsThere' /\ SuccessesStand' /\ HistoryGoesToo'
    <2>1. RowOK' /\ HistoryGoesToo'
      BY DEF TypeOK, RowOK, HistoryGoesToo, CallOK, UploadOK, ReplaceOK
    <2>2. TheRowsFileIsThere'
      BY DEF TypeOK, RowOK, TheRowsFileIsThere, CallOK, UploadOK, ReplaceOK
    <2>3. SuccessesStand'
      BY DEF TypeOK, RowOK, HistoryGoesToo, SuccessesStand, CallOK, UploadOK, ReplaceOK
    <2> QED  BY <2>1, <2>2, <2>3
  <1>5. PendingIsAttended'
    BY DEF PendingIsAttended, TypeOK, CallOK, UploadOK, ReplaceOK, OwnRecord, HistoryGoesToo, Busy
  <1> QED  BY <1>1, <1>2, <1>3, <1>4, <1>5

LEMMA WriteFileIsSound ==
  ASSUME FilesInv, NEW q \in Requests, WriteFile(q)
  PROVE  FilesInv'
  <1> USE DEF FilesInv, WriteFile, At, counts, Fresh
  <1>1. TypeOK'
    <2>1. /\ disk' \subseteq 1 .. made' /\ bad' \subseteq 1 .. made' /\ made' \in 0 .. MaxFiles
      BY DEF TypeOK
    <2>2. call' \in [Requests -> Calls]
      <3>1. call[q] \in Calls /\ Fresh \in Paths /\ call \in [Requests -> Calls]
        BY DEF TypeOK, Calls
      <3>2. [call[q] EXCEPT !.pc = "record", !.new = Fresh] \in Calls
        BY <3>1, Recorded
      <3>3. call' = [call EXCEPT ![q] = [call[q] EXCEPT !.pc = "record", !.new = Fresh]]
        BY <3>1
      <3> QED  BY <3>1, <3>2, <3>3, OneCallChanges
    <2>3. DOMAIN records \subseteq 1 .. made'
      BY DEF TypeOK
    <2>4. overlapped' \in BOOLEAN /\ UNCHANGED <<row, records, calls, faults>>
      BY DEF TypeOK
    <2> QED  BY <2>1, <2>2, <2>3, <2>4 DEF TypeOK, Calls
  <1>2. OneLooper'
    BY DEF TypeOK, OneLooper, Loopers
  <1>3. \A p \in Requests : CallOK(p)'
    BY DEF TypeOK, OneLooper, CallOK, Shape, UploadOK, ReplaceOK, OwnRecord, Loopers
  <1>4. RowOK' /\ TheRowsFileIsThere' /\ SuccessesStand' /\ HistoryGoesToo'
    BY DEF TypeOK, RowOK, TheRowsFileIsThere, SuccessesStand, HistoryGoesToo, CallOK, UploadOK, ReplaceOK,
           OwnRecord
  <1>5. PendingIsAttended'
    <2> SUFFICES ASSUME NEW n \in DOMAIN records, records[n].status = "pending", ~(faults > 0)
                 PROVE  \E p \in Busy' : call'[p].kind = "replace" /\ call'[p].new = n
      BY DEF PendingIsAttended, TypeOK
    <2>1. PICK p \in Busy : call[p].kind = "replace" /\ call[p].new = n
      BY DEF PendingIsAttended
    <2>2. p \in Requests /\ call[p].pc # "idle" /\ n # NoFile
      BY DEF Busy, TypeOK
    <2>3. p # q /\ call'[p] = call[p]
      <3>1. call[q].new = NoFile
        BY DEF CallOK, ReplaceOK
      <3> QED  BY <2>1, <2>2, <3>1 DEF TypeOK
    <2> QED  BY <2>1, <2>2, <2>3 DEF Busy
  <1> QED  BY <1>1, <1>2, <1>3, <1>4, <1>5

LEMMA WriteFailsIsSound ==
  ASSUME FilesInv, NEW q \in Requests, WriteFails(q)
  PROVE  FilesInv'
  <1> USE DEF FilesInv, WriteFails, At, counts, Fresh, Over
  <1>1. TypeOK'
    BY DEF TypeOK
  <1>2. OneLooper'
    BY DEF TypeOK, OneLooper, Loopers
  <1>3. \A p \in Requests : CallOK(p)'
    BY DEF TypeOK, OneLooper, CallOK, Shape, UploadOK, ReplaceOK, OwnRecord, Loopers
  <1>4. RowOK' /\ TheRowsFileIsThere' /\ SuccessesStand' /\ HistoryGoesToo'
    BY DEF TypeOK, RowOK, TheRowsFileIsThere, SuccessesStand, HistoryGoesToo, CallOK, UploadOK, ReplaceOK,
           OwnRecord
  <1>5. PendingIsAttended'
    BY DEF PendingIsAttended, TypeOK
  <1> QED  BY <1>1, <1>2, <1>3, <1>4, <1>5

LEMMA CreateRecordIsSound ==
  ASSUME FilesInv, NEW q \in Requests, CreateRecord(q)
  PROVE  FilesInv'
  <1> USE DEF FilesInv
  <1>0. /\ call[q].kind = "replace" /\ call[q].pc = "record" /\ ReplaceOK(q)
        /\ UNCHANGED <<row, disk, bad, made, calls, faults, overlapped>>
    BY DEF CreateRecord, At, CallOK, counts
  <1>1. CASE There
    <2> DEFINE r == [old |-> call[q].old, status |-> "pending"]
    <2>1. /\ DOMAIN records' = DOMAIN records \cup {call[q].new}
          /\ \A n \in DOMAIN records' : records'[n] = IF n = call[q].new THEN r ELSE records[n]
          /\ call' = [call EXCEPT ![q].pc = "point"]
      BY <1>1 DEF CreateRecord, Goto
    <2>2. call'[q] = [call[q] EXCEPT !.pc = "point"] /\ \A p \in Requests : p # q => call'[p] = call[p]
      BY <2>1 DEF TypeOK
    <2>3. TypeOK'
      <3>1. call' \in [Requests -> Calls]
        BY <2>1 DEF TypeOK, Calls
      <3>2. r \in [old : Paths, status : {"pending", "success", "failed"}] /\ call[q].new \in 1 .. made
        BY <1>0 DEF TypeOK, ReplaceOK
      <3> HIDE DEF r
      <3> QED  BY <1>0, <2>1, <3>1, <3>2 DEF TypeOK, Calls
    <2>4. OneLooper'
      BY <2>2 DEF OneLooper, TypeOK
    <2>5. CallOK(q)'
      BY <1>0, <1>1, <2>1, <2>2 DEF CallOK, Shape, ReplaceOK, OwnRecord, TypeOK
    <2>6. ASSUME NEW p \in Requests, p # q PROVE CallOK(p)'
      BY <1>0, <2>2, <2>6 DEF OneLooper, Loopers, CallOK, Shape, UploadOK
    <2>7. RowOK' /\ TheRowsFileIsThere' /\ HistoryGoesToo'
      BY <1>0, <1>1 DEF RowOK, TheRowsFileIsThere, HistoryGoesToo
    <2>8. SuccessesStand'
      BY <1>0, <2>1 DEF SuccessesStand
    <2>9. PendingIsAttended'
      BY <1>0, <2>1, <2>2 DEF PendingIsAttended, Busy, TypeOK
    <2> QED  BY <2>3, <2>4, <2>5, <2>6, <2>7, <2>8, <2>9
  <1>2. CASE ~There
    <2>1. records' = records /\ records = <<>> /\ call' = [call EXCEPT ![q] = Idle]
      BY <1>2 DEF CreateRecord, Over, HistoryGoesToo
    <2>2. call'[q] = Idle /\ \A p \in Requests : p # q => call'[p] = call[p]
      BY <2>1 DEF TypeOK
    <2>3. TypeOK' /\ OneLooper'
      BY <1>0, <2>1, <2>2 DEF TypeOK, OneLooper, Loopers
    <2>4. \A p \in Requests : CallOK(p)'
      BY <1>0, <2>1, <2>2 DEF OneLooper, Loopers, CallOK, Shape, UploadOK, ReplaceOK, OwnRecord
    <2>5. RowOK' /\ TheRowsFileIsThere' /\ HistoryGoesToo' /\ SuccessesStand' /\ PendingIsAttended'
      BY <1>0, <1>2, <2>1 DEF RowOK, TheRowsFileIsThere, HistoryGoesToo, SuccessesStand, PendingIsAttended
    <2> QED  BY <2>3, <2>4, <2>5
  <1> QED  BY <1>1, <1>2

LEMMA PointAtFileIsSound ==
  ASSUME FilesInv, NEW q \in Requests, PointAtFile(q)
  PROVE  FilesInv'
  <1> USE DEF FilesInv, PointAtFile, At, counts, Goto
  <1>1. TypeOK'
    BY DEF TypeOK
  <1>2. OneLooper'
    BY DEF TypeOK, OneLooper, Loopers
  <1>3. \A p \in Requests : CallOK(p)'
    <2>1. CallOK(q)'
      <3>1. /\ call'[q] = [call[q] EXCEPT !.pc = "load"] /\ call[q].kind = "replace" /\ call[q].pc = "point"
            /\ row' = IF There THEN [row EXCEPT !.path = call[q].new] ELSE row
            /\ row'.state = row.state /\ (There => row'.path = call[q].new)
        BY DEF TypeOK
      <3>2. call'[q].new = call[q].new /\ call'[q].old = call[q].old /\ call'[q].pc = "load" /\ call'[q].kind = "replace"
        BY <3>1 DEF TypeOK
      <3>3. ReplaceOK(q) /\ made' = made /\ records' = records
        BY <3>1 DEF CallOK
      <3> QED  BY <3>1, <3>2, <3>3 DEF CallOK, Shape, ReplaceOK, OwnRecord
    <2>2. ASSUME NEW p \in Requests, p # q PROVE CallOK(p)'
      <3>1. call'[p] = call[p]
        BY <2>2 DEF TypeOK
      <3> QED  BY <2>2, <3>1 DEF TypeOK, OneLooper, CallOK, Shape, UploadOK, ReplaceOK, OwnRecord, Loopers
    <2> QED  BY <2>1, <2>2
  <1>4. RowOK' /\ TheRowsFileIsThere' /\ SuccessesStand' /\ HistoryGoesToo'
    <2>1. RowOK' /\ HistoryGoesToo'
      BY DEF TypeOK, RowOK, HistoryGoesToo, CallOK, UploadOK, ReplaceOK
    <2>2. TheRowsFileIsThere'
      BY DEF TypeOK, RowOK, TheRowsFileIsThere, CallOK, UploadOK, ReplaceOK
    <2>3. SuccessesStand'
      BY DEF TypeOK, RowOK, HistoryGoesToo, SuccessesStand, CallOK, UploadOK, ReplaceOK
    <2> QED  BY <2>1, <2>2, <2>3
  <1>5. PendingIsAttended'
    BY DEF PendingIsAttended, TypeOK, CallOK, UploadOK, ReplaceOK, OwnRecord, HistoryGoesToo, Busy
  <1> QED  BY <1>1, <1>2, <1>3, <1>4, <1>5

LEMMA PointFailsIsSound ==
  ASSUME FilesInv, NEW q \in Requests, PointFails(q)
  PROVE  FilesInv'
  <1> USE DEF FilesInv, PointFails, At, counts, Settle, Over
  <1>1. TypeOK'
    BY DEF TypeOK
  <1>2. OneLooper'
    BY DEF TypeOK, OneLooper, Loopers
  <1>3. \A p \in Requests : CallOK(p)'
    <2>1. CallOK(q)'
      BY DEF TypeOK, OneLooper, CallOK, Shape, UploadOK, ReplaceOK, OwnRecord, Loopers
    <2>2. ASSUME NEW p \in Requests, p # q PROVE CallOK(p)'
      <3>1. call'[p] = call[p]
        BY <2>2 DEF TypeOK
      <3> QED  BY <2>2, <3>1 DEF TypeOK, OneLooper, CallOK, Shape, UploadOK, ReplaceOK, OwnRecord, Loopers
    <2> QED  BY <2>1, <2>2
  <1>4. RowOK' /\ TheRowsFileIsThere' /\ SuccessesStand' /\ HistoryGoesToo'
    <2>1. RowOK' /\ HistoryGoesToo'
      BY DEF TypeOK, RowOK, HistoryGoesToo, CallOK, UploadOK, ReplaceOK
    <2>2. TheRowsFileIsThere'
      BY DEF TypeOK, RowOK, TheRowsFileIsThere, CallOK, UploadOK, ReplaceOK
    <2>3. SuccessesStand'
      BY DEF TypeOK, RowOK, HistoryGoesToo, SuccessesStand, CallOK, UploadOK, ReplaceOK
    <2> QED  BY <2>1, <2>2, <2>3
  <1>5. PendingIsAttended'
    BY DEF PendingIsAttended, TypeOK, CallOK, UploadOK, ReplaceOK, OwnRecord, HistoryGoesToo, Busy
  <1> QED  BY <1>1, <1>2, <1>3, <1>4, <1>5

LEMMA LoadRowIsSound ==
  ASSUME FilesInv, NEW q \in Requests, LoadRow(q)
  PROVE  FilesInv'
  <1> USE DEF FilesInv, LoadRow, At, counts, NoResult, Goto, Over
  <1>1. TypeOK'
    BY DEF TypeOK
  <1>2. OneLooper'
    BY DEF TypeOK, OneLooper, Loopers
  <1>3. \A p \in Requests : CallOK(p)'
    BY DEF TypeOK, OneLooper, CallOK, Shape, UploadOK, ReplaceOK, OwnRecord, Loopers
  <1>4. RowOK' /\ TheRowsFileIsThere' /\ SuccessesStand' /\ HistoryGoesToo'
    BY DEF TypeOK, RowOK, TheRowsFileIsThere, SuccessesStand, HistoryGoesToo, CallOK, UploadOK, ReplaceOK,
           OwnRecord
  <1>5. PendingIsAttended'
    <2> SUFFICES ASSUME NEW n \in DOMAIN records, records[n].status = "pending", ~(faults > 0)
                 PROVE  \E p \in Busy' : call'[p].kind = "replace" /\ call'[p].new = n
      BY DEF PendingIsAttended, TypeOK
    <2>1. PICK p \in Busy : call[p].kind = "replace" /\ call[p].new = n
      BY DEF PendingIsAttended
    <2>2. p \in Requests /\ call[p].pc # "idle" /\ n # NoFile
      BY DEF Busy, TypeOK
    <2>3. call'[p] = call[p] \/ call'[p] = [call[p] EXCEPT !.pc = "read", !.read = row.path]
      <3>1. There /\ call' = [call EXCEPT ![q].pc = "read", ![q].read = row.path]
        BY DEF HistoryGoesToo
      <3> QED  BY <2>2, <3>1 DEF TypeOK
    <2> QED  BY <2>1, <2>2, <2>3 DEF Busy, TypeOK
  <1> QED  BY <1>1, <1>2, <1>3, <1>4, <1>5

LEMMA ReadFileIsSound ==
  ASSUME FilesInv, NEW q \in Requests, ReadFile(q)
  PROVE  FilesInv'
  <1> USE DEF FilesInv, ReadFile, At, counts, NoResult, Goto, Over
  <1>1. TypeOK'
    BY DEF TypeOK
  <1>2. OneLooper'
    BY DEF TypeOK, OneLooper, Loopers
  <1>3. \A p \in Requests : CallOK(p)'
    BY DEF TypeOK, OneLooper, CallOK, Shape, UploadOK, ReplaceOK, OwnRecord, Loopers
  <1>4. RowOK' /\ TheRowsFileIsThere' /\ SuccessesStand' /\ HistoryGoesToo'
    BY DEF TypeOK, RowOK, TheRowsFileIsThere, SuccessesStand, HistoryGoesToo, CallOK, UploadOK, ReplaceOK,
           OwnRecord
  <1>5. PendingIsAttended'
    BY DEF PendingIsAttended, TypeOK, CallOK, UploadOK, ReplaceOK, OwnRecord, HistoryGoesToo, Busy
  <1> QED  BY <1>1, <1>2, <1>3, <1>4, <1>5

LEMMA SaveProfilesIsSound ==
  ASSUME FilesInv, NEW q \in Requests, SaveProfiles(q)
  PROVE  FilesInv'
  <1> USE DEF FilesInv, SaveProfiles, At, counts, Goto
  <1>1. TypeOK'
    BY DEF TypeOK
  <1>2. OneLooper'
    BY DEF TypeOK, OneLooper, Loopers
  <1>3. \A p \in Requests : CallOK(p)'
    BY DEF TypeOK, OneLooper, CallOK, Shape, UploadOK, ReplaceOK, OwnRecord, Loopers
  <1>4. RowOK' /\ TheRowsFileIsThere' /\ SuccessesStand' /\ HistoryGoesToo'
    BY DEF TypeOK, RowOK, TheRowsFileIsThere, SuccessesStand, HistoryGoesToo, CallOK, UploadOK, ReplaceOK,
           OwnRecord
  <1>5. PendingIsAttended'
    <2> SUFFICES ASSUME NEW n \in DOMAIN records, records[n].status = "pending", ~(faults > 0)
                 PROVE  \E p \in Busy' : call'[p].kind = "replace" /\ call'[p].new = n
      BY DEF PendingIsAttended, TypeOK
    <2>1. PICK p \in Busy : call[p].kind = "replace" /\ call[p].new = n
      BY DEF PendingIsAttended
    <2>2. p \in Requests /\ call[p].pc # "idle" /\ n # NoFile
      BY DEF Busy, TypeOK
    <2>3. call'[p] = call[p] \/ call'[p] = [call[p] EXCEPT !.pc = "return"]
      BY <2>2 DEF TypeOK
    <2> QED  BY <2>1, <2>2, <2>3 DEF Busy, TypeOK
  <1> QED  BY <1>1, <1>2, <1>3, <1>4, <1>5

LEMMA ReturnRowIsSound ==
  ASSUME FilesInv, NEW q \in Requests, ReturnRow(q)
  PROVE  FilesInv'
  <1> USE DEF FilesInv, ReturnRow, At, counts, NoResult, Goto, Over
  <1>1. TypeOK'
    BY DEF TypeOK
  <1>2. OneLooper'
    BY DEF TypeOK, OneLooper, Loopers
  <1>3. \A p \in Requests : CallOK(p)'
    BY DEF TypeOK, OneLooper, CallOK, Shape, UploadOK, ReplaceOK, OwnRecord, Loopers
  <1>4. RowOK' /\ TheRowsFileIsThere' /\ SuccessesStand' /\ HistoryGoesToo'
    BY DEF TypeOK, RowOK, TheRowsFileIsThere, SuccessesStand, HistoryGoesToo, CallOK, UploadOK, ReplaceOK,
           OwnRecord
  <1>5. PendingIsAttended'
    <2> SUFFICES ASSUME NEW n \in DOMAIN records, records[n].status = "pending", ~(faults > 0)
                 PROVE  \E p \in Busy' : call'[p].kind = "replace" /\ call'[p].new = n
      BY DEF PendingIsAttended, TypeOK
    <2>1. PICK p \in Busy : call[p].kind = "replace" /\ call[p].new = n
      BY DEF PendingIsAttended
    <2>2. p \in Requests /\ call[p].pc # "idle" /\ n # NoFile
      BY DEF Busy, TypeOK
    <2>4. n \in DOMAIN records /\ There
      BY DEF HistoryGoesToo
    <2>3. call'[p] = call[p] \/ call'[p] = [call[p] EXCEPT !.pc = "complete"]
      BY <2>1, <2>2, <2>4 DEF TypeOK
    <2> QED  BY <2>1, <2>2, <2>3 DEF Busy, TypeOK
  <1> QED  BY <1>1, <1>2, <1>3, <1>4, <1>5

LEMMA ReprofileRaisesIsSound ==
  ASSUME FilesInv, NEW q \in Requests, ReprofileRaises(q)
  PROVE  FilesInv'
  <1> USE DEF FilesInv, ReprofileRaises, At, counts, NoResult, Goto, Over
  <1>1. TypeOK'
    BY DEF TypeOK
  <1>2. OneLooper'
    BY DEF TypeOK, OneLooper, Loopers
  <1>3. \A p \in Requests : CallOK(p)'
    BY DEF TypeOK, OneLooper, CallOK, Shape, UploadOK, ReplaceOK, OwnRecord, Loopers
  <1>4. RowOK' /\ TheRowsFileIsThere' /\ SuccessesStand' /\ HistoryGoesToo'
    BY DEF TypeOK, RowOK, TheRowsFileIsThere, SuccessesStand, HistoryGoesToo, CallOK, UploadOK, ReplaceOK,
           OwnRecord
  <1>5. PendingIsAttended'
    BY DEF PendingIsAttended, TypeOK, CallOK, UploadOK, ReplaceOK, OwnRecord, HistoryGoesToo, Busy
  <1> QED  BY <1>1, <1>2, <1>3, <1>4, <1>5

LEMMA FailRecordIsSound ==
  ASSUME FilesInv, NEW q \in Requests, FailRecord(q)
  PROVE  FilesInv'
  <1> USE DEF FilesInv, FailRecord, At, counts, Settle, Over
  <1>1. TypeOK'
    BY DEF TypeOK
  <1>2. OneLooper'
    BY DEF TypeOK, OneLooper, Loopers
  <1>3. \A p \in Requests : CallOK(p)'
    <2>1. CallOK(q)'
      BY DEF TypeOK, OneLooper, CallOK, Shape, UploadOK, ReplaceOK, OwnRecord, Loopers
    <2>2. ASSUME NEW p \in Requests, p # q PROVE CallOK(p)'
      <3>1. call'[p] = call[p]
        BY <2>2 DEF TypeOK
      <3> QED  BY <2>2, <3>1 DEF TypeOK, OneLooper, CallOK, Shape, UploadOK, ReplaceOK, OwnRecord, Loopers
    <2> QED  BY <2>1, <2>2
  <1>4. RowOK' /\ TheRowsFileIsThere' /\ SuccessesStand' /\ HistoryGoesToo'
    <2>1. RowOK' /\ HistoryGoesToo'
      BY DEF TypeOK, RowOK, HistoryGoesToo, CallOK, UploadOK, ReplaceOK
    <2>2. TheRowsFileIsThere'
      BY DEF TypeOK, RowOK, TheRowsFileIsThere, CallOK, UploadOK, ReplaceOK
    <2>3. SuccessesStand'
      BY DEF TypeOK, RowOK, HistoryGoesToo, SuccessesStand, CallOK, UploadOK, ReplaceOK
    <2> QED  BY <2>1, <2>2, <2>3
  <1>5. PendingIsAttended'
    <2> SUFFICES ASSUME NEW n \in DOMAIN records', records'[n].status = "pending", ~(faults' > 0)
                 PROVE  \E p \in Busy' : call'[p].kind = "replace" /\ call'[p].new = n
      BY DEF PendingIsAttended
    <2>1. n \in DOMAIN records /\ records[n].status = "pending" /\ n # call[q].new /\ n # 0 /\ ~(faults > 0)
      BY DEF TypeOK, CallOK, UploadOK, ReplaceOK, OwnRecord, HistoryGoesToo
    <2>2. PICK p \in Busy : call[p].kind = "replace" /\ call[p].new = n
      BY <2>1 DEF PendingIsAttended
    <2>3. p # q /\ p \in Requests /\ call[p].pc # "idle" /\ call'[p] = call[p]
      BY <2>1, <2>2 DEF Busy, TypeOK
    <2> QED  BY <2>2, <2>3 DEF Busy
  <1> QED  BY <1>1, <1>2, <1>3, <1>4, <1>5

LEMMA CompleteRecordIsSound ==
  ASSUME FilesInv, NEW q \in Requests, CompleteRecord(q)
  PROVE  FilesInv'
  <1> USE DEF FilesInv, CompleteRecord, At, counts, Settle, Goto
  <1>1. TypeOK'
    BY DEF TypeOK
  <1>2. OneLooper'
    BY DEF TypeOK, OneLooper, Loopers
  <1>3. \A p \in Requests : CallOK(p)'
    <2>1. CallOK(q)'
      <3>1. /\ call[q].kind = "replace" /\ call[q].pc = "complete"
            /\ call'[q].new = call[q].new /\ call'[q].old = call[q].old /\ call'[q].pc = "remove" /\ call'[q].kind = "replace"
        BY DEF TypeOK
      <3>3. ReplaceOK(q) /\ made' = made /\ row' = row /\ disk' = disk
        BY <3>1 DEF CallOK
      <3>4. There => OwnRecord(q, "success")'
        BY <3>1, <3>3 DEF ReplaceOK, OwnRecord
      <3> QED  BY <3>1, <3>3, <3>4 DEF CallOK, Shape, ReplaceOK
    <2>2. ASSUME NEW p \in Requests, p # q PROVE CallOK(p)'
      <3>1. call'[p] = call[p]
        BY <2>2 DEF TypeOK
      <3> QED  BY <2>2, <3>1 DEF TypeOK, OneLooper, CallOK, Shape, UploadOK, ReplaceOK, OwnRecord, Loopers
    <2> QED  BY <2>1, <2>2
  <1>4. RowOK' /\ TheRowsFileIsThere' /\ SuccessesStand' /\ HistoryGoesToo'
    <2>1. RowOK' /\ HistoryGoesToo'
      BY DEF TypeOK, RowOK, HistoryGoesToo, CallOK, UploadOK, ReplaceOK
    <2>2. TheRowsFileIsThere'
      BY DEF TypeOK, RowOK, TheRowsFileIsThere, CallOK, UploadOK, ReplaceOK
    <2>3. SuccessesStand'
      BY DEF TypeOK, RowOK, HistoryGoesToo, SuccessesStand, CallOK, UploadOK, ReplaceOK
    <2> QED  BY <2>1, <2>2, <2>3
  <1>5. PendingIsAttended'
    BY DEF PendingIsAttended, TypeOK, CallOK, UploadOK, ReplaceOK, OwnRecord, HistoryGoesToo, Busy
  <1> QED  BY <1>1, <1>2, <1>3, <1>4, <1>5

LEMMA RemoveOldIsSound ==
  ASSUME FilesInv, NEW q \in Requests, RemoveOld(q)
  PROVE  FilesInv'
  <1> USE DEF FilesInv, RemoveOld, At, counts, Over
  <1>1. TypeOK'
    BY DEF TypeOK
  <1>2. OneLooper'
    BY DEF TypeOK, OneLooper, Loopers
  <1>3. \A p \in Requests : CallOK(p)'
    <2>1. CallOK(q)'
      BY DEF TypeOK, OneLooper, CallOK, Shape, UploadOK, ReplaceOK, OwnRecord, Loopers
    <2>2. ASSUME NEW p \in Requests, p # q PROVE CallOK(p)'
      <3>1. call'[p] = call[p]
        BY <2>2 DEF TypeOK
      <3> QED  BY <2>2, <3>1 DEF TypeOK, OneLooper, CallOK, Shape, UploadOK, ReplaceOK, OwnRecord, Loopers
    <2> QED  BY <2>1, <2>2
  <1>4. RowOK' /\ TheRowsFileIsThere' /\ SuccessesStand' /\ HistoryGoesToo'
    <2>1. RowOK' /\ HistoryGoesToo'
      BY DEF TypeOK, RowOK, HistoryGoesToo, CallOK, UploadOK, ReplaceOK
    <2>2. TheRowsFileIsThere'
      BY DEF TypeOK, RowOK, TheRowsFileIsThere, CallOK, UploadOK, ReplaceOK
    <2>3. SuccessesStand'
      BY DEF TypeOK, RowOK, HistoryGoesToo, SuccessesStand, CallOK, UploadOK, ReplaceOK
    <2> QED  BY <2>1, <2>2, <2>3
  <1>5. PendingIsAttended'
    <2> SUFFICES ASSUME NEW n \in DOMAIN records, records[n].status = "pending", ~(faults > 0)
                 PROVE  \E p \in Busy' : call'[p].kind = "replace" /\ call'[p].new = n
      BY DEF PendingIsAttended
    <2>0. There
      BY DEF HistoryGoesToo
    <2>4. call[q].kind = "replace" /\ call[q].pc = "remove" /\ CallOK(q)
      OBVIOUS
    <2>5. OwnRecord(q, "success")
      BY <2>0, <2>4 DEF CallOK, ReplaceOK
    <2>1. n # call[q].new
      BY <2>5 DEF OwnRecord
    <2>2. PICK p \in Busy : call[p].kind = "replace" /\ call[p].new = n
      BY <2>1 DEF PendingIsAttended
    <2>3. p # q /\ p \in Requests /\ call[p].pc # "idle" /\ call'[p] = call[p]
      BY <2>1, <2>2 DEF Busy, TypeOK
    <2> QED  BY <2>2, <2>3 DEF Busy
  <1> QED  BY <1>1, <1>2, <1>3, <1>4, <1>5

LEMMA RecordRaisesIsSound ==
  ASSUME FilesInv, NEW q \in Requests, RecordRaises(q)
  PROVE  FilesInv'
  <1> USE DEF FilesInv, RecordRaises, At, counts, Over
  <1>1. TypeOK'
    BY DEF TypeOK
  <1>2. OneLooper'
    BY DEF TypeOK, OneLooper, Loopers
  <1>3. \A p \in Requests : CallOK(p)'
    BY DEF TypeOK, OneLooper, CallOK, Shape, UploadOK, ReplaceOK, OwnRecord, Loopers
  <1>4. RowOK' /\ TheRowsFileIsThere' /\ SuccessesStand' /\ HistoryGoesToo'
    BY DEF TypeOK, RowOK, TheRowsFileIsThere, SuccessesStand, HistoryGoesToo, CallOK, UploadOK, ReplaceOK,
           OwnRecord
  <1>5. PendingIsAttended'
    BY DEF PendingIsAttended, TypeOK, CallOK, UploadOK, ReplaceOK, OwnRecord, HistoryGoesToo, Busy
  <1> QED  BY <1>1, <1>2, <1>3, <1>4, <1>5

LEMMA DropRowIsSound ==
  ASSUME FilesInv, NEW q \in Requests, DropRow(q)
  PROVE  FilesInv'
  <1> USE DEF FilesInv, DropRow, At, counts, Goto, Over
  <1>1. TypeOK'
    <2>1. row' \in [state : {"none", "there", "gone"}, path : Paths, profiled : Paths]
      BY DEF TypeOK
    <2>2. call' \in [Requests -> Calls]
      <3>0. call \in [Requests -> Calls] /\ [call[q] EXCEPT !.pc = "unlink"] \in Calls /\ Idle \in Calls
        BY DEF TypeOK, Calls
      <3>1. CASE There
        <4>1. call' = [call EXCEPT ![q] = [call[q] EXCEPT !.pc = "unlink"]]
          BY <3>0, <3>1
        <4> QED  BY ONLY <3>0, <4>1, OneCallChanges
      <3>2. CASE ~There
        <4>1. call' = [call EXCEPT ![q] = Idle]
          BY <3>2
        <4> QED  BY <3>0, <4>1
      <3> QED  BY <3>1, <3>2
    <2>3. records' = records \/ records' = <<>>
      OBVIOUS
    <2>4. DOMAIN records' \subseteq 1 .. made /\ \A n \in DOMAIN records' :
             records'[n] \in [old : Paths, status : {"pending", "success", "failed"}]
      BY <2>3 DEF TypeOK
    <2> QED  BY <2>1, <2>2, <2>4 DEF TypeOK, Calls
  <1>2. OneLooper'
    BY DEF TypeOK, OneLooper, Loopers
  <1>3. \A p \in Requests : CallOK(p)'
    BY DEF TypeOK, OneLooper, CallOK, Shape, UploadOK, ReplaceOK, OwnRecord, Loopers
  <1>4. RowOK' /\ TheRowsFileIsThere' /\ SuccessesStand' /\ HistoryGoesToo'
    BY DEF TypeOK, RowOK, TheRowsFileIsThere, SuccessesStand, HistoryGoesToo, CallOK, UploadOK, ReplaceOK,
           OwnRecord
  <1>5. PendingIsAttended'
    BY DEF PendingIsAttended, TypeOK, CallOK, UploadOK, ReplaceOK, OwnRecord, HistoryGoesToo, Busy
  <1> QED  BY <1>1, <1>2, <1>3, <1>4, <1>5

LEMMA UnlinkIsSound ==
  ASSUME FilesInv, NEW q \in Requests, Unlink(q)
  PROVE  FilesInv'
  <1> USE DEF FilesInv, Unlink, At, counts, Over
  <1>1. TypeOK'
    BY DEF TypeOK
  <1>2. OneLooper'
    BY DEF TypeOK, OneLooper, Loopers
  <1>3. \A p \in Requests : CallOK(p)'
    <2>1. CallOK(q)'
      BY DEF TypeOK, OneLooper, CallOK, Shape, UploadOK, ReplaceOK, OwnRecord, Loopers
    <2>2. ASSUME NEW p \in Requests, p # q PROVE CallOK(p)'
      <3>1. call'[p] = call[p]
        BY <2>2 DEF TypeOK
      <3> QED  BY <2>2, <3>1 DEF TypeOK, OneLooper, CallOK, Shape, UploadOK, ReplaceOK, OwnRecord, Loopers
    <2> QED  BY <2>1, <2>2
  <1>4. RowOK' /\ TheRowsFileIsThere' /\ SuccessesStand' /\ HistoryGoesToo'
    BY DEF TypeOK, RowOK, TheRowsFileIsThere, SuccessesStand, HistoryGoesToo, CallOK, UploadOK, ReplaceOK,
           OwnRecord
  <1>5. PendingIsAttended'
    BY DEF PendingIsAttended, TypeOK, CallOK, UploadOK, ReplaceOK, OwnRecord, HistoryGoesToo, Busy
  <1> QED  BY <1>1, <1>2, <1>3, <1>4, <1>5

LEMMA StopIsSound ==
  ASSUME FilesInv, Stop
  PROVE  FilesInv'
  <1> USE DEF FilesInv, Stop
  <1>1. TypeOK'
    BY DEF TypeOK
  <1>3. \A p \in Requests : CallOK(p)'
    BY DEF CallOK, Shape
  <1>4. OneLooper' /\ RowOK' /\ TheRowsFileIsThere' /\ SuccessesStand' /\ HistoryGoesToo'
    BY DEF OneLooper, Loopers, RowOK, TheRowsFileIsThere, SuccessesStand, HistoryGoesToo
  <1>5. PendingIsAttended'
    BY DEF PendingIsAttended, TypeOK
  <1> QED  BY <1>1, <1>3, <1>4, <1>5

LEMMA StepIsSound == FilesInv /\ [Next]_vars => FilesInv'
  <1> SUFFICES ASSUME FilesInv, [Next]_vars PROVE FilesInv'
    OBVIOUS
  <1>1. CASE UNCHANGED vars
    BY <1>1 DEF vars, FilesInv, TypeOK, OneLooper, Loopers, CallOK, Shape, UploadOK, ReplaceOK, OwnRecord,
                RowOK, TheRowsFileIsThere, SuccessesStand, PendingIsAttended, HistoryGoesToo, Busy
  <1>2. CASE Stop
    BY <1>2, StopIsSound
  <1>3. ASSUME NEW q \in Requests, Arrive(q) PROVE FilesInv'
    BY <1>3, AskUploadIsSound, AskReplaceIsSound, AskReprofileIsSound, AskDeleteIsSound DEF Arrive
  <1>4. ASSUME NEW q \in Requests, Replace(q) PROVE FilesInv'
    BY <1>4, WriteFileIsSound, WriteFailsIsSound, CreateRecordIsSound, PointAtFileIsSound, PointFailsIsSound,
       FailRecordIsSound, CompleteRecordIsSound, RemoveOldIsSound, RecordRaisesIsSound DEF Replace
  <1>5. ASSUME NEW q \in Requests, Reprofile(q) PROVE FilesInv'
    BY <1>5, LoadRowIsSound, ReadFileIsSound, SaveProfilesIsSound, ReturnRowIsSound, ReprofileRaisesIsSound
       DEF Reprofile
  <1>6. ASSUME NEW q \in Requests, WriteUpload(q) \/ InsertRow(q) \/ DropRow(q) \/ Unlink(q) PROVE FilesInv'
    BY <1>6, WriteUploadIsSound, InsertRowIsSound, DropRowIsSound, UnlinkIsSound
  <1> QED  BY <1>1, <1>2, <1>3, <1>4, <1>5, <1>6 DEF Next

\* The invariant as a whole: what every request relies on holds throughout.
THEOREM FilesInvHolds == Spec => []FilesInv
  BY InitIsSound, StepIsSound, PTL DEF Spec

\* Row, records, files and requests keep their types.
THEOREM TypeCorrect == Spec => []TypeOK
  BY FilesInvHolds, PTL DEF FilesInv

\* The file a dataset names is on the disk, whatever fails and whichever
\* requests overlap, for every number of requests.
THEOREM TheFileStays == Spec => []TheRowsFileIsThere
  BY FilesInvHolds, PTL DEF FilesInv

-----------------------------------------------------------------------------
LEMMA StraysAreFinite == ASSUME TypeOK PROVE IsFiniteSet(Stray)
  <1>1. IsFiniteSet(1 .. made)
    BY FS_Interval DEF TypeOK
  <1> QED  BY <1>1, FS_Subset DEF TypeOK, Stray

LEMMA NoMoreStrays ==
  ASSUME TypeOK, StraysInv, faults' \in Nat, faults' >= faults,
         row'.state # "gone" => row.state # "gone" /\ Stray' \subseteq Stray
  PROVE  StraysInv'
  <1> SUFFICES ASSUME row'.state # "gone" PROVE Cardinality(Stray') <= faults'
    BY DEF StraysInv
  <1>1. IsFiniteSet(Stray) /\ IsFiniteSet(Stray') /\ Cardinality(Stray') <= Cardinality(Stray)
    BY StraysAreFinite, FS_Subset
  <1>2. Cardinality(Stray) \in Nat /\ Cardinality(Stray') \in Nat
    BY <1>1, FS_CardinalityType
  <1> QED  BY <1>1, <1>2 DEF StraysInv, TypeOK

LEMMA OneMoreStray ==
  ASSUME TypeOK, StraysInv, faults' = faults + 1, NEW x,
         row'.state # "gone" => row.state # "gone" /\ Stray' \subseteq Stray \cup {x}
  PROVE  StraysInv'
  <1> SUFFICES ASSUME row'.state # "gone" PROVE Cardinality(Stray') <= faults'
    BY DEF StraysInv
  <1>1. /\ IsFiniteSet(Stray \cup {x})
        /\ Cardinality(Stray \cup {x}) <= Cardinality(Stray) + 1
    <2>1. IsFiniteSet(Stray) /\ Cardinality(Stray) \in Nat
      BY StraysAreFinite, FS_CardinalityType
    <2>2. CASE x \in Stray
      <3>1. Stray \cup {x} = Stray
        BY <2>2
      <3> QED  BY <2>1, <3>1
    <2>3. CASE x \notin Stray
      <3>1. IsFiniteSet(Stray \cup {x}) /\ Cardinality(Stray \cup {x}) = Cardinality(Stray) + 1
        BY <2>1, <2>3, FS_AddElement
      <3> QED  BY <2>1, <3>1
    <2> QED  BY <2>2, <2>3
  <1>2. IsFiniteSet(Stray') /\ Cardinality(Stray') <= Cardinality(Stray \cup {x})
    BY <1>1, FS_Subset
  <1>3. /\ Cardinality(Stray) \in Nat /\ Cardinality(Stray') \in Nat
        /\ Cardinality(Stray \cup {x}) \in Nat
    BY StraysAreFinite, <1>1, <1>2, FS_CardinalityType
  <1> QED  BY <1>1, <1>2, <1>3 DEF StraysInv, TypeOK

LEMMA AskUploadLosesNoFile ==
  ASSUME FilesInv, NEW q \in Requests, AskUpload(q), row'.state # "gone"
  PROVE  row.state # "gone" /\ Stray' \subseteq Stray
  <1> USE DEF FilesInv, AskUpload, At, counts, Serve, LoopIsFree, Busy
  <1>1. row.state # "gone"
    BY DEF TypeOK, CallOK
  <1>2. ASSUME NEW n \in Stray' PROVE n \in Stray
    BY <1>1, <1>2 DEF Stray, TypeOK, OneLooper, CallOK, Shape, UploadOK, ReplaceOK, OwnRecord, Loopers
  <1> QED  BY <1>1, <1>2

LEMMA AskReplaceLosesNoFile ==
  ASSUME FilesInv, NEW q \in Requests, AskReplace(q), row'.state # "gone"
  PROVE  row.state # "gone" /\ Stray' \subseteq Stray
  <1> USE DEF FilesInv, AskReplace, At, counts, Serve, LoopIsFree, Busy
  <1>1. row.state # "gone"
    BY DEF TypeOK, CallOK
  <1>2. ASSUME NEW n \in Stray' PROVE n \in Stray
    BY <1>1, <1>2 DEF Stray, TypeOK, OneLooper, CallOK, Shape, UploadOK, ReplaceOK, OwnRecord, Loopers
  <1> QED  BY <1>1, <1>2

LEMMA AskReprofileLosesNoFile ==
  ASSUME FilesInv, NEW q \in Requests, AskReprofile(q), row'.state # "gone"
  PROVE  row.state # "gone" /\ Stray' \subseteq Stray
  <1> USE DEF FilesInv, AskReprofile, At, counts, Serve, Busy
  <1>1. row.state # "gone"
    BY DEF TypeOK, CallOK
  <1>2. ASSUME NEW n \in Stray' PROVE n \in Stray
    BY <1>1, <1>2 DEF Stray, TypeOK, OneLooper, CallOK, Shape, UploadOK, ReplaceOK, OwnRecord, Loopers
  <1> QED  BY <1>1, <1>2

LEMMA AskDeleteLosesNoFile ==
  ASSUME FilesInv, NEW q \in Requests, AskDelete(q), row'.state # "gone"
  PROVE  row.state # "gone" /\ Stray' \subseteq Stray
  <1> USE DEF FilesInv, AskDelete, At, counts, Serve, Busy
  <1>1. row.state # "gone"
    BY DEF TypeOK, CallOK
  <1>2. ASSUME NEW n \in Stray' PROVE n \in Stray
    BY <1>1, <1>2 DEF Stray, TypeOK, OneLooper, CallOK, Shape, UploadOK, ReplaceOK, OwnRecord, Loopers
  <1> QED  BY <1>1, <1>2

LEMMA InsertRowLosesNoFile ==
  ASSUME FilesInv, NEW q \in Requests, InsertRow(q), row'.state # "gone"
  PROVE  row.state # "gone" /\ Stray' \subseteq Stray
  <1> USE DEF FilesInv
  <1>1. call[q].kind = "upload" /\ row.state = "none" /\ row.path = NoFile /\ call[q].old = NoFile
    BY DEF InsertRow, At, CallOK, UploadOK, RowOK
  <1>2. ASSUME NEW p \in Requests, p # q PROVE call'[p] = call[p] /\ call[p].kind \notin Loopers
    BY <1>1, <1>2 DEF InsertRow, Over, OneLooper, Loopers, TypeOK
  <1>3. disk' = disk /\ records' = records /\ row'.path = call[q].new /\ NoFile \notin disk
    BY DEF InsertRow, TypeOK
  <1>4. ASSUME NEW n \in Stray' PROVE n \in Stray
    BY <1>1, <1>2, <1>3, <1>4 DEF Stray
  <1> QED  BY <1>1, <1>4

LEMMA WriteFileLosesNoFile ==
  ASSUME FilesInv, NEW q \in Requests, WriteFile(q), row'.state # "gone"
  PROVE  row.state # "gone" /\ Stray' \subseteq Stray
  <1> USE DEF FilesInv, WriteFile, At, counts, Fresh
  <1>1. row.state # "gone"
    BY DEF TypeOK, CallOK
  <1>2. ASSUME NEW n \in Stray' PROVE n \in Stray
    BY <1>1, <1>2 DEF Stray, TypeOK, OneLooper, CallOK, Shape, UploadOK, ReplaceOK, OwnRecord, Loopers
  <1> QED  BY <1>1, <1>2

LEMMA CreateRecordLosesNoFile ==
  ASSUME FilesInv, NEW q \in Requests, CreateRecord(q), row'.state # "gone"
  PROVE  row.state # "gone" /\ Stray' \subseteq Stray
  <1> USE DEF FilesInv
  <1>1. call[q].kind = "replace" /\ call[q].pc = "record" /\ ReplaceOK(q) /\ call[q].new # NoFile
    BY DEF CreateRecord, At, CallOK, ReplaceOK, TypeOK
  <1>2. ASSUME NEW p \in Requests, p # q PROVE call'[p] = call[p] /\ call[p].kind \notin Loopers
    BY <1>1, <1>2 DEF CreateRecord, OneLooper, Loopers, TypeOK, Goto, Over
  <1>3. There
    BY <1>1 DEF CreateRecord, counts, ReplaceOK, TypeOK
  <1>4. /\ row' = row /\ disk' = disk /\ call[q].new \notin DOMAIN records
        /\ DOMAIN records \subseteq DOMAIN records'
        /\ \A m \in DOMAIN records : records'[m] = records[m]
        /\ call'[q] = [call[q] EXCEPT !.pc = "point"]
    BY <1>1, <1>3 DEF CreateRecord, counts, Goto, TypeOK, ReplaceOK
  <1>5. call'[q].kind = "replace" /\ call'[q].old = call[q].old /\ call'[q].new = call[q].new
    BY <1>1, <1>4 DEF TypeOK
  <1>6. ASSUME NEW n \in Stray' PROVE n \in Stray
    BY <1>1, <1>2, <1>4, <1>5, <1>6 DEF Stray, Loopers
  <1> QED  BY <1>3, <1>6

LEMMA PointAtFileLosesNoFile ==
  ASSUME FilesInv, NEW q \in Requests, PointAtFile(q), row'.state # "gone"
  PROVE  row.state # "gone" /\ Stray' \subseteq Stray
  <1> USE DEF FilesInv
  <1>1. call[q].kind = "replace" /\ call[q].pc = "point" /\ ReplaceOK(q) /\ call[q].new # NoFile
    BY DEF PointAtFile, At, CallOK, ReplaceOK, TypeOK
  <1>2. ASSUME NEW p \in Requests, p # q PROVE call'[p] = call[p] /\ call[p].kind \notin Loopers
    BY <1>1, <1>2 DEF PointAtFile, OneLooper, Loopers, TypeOK, Goto
  <1>3. There
    BY <1>1 DEF PointAtFile, ReplaceOK, TypeOK
  <1>4. /\ disk' = disk /\ records' = records /\ call'[q] = [call[q] EXCEPT !.pc = "load"]
        /\ row'.path = call[q].new
    BY <1>3 DEF PointAtFile, Goto, TypeOK
  <1>5. call'[q].kind = "replace" /\ call'[q].old = call[q].old /\ call'[q].new = call[q].new
    BY <1>1, <1>4 DEF TypeOK
  <1>6. row.path = call[q].old
    BY <1>1, <1>3 DEF ReplaceOK
  <1>7. ASSUME NEW n \in Stray' PROVE n \in Stray
    BY <1>1, <1>2, <1>4, <1>5, <1>6, <1>7 DEF Stray, Loopers
  <1> QED  BY <1>3, <1>7

LEMMA PointFailsLosesNoFile ==
  ASSUME FilesInv, NEW q \in Requests, PointFails(q), row'.state # "gone"
  PROVE  row.state # "gone" /\ Stray' \subseteq Stray
  <1> USE DEF FilesInv
  <1>1. call[q].kind = "replace" /\ call[q].pc = "point" /\ ReplaceOK(q) /\ call[q].new # NoFile
    BY DEF PointFails, At, CallOK, ReplaceOK, TypeOK
  <1>2. ASSUME NEW p \in Requests, p # q PROVE call'[p] = call[p] /\ call[p].kind \notin Loopers
    BY <1>1, <1>2 DEF PointFails, OneLooper, Loopers, TypeOK, Settle, Over
  <1>3. There
    BY <1>1 DEF PointFails, counts, ReplaceOK, TypeOK
  <1>4. OwnRecord(q, "pending")
    BY <1>1, <1>3 DEF ReplaceOK
  <1>5. /\ row' = row /\ disk' \subseteq disk /\ call'[q] = Idle
        /\ records' = [records EXCEPT ![call[q].new].status = "failed"]
    BY <1>4 DEF PointFails, counts, Over, Settle, OwnRecord, TypeOK
  <1>6. /\ DOMAIN records' = DOMAIN records
        /\ \A m \in DOMAIN records : m # call[q].new => records'[m] = records[m]
        /\ records'[call[q].new].status = "failed" /\ records'[call[q].new].old = call[q].old
    BY <1>4, <1>5 DEF OwnRecord
  <1>7. ASSUME NEW n \in Stray' PROVE n \in Stray
    <2>1. n \in disk /\ n # row.path /\ n \notin {call[q].old, call[q].new}
      BY <1>4, <1>5, <1>6, <1>7 DEF Stray, OwnRecord
    <2>2. ASSUME NEW m \in DOMAIN records, records[m].status # "success" PROVE n \notin {m, records[m].old}
      BY <2>1, <2>2, <1>4, <1>6, <1>7 DEF Stray, OwnRecord
    <2>3. ASSUME NEW p \in Requests, call[p].kind \in Loopers PROVE n \notin {call[p].old, call[p].new}
      BY <1>2, <2>1, <2>3
    <2> QED  BY <2>1, <2>2, <2>3 DEF Stray
  <1> QED  BY <1>3, <1>7

LEMMA LoadRowLosesNoFile ==
  ASSUME FilesInv, NEW q \in Requests, LoadRow(q), row'.state # "gone"
  PROVE  row.state # "gone" /\ Stray' \subseteq Stray
  <1> USE DEF FilesInv, LoadRow, At, counts, NoResult, Goto, Over
  <1>1. row.state # "gone"
    BY DEF TypeOK, CallOK
  <1>2. ASSUME NEW n \in Stray' PROVE n \in Stray
    BY <1>1, <1>2 DEF Stray, TypeOK, OneLooper, CallOK, Shape, UploadOK, ReplaceOK, OwnRecord, Loopers
  <1> QED  BY <1>1, <1>2

LEMMA ReadFileLosesNoFile ==
  ASSUME FilesInv, NEW q \in Requests, ReadFile(q), row'.state # "gone"
  PROVE  row.state # "gone" /\ Stray' \subseteq Stray
  <1> USE DEF FilesInv, ReadFile, At, counts, NoResult, Goto, Over
  <1>1. row.state # "gone"
    BY DEF TypeOK, CallOK
  <1>2. ASSUME NEW n \in Stray' PROVE n \in Stray
    BY <1>1, <1>2 DEF Stray, TypeOK, OneLooper, CallOK, Shape, UploadOK, ReplaceOK, OwnRecord, Loopers
  <1> QED  BY <1>1, <1>2

LEMMA SaveProfilesLosesNoFile ==
  ASSUME FilesInv, NEW q \in Requests, SaveProfiles(q), row'.state # "gone"
  PROVE  row.state # "gone" /\ Stray' \subseteq Stray
  <1> USE DEF FilesInv, SaveProfiles, At, counts, Goto
  <1>1. row.state # "gone"
    BY DEF TypeOK, CallOK
  <1>2. ASSUME NEW n \in Stray' PROVE n \in Stray
    BY <1>1, <1>2 DEF Stray, TypeOK, OneLooper, CallOK, Shape, UploadOK, ReplaceOK, OwnRecord, Loopers
  <1> QED  BY <1>1, <1>2

LEMMA ReturnRowLosesNoFile ==
  ASSUME FilesInv, NEW q \in Requests, ReturnRow(q), row'.state # "gone"
  PROVE  row.state # "gone" /\ Stray' \subseteq Stray
  <1> USE DEF FilesInv, ReturnRow, At, counts, NoResult, Goto, Over
  <1>1. row.state # "gone"
    BY DEF TypeOK, CallOK
  <1>2. ASSUME NEW n \in Stray' PROVE n \in Stray
    BY <1>1, <1>2 DEF Stray, TypeOK, OneLooper, CallOK, Shape, UploadOK, ReplaceOK, OwnRecord, Loopers
  <1> QED  BY <1>1, <1>2

LEMMA ReprofileRaisesLosesNoFile ==
  ASSUME FilesInv, NEW q \in Requests, ReprofileRaises(q), row'.state # "gone"
  PROVE  row.state # "gone" /\ Stray' \subseteq Stray
  <1> USE DEF FilesInv, ReprofileRaises, At, counts, NoResult, Goto, Over
  <1>1. row.state # "gone"
    BY DEF TypeOK, CallOK
  <1>2. ASSUME NEW n \in Stray' PROVE n \in Stray
    BY <1>1, <1>2 DEF Stray, TypeOK, OneLooper, CallOK, Shape, UploadOK, ReplaceOK, OwnRecord, Loopers
  <1> QED  BY <1>1, <1>2

LEMMA FailRecordLosesNoFile ==
  ASSUME FilesInv, NEW q \in Requests, FailRecord(q), row'.state # "gone"
  PROVE  row.state # "gone" /\ Stray' \subseteq Stray
  <1> USE DEF FilesInv
  <1>1. call[q].kind = "replace" /\ call[q].pc = "fail" /\ ReplaceOK(q) /\ call[q].new # NoFile
    BY DEF FailRecord, At, CallOK, ReplaceOK, TypeOK
  <1>2. ASSUME NEW p \in Requests, p # q PROVE call'[p] = call[p] /\ call[p].kind \notin Loopers
    BY <1>1, <1>2 DEF FailRecord, OneLooper, Loopers, TypeOK, Settle, Over
  <1>3. There
    BY <1>1 DEF FailRecord, counts, ReplaceOK, TypeOK
  <1>4. OwnRecord(q, "pending")
    BY <1>1, <1>3 DEF ReplaceOK
  <1>5. /\ row' = row /\ disk' = disk /\ call'[q] = Idle
        /\ records' = [records EXCEPT ![call[q].new].status = "failed"]
    BY <1>4 DEF FailRecord, counts, Over, Settle, OwnRecord, TypeOK
  <1>6. /\ DOMAIN records' = DOMAIN records
        /\ \A m \in DOMAIN records : m # call[q].new => records'[m] = records[m]
        /\ records'[call[q].new].status = "failed" /\ records'[call[q].new].old = call[q].old
    BY <1>4, <1>5 DEF OwnRecord
  <1>7. ASSUME NEW n \in Stray' PROVE n \in Stray
    <2>1. n \in disk /\ n # row.path /\ n \notin {call[q].old, call[q].new}
      BY <1>4, <1>5, <1>6, <1>7 DEF Stray, OwnRecord
    <2>2. ASSUME NEW m \in DOMAIN records, records[m].status # "success" PROVE n \notin {m, records[m].old}
      BY <2>1, <2>2, <1>4, <1>6, <1>7 DEF Stray, OwnRecord
    <2>3. ASSUME NEW p \in Requests, call[p].kind \in Loopers PROVE n \notin {call[p].old, call[p].new}
      BY <1>2, <2>1, <2>3
    <2> QED  BY <2>1, <2>2, <2>3 DEF Stray
  <1> QED  BY <1>3, <1>7

LEMMA CompleteRecordLosesNoFile ==
  ASSUME FilesInv, NEW q \in Requests, CompleteRecord(q), row'.state # "gone"
  PROVE  row.state # "gone" /\ Stray' \subseteq Stray
  <1> USE DEF FilesInv
  <1>1. call[q].kind = "replace" /\ call[q].pc = "complete" /\ ReplaceOK(q) /\ call[q].new # NoFile
    BY DEF CompleteRecord, At, CallOK, ReplaceOK, TypeOK
  <1>2. ASSUME NEW p \in Requests, p # q PROVE call'[p] = call[p] /\ call[p].kind \notin Loopers
    BY <1>1, <1>2 DEF CompleteRecord, OneLooper, Loopers, TypeOK, Settle, Goto
  <1>3. There
    BY <1>1 DEF CompleteRecord, counts, ReplaceOK, TypeOK
  <1>4. OwnRecord(q, "pending")
    BY <1>1, <1>3 DEF ReplaceOK
  <1>5. /\ row' = row /\ disk' = disk /\ call'[q] = [call[q] EXCEPT !.pc = "remove"]
        /\ records' = [records EXCEPT ![call[q].new].status = "success"]
    BY <1>4 DEF CompleteRecord, Goto, Settle, OwnRecord, TypeOK
  <1>6. /\ DOMAIN records' = DOMAIN records
        /\ \A m \in DOMAIN records : m # call[q].new => records'[m] = records[m]
        /\ call'[q].kind = "replace" /\ call'[q].old = call[q].old /\ call'[q].new = call[q].new
    BY <1>1, <1>4, <1>5 DEF TypeOK
  <1>7. ASSUME NEW n \in Stray' PROVE n \in Stray
    <2>1. n \in disk /\ n # row.path /\ n \notin {call[q].old, call[q].new}
      BY <1>5, <1>6, <1>7 DEF Stray, Loopers
    <2>2. ASSUME NEW m \in DOMAIN records, records[m].status # "success" PROVE n \notin {m, records[m].old}
      BY <1>4, <1>6, <1>7, <2>1, <2>2 DEF Stray, OwnRecord
    <2>3. ASSUME NEW p \in Requests, call[p].kind \in Loopers PROVE n \notin {call[p].old, call[p].new}
      BY <1>2, <2>1, <2>3
    <2> QED  BY <2>1, <2>2, <2>3 DEF Stray
  <1> QED  BY <1>3, <1>7

LEMMA RemoveOldLosesNoFile ==
  ASSUME FilesInv, NEW q \in Requests, RemoveOld(q), row'.state # "gone"
  PROVE  row.state # "gone" /\ Stray' \subseteq Stray
  <1> USE DEF FilesInv, RemoveOld, At, counts, Over
  <1>1. row.state # "gone"
    BY DEF TypeOK, CallOK
  <1>2. ASSUME NEW n \in Stray' PROVE n \in Stray
    BY <1>1, <1>2 DEF Stray, TypeOK, OneLooper, CallOK, Shape, UploadOK, ReplaceOK, OwnRecord, Loopers
  <1> QED  BY <1>1, <1>2

LEMMA DropRowLosesNoFile ==
  ASSUME FilesInv, NEW q \in Requests, DropRow(q), row'.state # "gone"
  PROVE  row.state # "gone" /\ Stray' \subseteq Stray
  <1> USE DEF FilesInv, DropRow, At, counts, Goto, Over
  <1>1. row.state # "gone"
    BY DEF TypeOK, CallOK
  <1>2. ASSUME NEW n \in Stray' PROVE n \in Stray
    BY <1>1, <1>2 DEF Stray, TypeOK, OneLooper, CallOK, Shape, UploadOK, ReplaceOK, OwnRecord, Loopers
  <1> QED  BY <1>1, <1>2

LEMMA UnlinkLosesNoFile ==
  ASSUME FilesInv, NEW q \in Requests, Unlink(q), row'.state # "gone"
  PROVE  row.state # "gone" /\ Stray' \subseteq Stray
  <1> USE DEF FilesInv, Unlink, At, counts, Over
  <1>1. row.state # "gone"
    BY DEF TypeOK, CallOK
  <1>2. ASSUME NEW n \in Stray' PROVE n \in Stray
    BY <1>1, <1>2 DEF Stray, TypeOK, OneLooper, CallOK, Shape, UploadOK, ReplaceOK, OwnRecord, Loopers
  <1> QED  BY <1>1, <1>2

LEMMA WriteUploadLosesOne ==
  ASSUME FilesInv, StraysInv, NEW q \in Requests, WriteUpload(q)
  PROVE  StraysInv'
  <1> USE DEF FilesInv, WriteUpload, At, Fresh, Goto
  <1>1. row' = row /\ records' = records /\ \A p \in Requests : p # q => call'[p] = call[p]
    BY DEF TypeOK
  <1>2. CASE faults' = faults
    <2>1. disk' = disk \cup {Fresh} /\ call'[q].new = Fresh /\ call'[q].old = call[q].old /\ call'[q].kind = "upload"
      BY <1>2 DEF TypeOK
    <2>2. call[q].new = NoFile /\ call[q].kind = "upload"
      BY DEF CallOK, UploadOK
    <2>3. ASSUME NEW n \in Stray' PROVE n \in Stray
      BY <1>1, <2>1, <2>2, <2>3 DEF Stray, Loopers, TypeOK
    <2> QED  BY <1>1, <1>2, <2>3, NoMoreStrays DEF TypeOK
  <1>3. CASE faults' = faults + 1
    <2>1. call'[q].new = call[q].new /\ call'[q].old = call[q].old /\ call'[q].kind = call[q].kind
      BY <1>3 DEF TypeOK
    <2>2. ASSUME NEW n \in Stray' PROVE n \in Stray \cup {Fresh}
      BY <1>1, <2>1, <2>2 DEF Stray, Loopers
    <2> QED  BY <1>1, <1>3, <2>2, OneMoreStray
  <1> QED  BY <1>2, <1>3

LEMMA WriteFailsLosesOne ==
  ASSUME FilesInv, StraysInv, NEW q \in Requests, WriteFails(q)
  PROVE  StraysInv'
  <1> USE DEF FilesInv, WriteFails, At, Fresh, Over
  <1>1. row' = row /\ records' = records /\ \A p \in Requests : p # q => call'[p] = call[p]
    BY DEF TypeOK
  <1>2. row.state # "gone" => row.path = call[q].old /\ call[q].new = NoFile
    BY DEF CallOK, ReplaceOK, TypeOK
  <1>3. ASSUME row.state # "gone", NEW n \in Stray' PROVE n \in Stray \cup {Fresh}
    BY <1>1, <1>2, <1>3 DEF Stray, Loopers, TypeOK
  <1> QED  BY <1>1, <1>3, OneMoreStray

LEMMA RecordRaisesLosesOne ==
  ASSUME FilesInv, StraysInv, NEW q \in Requests, RecordRaises(q)
  PROVE  StraysInv'
  <1> USE DEF FilesInv, RecordRaises, At, Over
  <1>1. /\ row' = row /\ records' = records /\ disk' = disk
        /\ \A p \in Requests : p # q => call'[p] = call[p]
    BY DEF TypeOK
  <1>2. row.state # "gone" => \/ call[q].old = row.path
                             \/ /\ call[q].new \in DOMAIN records /\ records[call[q].new].status # "success"
                                /\ records[call[q].new].old = call[q].old
    <2>1. CASE call[q].kind = "upload"
      BY <2>1 DEF CallOK, UploadOK, RowOK
    <2>2. CASE call[q].kind = "replace" /\ call[q].pc = "record"
      BY <2>2 DEF CallOK, ReplaceOK, TypeOK
    <2>3. CASE call[q].kind = "replace" /\ call[q].pc \in {"fail", "complete"}
      <3>1. There => OwnRecord(q, "pending")
        BY <2>3 DEF CallOK, ReplaceOK
      <3>2. ReplaceOK(q)
        BY <2>3 DEF CallOK
      <3> QED  BY <3>1, <3>2 DEF OwnRecord, TypeOK, ReplaceOK
    <2> QED  BY <2>1, <2>2, <2>3
  <1>3. ASSUME row.state # "gone", NEW n \in Stray' PROVE n \in Stray \cup {call[q].new}
    BY <1>1, <1>2, <1>3 DEF Stray, Loopers, TypeOK
  <1> QED  BY <1>1, <1>3, OneMoreStray

LEMMA StopLosesOne ==
  ASSUME FilesInv, StraysInv, Stop
  PROVE  StraysInv'
  <1> USE DEF FilesInv, Stop
  <1>1. row' = row /\ records' = records /\ disk' = disk /\ faults' = faults + 1
    OBVIOUS
  <1>2. CASE \A q \in Requests : call[q].kind \notin Loopers
    <2>1. ASSUME NEW n \in Stray' PROVE n \in Stray
      BY <1>1, <1>2, <2>1 DEF Stray
    <2> QED  BY <1>1, <2>1, NoMoreStrays DEF TypeOK
  <1>3. ASSUME NEW q \in Requests, call[q].kind \in Loopers PROVE StraysInv'
    <2>1. \A p \in Requests : call[p].kind \in Loopers => p = q
      BY <1>3 DEF OneLooper
    <2> DEFINE x == IF call[q].pc = "remove" THEN call[q].old ELSE call[q].new
    <2>2. row.state # "gone" =>
            \/ call[q].old = row.path /\ call[q].pc # "remove"
            \/ call[q].new = row.path /\ call[q].pc = "remove"
            \/ /\ call[q].new \in DOMAIN records /\ records[call[q].new].status # "success"
               /\ records[call[q].new].old = call[q].old
      <3>1. CASE call[q].kind = "upload"
        BY <3>1 DEF CallOK, Shape, UploadOK, RowOK
      <3>2. CASE call[q].kind = "replace"
        <4>1. Shape(q) /\ ReplaceOK(q)
          BY <3>2 DEF CallOK
        <4>2. There => OwnRecord(q, "pending") \/ call[q].pc \in {"write", "record", "remove"}
          BY <4>1 DEF ReplaceOK
        <4>3. row.state # "gone" => There
          BY <4>1 DEF ReplaceOK, TypeOK
        <4> QED  BY <3>2, <4>1, <4>2, <4>3 DEF ReplaceOK, OwnRecord
      <3> QED  BY <1>3, <3>1, <3>2 DEF Loopers
    <2>3. ASSUME row.state # "gone", NEW n \in Stray' PROVE n \in Stray \cup {x}
      BY <1>1, <2>1, <2>2, <2>3 DEF Stray
    <2> HIDE DEF x
    <2> QED  BY <1>1, <2>3, OneMoreStray
  <1> QED  BY <1>2, <1>3

LEMMA StepLosesLittle == FilesInv /\ StraysInv /\ [Next]_vars => StraysInv'
  <1> SUFFICES ASSUME FilesInv, StraysInv, [Next]_vars PROVE StraysInv'
    OBVIOUS
  <1> USE DEF FilesInv
  <1>1. CASE UNCHANGED vars
    BY <1>1 DEF vars, StraysInv, Stray
  <1>2. CASE Stop
    BY <1>2, StopLosesOne
  <1>3. ASSUME NEW q \in Requests, Arrive(q) PROVE StraysInv'
    <2>1. row'.state # "gone" => row.state # "gone" /\ Stray' \subseteq Stray
      BY <1>3, AskUploadLosesNoFile, AskReplaceLosesNoFile, AskReprofileLosesNoFile, AskDeleteLosesNoFile
         DEF Arrive
    <2>2. faults' = faults
      BY <1>3 DEF Arrive, AskUpload, AskReplace, AskReprofile, AskDelete, Serve
    <2> QED  BY <2>1, <2>2, NoMoreStrays DEF TypeOK
  <1>4. ASSUME NEW q \in Requests, Replace(q) PROVE StraysInv'
    <2>1. CASE WriteFails(q) \/ RecordRaises(q)
      BY <2>1, WriteFailsLosesOne, RecordRaisesLosesOne
    <2>2. CASE \/ WriteFile(q) \/ CreateRecord(q) \/ PointAtFile(q) \/ PointFails(q) \/ FailRecord(q)
               \/ CompleteRecord(q) \/ RemoveOld(q)
      <3>1. row'.state # "gone" => row.state # "gone" /\ Stray' \subseteq Stray
        BY <2>2, WriteFileLosesNoFile, CreateRecordLosesNoFile, PointAtFileLosesNoFile, PointFailsLosesNoFile,
           FailRecordLosesNoFile, CompleteRecordLosesNoFile, RemoveOldLosesNoFile
      <3>2. faults' \in Nat /\ faults' >= faults
        BY <2>2 DEF TypeOK, WriteFile, CreateRecord, PointAtFile, PointFails, FailRecord, CompleteRecord,
                    RemoveOld, counts
      <3> QED  BY <3>1, <3>2, NoMoreStrays
    <2> QED  BY <1>4, <2>1, <2>2 DEF Replace
  <1>5. ASSUME NEW q \in Requests, Reprofile(q) PROVE StraysInv'
    <2>1. row'.state # "gone" => row.state # "gone" /\ Stray' \subseteq Stray
      BY <1>5, LoadRowLosesNoFile, ReadFileLosesNoFile, SaveProfilesLosesNoFile, ReturnRowLosesNoFile,
         ReprofileRaisesLosesNoFile DEF Reprofile
    <2>2. faults' \in Nat /\ faults' >= faults
      BY <1>5 DEF TypeOK, Reprofile, LoadRow, ReadFile, SaveProfiles, ReturnRow, ReprofileRaises, counts
    <2> QED  BY <2>1, <2>2, NoMoreStrays
  <1>6. ASSUME NEW q \in Requests, WriteUpload(q) PROVE StraysInv'
    BY <1>6, WriteUploadLosesOne
  <1>7. ASSUME NEW q \in Requests, InsertRow(q) \/ DropRow(q) \/ Unlink(q) PROVE StraysInv'
    <2>1. row'.state # "gone" => row.state # "gone" /\ Stray' \subseteq Stray
      BY <1>7, InsertRowLosesNoFile, DropRowLosesNoFile, UnlinkLosesNoFile
    <2>2. faults' = faults
      BY <1>7 DEF InsertRow, DropRow, Unlink, counts
    <2> QED  BY <2>1, <2>2, NoMoreStrays DEF TypeOK
  <1> QED  BY <1>1, <1>2, <1>3, <1>4, <1>5, <1>6, <1>7 DEF Next

LEMMA UnknownIsStray == ASSUME FilesInv, StraysInv PROVE FilesAreAccountedFor
  <1> USE DEF FilesInv
  <1> SUFFICES ASSUME There PROVE Cardinality(Unknown) <= faults
    BY DEF FilesAreAccountedFor
  <1>1. ASSUME NEW n \in Unknown PROVE n \in Stray
    <2>1. n \in disk /\ n # row.path /\ n \notin Held /\ n \notin Found
      BY <1>1 DEF Unknown
    <2>2. ASSUME NEW q \in Requests, call[q].kind \in Loopers PROVE n \notin {call[q].old, call[q].new}
      <3>1. q \in Busy
        BY <2>2 DEF Busy, CallOK, Shape, Loopers
      <3> QED  BY <2>1, <3>1 DEF Held
    <2>3. ASSUME NEW m \in DOMAIN records, records[m].status # "success" PROVE n \notin {m, records[m].old}
      BY <2>1, <2>3 DEF Found
    <2> QED  BY <2>1, <2>2, <2>3 DEF Stray
  <1>2. IsFiniteSet(Stray) /\ Cardinality(Unknown) <= Cardinality(Stray)
    BY <1>1, StraysAreFinite, FS_Subset
  <1>3. IsFiniteSet(Unknown)
    BY <1>1, <1>2, FS_Subset
  <1>4. Cardinality(Stray) \in Nat /\ Cardinality(Unknown) \in Nat
    BY <1>2, <1>3, FS_CardinalityType
  <1> QED  BY <1>2, <1>4 DEF StraysInv, TypeOK

\* The replacement history tells the truth: no success was undone by an older
\* request, a pending record has its request or a fault, every file nobody names
\* was left by a fault of its own, and a deleted dataset has no history.
THEOREM HistoryTellsTheTruth == Spec => []HistoryIsTrue
  <1>1. Init => StraysInv
    <2> SUFFICES ASSUME Init PROVE StraysInv
      OBVIOUS
    <2>1. Stray = {}
      BY DEF Init, Stray
    <2> QED  BY <2>1, FS_EmptySet DEF Init, StraysInv
  <1>2. FilesInv /\ StraysInv => HistoryIsTrue
    BY UnknownIsStray DEF FilesInv, HistoryIsTrue
  <1> QED  BY <1>1, <1>2, FilesInvHolds, StepLosesLittle, PTL DEF Spec

-----------------------------------------------------------------------------
\* Requests one at a time: while one is served, no step is another's.
LEMMA TheOnlyOne ==
  ASSUME FilesInv, AloneInv, ~overlapped, NEW q \in Requests, call[q].pc # "idle"
  PROVE  \A p \in Requests : p # q => call[p] = Idle
  BY DEF FilesInv, AloneInv, Busy, CallOK, Shape

\* What AloneInv says of one request and of the row.
Abreast(q) ==
  There => /\ call[q].pc \in {"read", "save"} => call[q].read = row.path
           /\ call[q].pc \in {"return", "complete"} => row.profiled = row.path

LEMMA AloneStep ==
  ASSUME FilesInv, FilesInv', AloneInv, ~overlapped, NEW q \in Requests, call[q].pc # "idle",
         \A p \in Requests : p # q => call'[p] = call[p],
         Abreast(q)', ProfilesAreOfTheFile'
  PROVE  AloneInv'
  <1>1. ASSUME NEW p \in Requests, p # q PROVE call'[p] = Idle
    BY <1>1, TheOnlyOne
  <1>2. ASSUME NEW p \in Requests PROVE Abreast(p)'
    BY <1>1, <1>2 DEF Abreast
  <1>3. \A p, r \in Busy' : p = r
    BY <1>1 DEF Busy
  <1> QED  BY <1>2, <1>3 DEF AloneInv, Abreast

LEMMA ArriveAlone ==
  ASSUME FilesInv, FilesInv', AloneInv, ~overlapped', NEW q \in Requests, Arrive(q)
  PROVE  AloneInv'
  <1> USE DEF FilesInv
  <1>0. Arrive(q)
    OBVIOUS
  <1>1. /\ Busy = {} /\ ~overlapped /\ row' = row /\ records' = records
        /\ \A p \in Requests : p # q => call'[p] = call[p]
        /\ call'[q].read = row.path /\ call'[q].pc \in {"write", "read", "drop"}
    <2>1. PICK kind \in Kinds, pc \in {"write", "read", "drop"} : Serve(q, kind, pc)
      BY <1>0 DEF Arrive, AskUpload, AskReplace, AskReprofile, AskDelete
    <2>2. call'[q] = [Idle EXCEPT !.kind = kind, !.pc = pc, !.old = row.path, !.read = row.path]
      BY <2>1 DEF Serve, TypeOK
    <2>3. \A p \in Requests : p # q => call'[p] = call[p]
      BY <2>1 DEF Serve, TypeOK
    <2>4. Busy = {} /\ ~overlapped /\ row' = row /\ records' = records
      BY <2>1 DEF Serve
    <2> QED  BY <2>2, <2>3, <2>4
  <1>2. ASSUME NEW p \in Requests, p # q PROVE call'[p].pc = "idle"
    BY <1>1, <1>2 DEF Busy
  <1>3. \A p, r \in Busy' : p = r
    BY <1>2 DEF Busy
  <1>4. ProfilesAreOfTheFile'
    BY <1>1 DEF AloneInv, ProfilesAreOfTheFile
  <1>5. ASSUME NEW p \in Requests PROVE Abreast(p)'
    BY <1>1, <1>2, <1>5 DEF Abreast
  <1> QED  BY <1>3, <1>4, <1>5 DEF AloneInv, Abreast

LEMMA WriteUploadAlone ==
  ASSUME FilesInv, FilesInv', AloneInv, ~overlapped, NEW q \in Requests, WriteUpload(q)
  PROVE  AloneInv'
  <1> USE DEF FilesInv, WriteUpload, At, counts, Fresh, Goto
  <1>1. call[q].pc # "idle" /\ \A p \in Requests : p # q => call'[p] = call[p]
    BY DEF TypeOK
  <1>2. Abreast(q) /\ ProfilesAreOfTheFile
    BY DEF AloneInv, Abreast
  <1>3. Abreast(q)'
    BY <1>2 DEF Abreast, TypeOK, CallOK, Shape, UploadOK, ReplaceOK, OwnRecord
  <1>4. ProfilesAreOfTheFile'
    BY <1>2 DEF ProfilesAreOfTheFile, Abreast, TypeOK, CallOK, Shape, UploadOK, ReplaceOK, OwnRecord
  <1> QED  BY <1>1, <1>3, <1>4, AloneStep

LEMMA InsertRowAlone ==
  ASSUME FilesInv, FilesInv', AloneInv, ~overlapped, NEW q \in Requests, InsertRow(q)
  PROVE  AloneInv'
  <1> USE DEF FilesInv, InsertRow, At, counts, Over
  <1>1. call[q].pc # "idle" /\ \A p \in Requests : p # q => call'[p] = call[p]
    BY DEF TypeOK
  <1>2. Abreast(q) /\ ProfilesAreOfTheFile
    BY DEF AloneInv, Abreast
  <1>3. Abreast(q)'
    BY <1>2 DEF Abreast, TypeOK, CallOK, Shape, UploadOK, ReplaceOK, OwnRecord
  <1>4. ProfilesAreOfTheFile'
    <2>1. call[q].new # NoFile => call[q].new = made
      BY DEF CallOK, UploadOK
    <2>2. row'.path = call[q].new /\ row'.profiled = made
      OBVIOUS
    <2> QED  BY <2>1, <2>2 DEF ProfilesAreOfTheFile
  <1> QED  BY <1>1, <1>3, <1>4, AloneStep

LEMMA WriteFileAlone ==
  ASSUME FilesInv, FilesInv', AloneInv, ~overlapped, NEW q \in Requests, WriteFile(q)
  PROVE  AloneInv'
  <1> USE DEF FilesInv, WriteFile, At, counts, Fresh
  <1>1. call[q].pc # "idle" /\ \A p \in Requests : p # q => call'[p] = call[p]
    BY DEF TypeOK
  <1>2. Abreast(q) /\ ProfilesAreOfTheFile
    BY DEF AloneInv, Abreast
  <1>3. Abreast(q)'
    BY <1>2 DEF Abreast, TypeOK, CallOK, Shape, UploadOK, ReplaceOK, OwnRecord
  <1>4. ProfilesAreOfTheFile'
    BY <1>2 DEF ProfilesAreOfTheFile, Abreast, TypeOK, CallOK, Shape, UploadOK, ReplaceOK, OwnRecord
  <1> QED  BY <1>1, <1>3, <1>4, AloneStep

LEMMA WriteFailsAlone ==
  ASSUME FilesInv, FilesInv', AloneInv, ~overlapped, NEW q \in Requests, WriteFails(q)
  PROVE  AloneInv'
  <1> USE DEF FilesInv, WriteFails, At, counts, Fresh, Over
  <1>1. call[q].pc # "idle" /\ \A p \in Requests : p # q => call'[p] = call[p]
    BY DEF TypeOK
  <1>2. Abreast(q) /\ ProfilesAreOfTheFile
    BY DEF AloneInv, Abreast
  <1>3. Abreast(q)'
    BY <1>2 DEF Abreast, TypeOK, CallOK, Shape, UploadOK, ReplaceOK, OwnRecord
  <1>4. ProfilesAreOfTheFile'
    BY <1>2 DEF ProfilesAreOfTheFile, Abreast, TypeOK, CallOK, Shape, UploadOK, ReplaceOK, OwnRecord
  <1> QED  BY <1>1, <1>3, <1>4, AloneStep

LEMMA CreateRecordAlone ==
  ASSUME FilesInv, FilesInv', AloneInv, ~overlapped, NEW q \in Requests, CreateRecord(q)
  PROVE  AloneInv'
  <1> USE DEF FilesInv, CreateRecord, At, counts, Goto, Over
  <1>1. call[q].pc # "idle" /\ \A p \in Requests : p # q => call'[p] = call[p]
    BY DEF TypeOK
  <1>2. Abreast(q) /\ ProfilesAreOfTheFile
    BY DEF AloneInv, Abreast
  <1>3. Abreast(q)'
    BY <1>2 DEF Abreast, TypeOK, CallOK, Shape, UploadOK, ReplaceOK, OwnRecord
  <1>4. ProfilesAreOfTheFile'
    BY <1>2 DEF ProfilesAreOfTheFile, Abreast, TypeOK, CallOK, Shape, UploadOK, ReplaceOK, OwnRecord
  <1> QED  BY <1>1, <1>3, <1>4, AloneStep

LEMMA PointAtFileAlone ==
  ASSUME FilesInv, FilesInv', AloneInv, ~overlapped, NEW q \in Requests, PointAtFile(q)
  PROVE  AloneInv'
  <1> USE DEF FilesInv, PointAtFile, At, counts, Goto
  <1>1. call[q].pc # "idle" /\ \A p \in Requests : p # q => call'[p] = call[p]
    BY DEF TypeOK
  <1>2. Abreast(q) /\ ProfilesAreOfTheFile
    BY DEF AloneInv, Abreast
  <1>3. Abreast(q)'
    BY <1>2 DEF Abreast, TypeOK, CallOK, Shape, UploadOK, ReplaceOK, OwnRecord
  <1>4. ProfilesAreOfTheFile'
    <2>1. ReplaceOK(q) /\ call[q].pc = "point"
      BY DEF CallOK
    <2>2. There => OwnRecord(q, "pending") /\ row'.path = call[q].new
      BY <2>1 DEF ReplaceOK, TypeOK
    <2>3. row'.state = row.state /\ records' = records
      BY DEF TypeOK
    <2> QED  BY <2>2, <2>3 DEF ProfilesAreOfTheFile, OwnRecord
  <1> QED  BY <1>1, <1>3, <1>4, AloneStep

LEMMA PointFailsAlone ==
  ASSUME FilesInv, FilesInv', AloneInv, ~overlapped, NEW q \in Requests, PointFails(q)
  PROVE  AloneInv'
  <1> USE DEF FilesInv, PointFails, At, counts, Settle, Over
  <1>1. call[q].pc # "idle" /\ \A p \in Requests : p # q => call'[p] = call[p]
    BY DEF TypeOK
  <1>2. Abreast(q) /\ ProfilesAreOfTheFile
    BY DEF AloneInv, Abreast
  <1>3. Abreast(q)'
    BY <1>2 DEF Abreast, TypeOK, CallOK, Shape, UploadOK, ReplaceOK, OwnRecord
  <1>4. ProfilesAreOfTheFile'
    BY <1>2 DEF ProfilesAreOfTheFile, Abreast, TypeOK, CallOK, Shape, UploadOK, ReplaceOK, OwnRecord
  <1> QED  BY <1>1, <1>3, <1>4, AloneStep

LEMMA LoadRowAlone ==
  ASSUME FilesInv, FilesInv', AloneInv, ~overlapped, NEW q \in Requests, LoadRow(q)
  PROVE  AloneInv'
  <1> USE DEF FilesInv, LoadRow, At, counts, NoResult, Goto, Over
  <1>1. call[q].pc # "idle" /\ \A p \in Requests : p # q => call'[p] = call[p]
    BY DEF TypeOK
  <1>2. Abreast(q) /\ ProfilesAreOfTheFile
    BY DEF AloneInv, Abreast
  <1>3. Abreast(q)'
    BY <1>2 DEF Abreast, TypeOK, CallOK, Shape, UploadOK, ReplaceOK, OwnRecord
  <1>4. ProfilesAreOfTheFile'
    BY <1>2 DEF ProfilesAreOfTheFile, Abreast, TypeOK, CallOK, Shape, UploadOK, ReplaceOK, OwnRecord
  <1> QED  BY <1>1, <1>3, <1>4, AloneStep

LEMMA ReadFileAlone ==
  ASSUME FilesInv, FilesInv', AloneInv, ~overlapped, NEW q \in Requests, ReadFile(q)
  PROVE  AloneInv'
  <1> USE DEF FilesInv, ReadFile, At, counts, NoResult, Goto, Over
  <1>1. call[q].pc # "idle" /\ \A p \in Requests : p # q => call'[p] = call[p]
    BY DEF TypeOK
  <1>2. Abreast(q) /\ ProfilesAreOfTheFile
    BY DEF AloneInv, Abreast
  <1>3. Abreast(q)'
    BY <1>2 DEF Abreast, TypeOK, CallOK, Shape, UploadOK, ReplaceOK, OwnRecord
  <1>4. ProfilesAreOfTheFile'
    BY <1>2 DEF ProfilesAreOfTheFile, Abreast, TypeOK, CallOK, Shape, UploadOK, ReplaceOK, OwnRecord
  <1> QED  BY <1>1, <1>3, <1>4, AloneStep

LEMMA SaveProfilesAlone ==
  ASSUME FilesInv, FilesInv', AloneInv, ~overlapped, NEW q \in Requests, SaveProfiles(q)
  PROVE  AloneInv'
  <1> USE DEF FilesInv, SaveProfiles, At, counts, Goto
  <1>1. call[q].pc # "idle" /\ \A p \in Requests : p # q => call'[p] = call[p]
    BY DEF TypeOK
  <1>2. Abreast(q) /\ ProfilesAreOfTheFile
    BY DEF AloneInv, Abreast
  <1>3. Abreast(q)'
    BY <1>2 DEF Abreast, TypeOK, CallOK, Shape, UploadOK, ReplaceOK, OwnRecord
  <1>4. ProfilesAreOfTheFile'
    BY <1>2 DEF ProfilesAreOfTheFile, Abreast, TypeOK, CallOK, Shape, UploadOK, ReplaceOK, OwnRecord
  <1> QED  BY <1>1, <1>3, <1>4, AloneStep

LEMMA ReturnRowAlone ==
  ASSUME FilesInv, FilesInv', AloneInv, ~overlapped, NEW q \in Requests, ReturnRow(q)
  PROVE  AloneInv'
  <1> USE DEF FilesInv, ReturnRow, At, counts, NoResult, Goto, Over
  <1>1. call[q].pc # "idle" /\ \A p \in Requests : p # q => call'[p] = call[p]
    BY DEF TypeOK
  <1>2. Abreast(q) /\ ProfilesAreOfTheFile
    BY DEF AloneInv, Abreast
  <1>3. Abreast(q)'
    BY <1>2 DEF Abreast, TypeOK, CallOK, Shape, UploadOK, ReplaceOK, OwnRecord
  <1>4. ProfilesAreOfTheFile'
    BY <1>2 DEF ProfilesAreOfTheFile, Abreast, TypeOK, CallOK, Shape, UploadOK, ReplaceOK, OwnRecord
  <1> QED  BY <1>1, <1>3, <1>4, AloneStep

LEMMA ReprofileRaisesAlone ==
  ASSUME FilesInv, FilesInv', AloneInv, ~overlapped, NEW q \in Requests, ReprofileRaises(q)
  PROVE  AloneInv'
  <1> USE DEF FilesInv, ReprofileRaises, At, counts, NoResult, Goto, Over
  <1>1. call[q].pc # "idle" /\ \A p \in Requests : p # q => call'[p] = call[p]
    BY DEF TypeOK
  <1>2. Abreast(q) /\ ProfilesAreOfTheFile
    BY DEF AloneInv, Abreast
  <1>3. Abreast(q)'
    BY <1>2 DEF Abreast, TypeOK, CallOK, Shape, UploadOK, ReplaceOK, OwnRecord
  <1>4. ProfilesAreOfTheFile'
    BY <1>2 DEF ProfilesAreOfTheFile, Abreast, TypeOK, CallOK, Shape, UploadOK, ReplaceOK, OwnRecord
  <1> QED  BY <1>1, <1>3, <1>4, AloneStep

LEMMA FailRecordAlone ==
  ASSUME FilesInv, FilesInv', AloneInv, ~overlapped, NEW q \in Requests, FailRecord(q)
  PROVE  AloneInv'
  <1> USE DEF FilesInv, FailRecord, At, counts, Settle, Over
  <1>1. call[q].pc # "idle" /\ \A p \in Requests : p # q => call'[p] = call[p]
    BY DEF TypeOK
  <1>2. Abreast(q) /\ ProfilesAreOfTheFile
    BY DEF AloneInv, Abreast
  <1>3. Abreast(q)'
    BY <1>2 DEF Abreast, TypeOK, CallOK, Shape, UploadOK, ReplaceOK, OwnRecord
  <1>4. ProfilesAreOfTheFile'
    BY <1>2 DEF ProfilesAreOfTheFile, Abreast, TypeOK, CallOK, Shape, UploadOK, ReplaceOK, OwnRecord
  <1> QED  BY <1>1, <1>3, <1>4, AloneStep

LEMMA CompleteRecordAlone ==
  ASSUME FilesInv, FilesInv', AloneInv, ~overlapped, NEW q \in Requests, CompleteRecord(q)
  PROVE  AloneInv'
  <1> USE DEF FilesInv, CompleteRecord, At, counts, Settle, Goto
  <1>1. call[q].pc # "idle" /\ \A p \in Requests : p # q => call'[p] = call[p]
    BY DEF TypeOK
  <1>2. Abreast(q) /\ ProfilesAreOfTheFile
    BY DEF AloneInv, Abreast
  <1>3. Abreast(q)'
    BY <1>2 DEF Abreast, TypeOK, CallOK, Shape, UploadOK, ReplaceOK, OwnRecord
  <1>4. ProfilesAreOfTheFile'
    BY <1>2 DEF ProfilesAreOfTheFile, Abreast, TypeOK, CallOK, Shape, UploadOK, ReplaceOK, OwnRecord
  <1> QED  BY <1>1, <1>3, <1>4, AloneStep

LEMMA RemoveOldAlone ==
  ASSUME FilesInv, FilesInv', AloneInv, ~overlapped, NEW q \in Requests, RemoveOld(q)
  PROVE  AloneInv'
  <1> USE DEF FilesInv, RemoveOld, At, counts, Over
  <1>1. call[q].pc # "idle" /\ \A p \in Requests : p # q => call'[p] = call[p]
    BY DEF TypeOK
  <1>2. Abreast(q) /\ ProfilesAreOfTheFile
    BY DEF AloneInv, Abreast
  <1>3. Abreast(q)'
    BY <1>2 DEF Abreast, TypeOK, CallOK, Shape, UploadOK, ReplaceOK, OwnRecord
  <1>4. ProfilesAreOfTheFile'
    BY <1>2 DEF ProfilesAreOfTheFile, Abreast, TypeOK, CallOK, Shape, UploadOK, ReplaceOK, OwnRecord
  <1> QED  BY <1>1, <1>3, <1>4, AloneStep

LEMMA RecordRaisesAlone ==
  ASSUME FilesInv, FilesInv', AloneInv, ~overlapped, NEW q \in Requests, RecordRaises(q)
  PROVE  AloneInv'
  <1> USE DEF FilesInv, RecordRaises, At, counts, Over
  <1>1. call[q].pc # "idle" /\ \A p \in Requests : p # q => call'[p] = call[p]
    BY DEF TypeOK
  <1>2. Abreast(q) /\ ProfilesAreOfTheFile
    BY DEF AloneInv, Abreast
  <1>3. Abreast(q)'
    BY <1>2 DEF Abreast, TypeOK, CallOK, Shape, UploadOK, ReplaceOK, OwnRecord
  <1>4. ProfilesAreOfTheFile'
    BY <1>2 DEF ProfilesAreOfTheFile, Abreast, TypeOK, CallOK, Shape, UploadOK, ReplaceOK, OwnRecord
  <1> QED  BY <1>1, <1>3, <1>4, AloneStep

LEMMA DropRowAlone ==
  ASSUME FilesInv, FilesInv', AloneInv, ~overlapped, NEW q \in Requests, DropRow(q)
  PROVE  AloneInv'
  <1> USE DEF FilesInv, DropRow, At, counts, Goto, Over
  <1>1. call[q].pc # "idle" /\ \A p \in Requests : p # q => call'[p] = call[p]
    BY DEF TypeOK
  <1>2. Abreast(q) /\ ProfilesAreOfTheFile
    BY DEF AloneInv, Abreast
  <1>3. Abreast(q)'
    BY <1>2 DEF Abreast, TypeOK, CallOK, Shape, UploadOK, ReplaceOK, OwnRecord
  <1>4. ProfilesAreOfTheFile'
    BY <1>2 DEF ProfilesAreOfTheFile, Abreast, TypeOK, CallOK, Shape, UploadOK, ReplaceOK, OwnRecord
  <1> QED  BY <1>1, <1>3, <1>4, AloneStep

LEMMA UnlinkAlone ==
  ASSUME FilesInv, FilesInv', AloneInv, ~overlapped, NEW q \in Requests, Unlink(q)
  PROVE  AloneInv'
  <1> USE DEF FilesInv, Unlink, At, counts, Over
  <1>1. call[q].pc # "idle" /\ \A p \in Requests : p # q => call'[p] = call[p]
    BY DEF TypeOK
  <1>2. Abreast(q) /\ ProfilesAreOfTheFile
    BY DEF AloneInv, Abreast
  <1>3. Abreast(q)'
    BY <1>2 DEF Abreast, TypeOK, CallOK, Shape, UploadOK, ReplaceOK, OwnRecord
  <1>4. ProfilesAreOfTheFile'
    BY <1>2 DEF ProfilesAreOfTheFile, Abreast, TypeOK, CallOK, Shape, UploadOK, ReplaceOK, OwnRecord
  <1> QED  BY <1>1, <1>3, <1>4, AloneStep

LEMMA StopAlone ==
  ASSUME FilesInv, AloneInv, ~overlapped, Stop
  PROVE  AloneInv'
  BY DEF Stop, AloneInv, Busy, ProfilesAreOfTheFile

LEMMA StepAlone == FilesInv /\ AloneInv /\ [Next]_vars => AloneInv'
  <1> SUFFICES ASSUME FilesInv, AloneInv, [Next]_vars, ~overlapped' PROVE AloneInv'
    BY DEF AloneInv
  <1>0. FilesInv'
    BY StepIsSound
  <1>1. CASE UNCHANGED vars
    BY <1>1 DEF vars, AloneInv, Busy, ProfilesAreOfTheFile
  <1>2. CASE Stop
    BY <1>2, StopAlone DEF Stop
  <1>3. ASSUME NEW q \in Requests, Arrive(q) PROVE AloneInv'
    BY <1>0, <1>3, ArriveAlone
  <1>4. ASSUME NEW q \in Requests, Replace(q) PROVE AloneInv'
    <2>1. ~overlapped
      BY <1>4 DEF Replace, WriteFile, WriteFails, CreateRecord, PointAtFile, PointFails, FailRecord,
                  CompleteRecord, RemoveOld, RecordRaises, counts
    <2> QED
      BY <1>0, <1>4, <2>1, WriteFileAlone, WriteFailsAlone, CreateRecordAlone, PointAtFileAlone, PointFailsAlone,
         FailRecordAlone, CompleteRecordAlone, RemoveOldAlone, RecordRaisesAlone DEF Replace
  <1>5. ASSUME NEW q \in Requests, Reprofile(q) PROVE AloneInv'
    <2>1. ~overlapped
      BY <1>5 DEF Reprofile, LoadRow, ReadFile, SaveProfiles, ReturnRow, ReprofileRaises, counts
    <2> QED
      BY <1>0, <1>5, <2>1, LoadRowAlone, ReadFileAlone, SaveProfilesAlone, ReturnRowAlone, ReprofileRaisesAlone
         DEF Reprofile
  <1>6. ASSUME NEW q \in Requests, WriteUpload(q) \/ InsertRow(q) \/ DropRow(q) \/ Unlink(q) PROVE AloneInv'
    <2>1. ~overlapped
      BY <1>6 DEF WriteUpload, InsertRow, DropRow, Unlink, counts
    <2> QED  BY <1>0, <1>6, <2>1, WriteUploadAlone, InsertRowAlone, DropRowAlone, UnlinkAlone
  <1> QED  BY <1>1, <1>2, <1>3, <1>4, <1>5, <1>6 DEF Next

\* While requests come one at a time, the profiles in the row are those of the
\* file it names, or the replacement by that file is under way or failed.
THEOREM ProfilesFollowTheFile == Spec => []ProfilesAreOfTheFile
  <1>1. Init => AloneInv
    BY DEF Init, AloneInv, Busy, ProfilesAreOfTheFile
  <1>2. AloneInv => ProfilesAreOfTheFile
    BY DEF AloneInv, ProfilesAreOfTheFile
  <1> QED  BY <1>1, <1>2, FilesInvHolds, StepAlone, PTL DEF Spec
=============================================================================
