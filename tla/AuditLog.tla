------------------------------ MODULE AuditLog ------------------------------
(***************************************************************************)
(* The two records of the audit, the file audit.log and the table          *)
(* audit_logs (data/audit.py): log_audit_event appends to the file, then   *)
(* to the table; a user's deletion of his data and the purge of old        *)
(* entries delete rows, then read the file and replace it by what is left. *)
(***************************************************************************)
EXTENDS RequestThreads, FiniteSetsExt

CONSTANTS
  Clients,      \* user ids
  MaxLines      \* bound: entries that are written

VARIABLES
  file,         \* audit.log
  rows,         \* audit_logs
  exposed       \* history: entries that a removal overlapped

audit == <<file, rows, exposed>>

\* There is an old entry and a recent one of each user.
Entries0 == {[id |-> 0, user |-> u, old |-> o] : u \in Clients, o \in BOOLEAN}

AuditInit == file = Entries0 /\ rows = Entries0 /\ exposed = {}

Logging  == AtSteps({"log_row", "failed_row"})
Removing == AtSteps({"remove_read", "remove_write"})

\* The entries that are being written: in the file, and not in the table yet.
Pending == {job[w].entry : w \in Logging}

\* An entry goes, by its user or by its age.
Goes(e, what) == IF what = "old" THEN e.old ELSE e.user = what
Going(what)   == {e \in file \cup rows \cup Pending : Goes(e, what)}

NextId == Max({0} \cup {e.id : e \in file \cup rows \cup exposed \cup Pending}) + 1

-----------------------------------------------------------------------------
(* log_audit_event *)

\* The input handler (a tick's schedule, a route) has something to log for u.
LogEvent(w, u) ==
  /\ Begin(w, [pc |-> "log_file", who |-> u])
  /\ UNCHANGED audit

\* A line is appended; if that fails the table alone has the entry.
AppendLine(w, ok) ==
  LET e == [id |-> NextId, user |-> job[w].who, old |-> FALSE]
  IN /\ job[w].pc \in {"log_file", "failed_file"}
     /\ NextId < MaxLines
     /\ file' = IF ok THEN file \cup {e} ELSE file
     /\ exposed' = IF Removing # {} \/ ~ok THEN exposed \cup {e} ELSE exposed
     /\ job' = [job EXCEPT ![w] =
          [pc |-> IF @.pc = "log_file" THEN "log_row" ELSE "failed_row", entry |-> e]]
     /\ UNCHANGED rows

\* The row is inserted; if that fails the file alone has the entry.
InsertRow(w, ok) ==
  LET e == job[w].entry
  IN /\ w \in Logging
     /\ rows' = IF ok THEN rows \cup {e} ELSE rows
     /\ exposed' = IF ok THEN exposed ELSE exposed \cup {e}
     /\ IF At(w, "log_row") THEN End(w) ELSE Goto(w, "denied")
     /\ UNCHANGED file

(* DELETE /me/data, POST /admin/purge *)

Remove(w, what) ==
  /\ Begin(w, [pc |-> "remove_rows", what |-> what])
  /\ UNCHANGED audit

RemoveRows(w) ==
  LET what == job[w].what
  IN /\ At(w, "remove_rows")
     /\ rows' = {e \in rows : ~Goes(e, what)}
     /\ exposed' = exposed \cup Pending
          \cup IF Removing = {} THEN {}
               ELSE Going(what) \cup UNION {Going(job[v].what) : v \in Removing}
     /\ Goto(w, "remove_read")
     /\ UNCHANGED file

\* The rows cannot be deleted: the user is told, the purge goes on to the file.
RowsStay(w) ==
  LET what == job[w].what
  IN /\ At(w, "remove_rows")
     /\ exposed' = IF what = "old"
          THEN exposed \cup Going(what) \cup UNION {Going(job[v].what) : v \in Removing}
          ELSE exposed
     /\ IF what = "old" THEN Goto(w, "remove_read") ELSE End(w)
     /\ UNCHANGED <<file, rows>>

\* Mutant of RemoveRead: the comparison is the wrong way round.
RemoveReadOthers(w) ==
  LET what == job[w].what
  IN /\ At(w, "remove_read")
     /\ job' = [job EXCEPT ![w] = [pc |-> "remove_write", what |-> what,
                                   keep |-> {e \in file : Goes(e, what)}]]
     /\ UNCHANGED audit

RemoveRead(w) ==
  LET what == job[w].what
  IN /\ At(w, "remove_read")
     /\ job' = [job EXCEPT ![w] = [pc |-> "remove_write", what |-> what,
                                   keep |-> {e \in file : ~Goes(e, what)}]]
     /\ UNCHANGED audit

RemoveWrite(w) ==
  /\ At(w, "remove_write")
  /\ file' = job[w].keep
  /\ End(w)
  /\ UNCHANGED <<rows, exposed>>

\* The file cannot be read or replaced: it stays as it is, and the rows are gone.
RemoveFails(w) ==
  /\ w \in Removing
  /\ exposed' = exposed \cup Going(job[w].what)
  /\ End(w)
  /\ UNCHANGED <<file, rows>>

-----------------------------------------------------------------------------
AuditStep(w) ==
  \/ \E ok \in BOOLEAN : AppendLine(w, ok) \/ InsertRow(w, ok)
  \/ RemoveRows(w) \/ RowsStay(w) \/ RemoveRead(w) \/ RemoveWrite(w) \/ RemoveFails(w)

AuditRequest(w) ==
  \/ \E u \in Clients : LogEvent(w, u)
  \/ \E what \in Clients \cup {"old"} : Remove(w, what)

(***************************************************************************)
(* Lines with no user_id field and lines owned by other users are          *)
(* preserved, says delete_audit_log_entries.  With nothing under way, file *)
(* and table tell the same, except for entries that failed in one of them, *)
(* whose writing a removal overlapped, or that two removals at once were   *)
(* after.                                                                  *)
(***************************************************************************)
RecordsAgree ==
  Logging \cup Removing = {} => (file \ rows) \cup (rows \ file) \subseteq exposed
=============================================================================
