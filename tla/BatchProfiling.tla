--------------------------- MODULE BatchProfiling ---------------------------
(***************************************************************************)
(* The batch profiling of data/profiling_service.py: start makes a         *)
(* snapshot with a plan, the tables of the source by priority, and each    *)
(* continue profiles the next batch of them.  A continue reads the         *)
(* snapshot, saves the profiles of its batch, writes the snapshot and      *)
(* reads it again, each with a connection of its own: calls may overlap,   *)
(* raise between any two of these, and find the source deleted.            *)
(*                                                                         *)
(* A table is its position in the plan.  The client calls continue until   *)
(* it is told COMPLETE; other callers are duplicates of its calls.         *)
(***************************************************************************)
EXTENDS Integers, FiniteSets

CONSTANTS
  Callers,        \* threads that serve calls of continue
  Client,         \* the one that serves the client
  BatchSize,      \* batch_size
  MaxLive,        \* config.max_tables: tables that may be profiled with SQL
  MaxTables,      \* bound: tables of the plan
  MaxDuplicates,  \* bound: calls that are not the client's
  MaxFaults       \* bound: calls that raise

ASSUME BatchAssumption ==
  /\ Client \in Callers
  /\ BatchSize \in Nat \ {0} /\ MaxLive \in Nat
  /\ MaxTables \in Nat /\ MaxDuplicates \in Nat /\ MaxFaults \in Nat

VARIABLES
  tables,       \* sorted_fqns: how many there are
  stat,         \* the tables that are profiled with SQL
  row,          \* the row of profiling_snapshots
  saved,        \* the tables that have a row in profiling_table_profiles
  call,         \* what each caller is doing
  answer,       \* what each caller was told last
  dups, faults, \* calls that were not the client's, calls that raised
  alone         \* history: no two calls were under way at once

vars == <<tables, stat, row, saved, call, answer, dups, faults, alone>>
plan == <<tables, stat>>

Idle     == [pc |-> "idle", from |-> 0, read |-> 0]
NoAnswer == [status |-> "none", next |-> 0, done |-> 0, stat |-> 0, struct |-> 0]

There  == row.status \in {"RUNNING", "COMPLETE"}
To(i)  == IF i + BatchSize < tables THEN i + BatchSize ELSE tables
Batch(i) == i + 1 .. To(i)
Busy   == {c \in Callers : call[c].pc # "idle"}

-----------------------------------------------------------------------------
Init ==
  /\ tables = 0 /\ stat = {}
  /\ row = [status |-> "none", next |-> 0, done |-> 0]
  /\ saved = {}
  /\ call = [c \in Callers |-> Idle]
  /\ answer = [c \in Callers |-> NoAnswer]
  /\ dups = 0 /\ faults = 0 /\ alone = TRUE

\* start_batch_profiling: of the first tables of the plan, those that are not
\* too wide or too long are profiled with SQL.
Start ==
  /\ row.status = "none"
  /\ \E n \in 0 .. MaxTables : tables' = n
  /\ \E S \in SUBSET (1 .. tables') : S \subseteq 1 .. MaxLive /\ stat' = S
  /\ row' = [status |-> "RUNNING", next |-> 0, done |-> 0]
  /\ UNCHANGED <<saved, call, answer, dups, faults, alone>>

\* ON DELETE CASCADE takes the snapshot and its profiles along.
DeleteSource ==
  /\ There
  /\ row' = [row EXCEPT !.status = "gone"]
  /\ saved' = {}
  /\ UNCHANGED <<plan, call, answer, dups, faults, alone>>

\* The call is over.
Done(c) == call' = [call EXCEPT ![c] = Idle]

\* The client calls until it was told COMPLETE.
Calls(c) ==
  /\ call[c].pc = "idle" /\ There
  /\ IF c = Client
       THEN answer[c].status # "COMPLETE" /\ UNCHANGED dups
       ELSE dups < MaxDuplicates /\ dups' = dups + 1
  /\ alone' = (alone /\ Busy = {})

\* Nothing is left to do: the state of the row, without the depths.
AnswerRow(c) ==
  /\ Calls(c)
  /\ row.status = "COMPLETE" \/ Batch(row.next) = {}
  /\ answer' = [answer EXCEPT ![c] = [status |-> row.status, next |-> row.next,
                                      done |-> row.done, stat |-> 0, struct |-> 0]]
  /\ UNCHANGED <<plan, row, saved, call, faults>>

Load(c) ==
  /\ Calls(c)
  /\ row.status # "COMPLETE" /\ Batch(row.next) # {}
  /\ call' = [call EXCEPT ![c] = [pc |-> "save", from |-> row.next, read |-> 0]]
  /\ UNCHANGED <<plan, row, saved, answer, faults>>

\* Mutant of Save: no foreign key.
SaveOrphans(c) ==
  /\ call[c].pc = "save"
  /\ saved' = saved \cup Batch(call[c].from)
  /\ call' = [call EXCEPT ![c].pc = "update"]
  /\ UNCHANGED <<plan, row, answer, dups, faults, alone>>

\* The batch is profiled; INSERT OR IGNORE, in one transaction.
Save(c) ==
  /\ call[c].pc = "save"
  /\ IF There
       THEN /\ saved' = saved \cup Batch(call[c].from)
            /\ call' = [call EXCEPT ![c].pc = "update"]
       ELSE Done(c) /\ UNCHANGED saved
  /\ UNCHANGED <<plan, row, answer, dups, faults, alone>>

\* Mutants of StatusAt: the comparison is off by one.
StatusAtEarly(next) == IF next + 1 >= tables THEN "COMPLETE" ELSE "RUNNING"
StatusAtNever(next) == IF next > tables THEN "COMPLETE" ELSE "RUNNING"

\* new_status
StatusAt(next) == IF next >= tables THEN "COMPLETE" ELSE "RUNNING"

\* The snapshot is written from what was loaded, the counts are added to.
Update(c) ==
  LET next == To(call[c].from)
  IN /\ call[c].pc = "update"
     /\ row' = IF There
                 THEN [status |-> StatusAt(next), next |-> next,
                       done |-> row.done + (next - call[c].from)]
                 ELSE row
     /\ call' = [call EXCEPT ![c].pc = "read"]
     /\ UNCHANGED <<plan, saved, answer, dups, faults, alone>>

\* The counts are read again; a row that is gone raises.
ReadBack(c) ==
  /\ call[c].pc = "read"
  /\ IF There THEN call' = [call EXCEPT ![c].pc = "count", ![c].read = row.done]
              ELSE Done(c)
  /\ UNCHANGED <<plan, row, saved, answer, dups, faults, alone>>

Answer(c, S) ==
  [status |-> StatusAt(To(call[c].from)), next |-> To(call[c].from),
   done |-> call[c].read, stat |-> Cardinality(S \cap stat),
   struct |-> Cardinality(S \ stat)]

\* Mutant of CountDepths: the depths of this batch only.
CountBatch(c) ==
  /\ call[c].pc = "count"
  /\ answer' = [answer EXCEPT ![c] = Answer(c, Batch(call[c].from))]
  /\ Done(c)
  /\ UNCHANGED <<plan, row, saved, dups, faults, alone>>

\* The depths are counted in the table, and the call is answered.
CountDepths(c) ==
  /\ call[c].pc = "count"
  /\ answer' = [answer EXCEPT ![c] = Answer(c, saved)]
  /\ Done(c)
  /\ UNCHANGED <<plan, row, saved, dups, faults, alone>>

\* A call raises, or the server stops, before the next step has effect.
Fail(c) ==
  /\ faults < MaxFaults /\ faults' = faults + 1
  /\ call[c].pc # "idle"
  /\ Done(c)
  /\ UNCHANGED <<plan, row, saved, answer, dups, alone>>

Step(c)     == Save(c) \/ Update(c) \/ ReadBack(c) \/ CountDepths(c)
Continue(c) == AnswerRow(c) \/ Load(c)

Next ==
  \/ Start \/ DeleteSource
  \/ \E c \in Callers : Continue(c) \/ Step(c) \/ Fail(c)

Spec == Init /\ [][Next]_vars

\* A call that is served goes on, and the client calls again.
FairSpec ==
  /\ Spec
  /\ WF_vars(Continue(Client))
  /\ \A c \in Callers : WF_vars(Step(c))

-----------------------------------------------------------------------------
Rows     == [status: {"none", "RUNNING", "COMPLETE", "gone"}, next: Nat, done: Nat]
CallsOf  == [pc: {"idle", "save", "update", "read", "count"}, from: Nat, read: Nat]
Answers  == [status: {"none", "RUNNING", "COMPLETE"}, next: Nat, done: Nat,
             stat: Nat, struct: Nat]

\* The types: neither the index nor a saved table goes beyond the plan.
TypeOK ==
  /\ tables \in 0 .. MaxTables /\ stat \subseteq 1 .. tables
  /\ row \in Rows /\ row.next <= tables
  /\ saved \subseteq 1 .. tables
  /\ call \in [Callers -> CallsOf]
  /\ answer \in [Callers -> Answers]
  /\ dups \in 0 .. MaxDuplicates /\ faults \in 0 .. MaxFaults /\ alone \in BOOLEAN

(***************************************************************************)
(* However calls overlap, repeat and fail, the snapshot never claims a     *)
(* table that has no profile: all before next_table_index have one, and a  *)
(* COMPLETE snapshot has them all.                                         *)
(***************************************************************************)
ProgressIsSaved ==
  There => /\ 1 .. row.next \subseteq saved
           /\ row.status = "COMPLETE" => saved = 1 .. tables

(***************************************************************************)
(* While no two calls overlap, tables_profiled counts each table once,     *)
(* also when a call fails between its two transactions and is repeated.    *)
(***************************************************************************)
CountsAgree == alone => row.done = row.next

(***************************************************************************)
(* While no two calls overlap, a batch is answered with totals that add    *)
(* up: as many tables as were reached, each of one depth.                  *)
(***************************************************************************)
AnswersAddUp ==
  alone =>
    \A c \in Callers :
      answer[c].stat + answer[c].struct > 0 =>
        /\ answer[c].stat + answer[c].struct = answer[c].done
        /\ answer[c].done = answer[c].next

(***************************************************************************)
(* A source that is deleted while its batches are profiled leaves no       *)
(* profiles behind.                                                        *)
(***************************************************************************)
NothingOutlivesTheSource == row.status = "gone" => saved = {}

(***************************************************************************)
(* The docstring: continue, called repeatedly, gets to COMPLETE, whatever  *)
(* duplicates and failures get in the way.  (Not when the plan is empty:   *)
(* it stays RUNNING.)                                                      *)
(***************************************************************************)
ClientFinishes ==
  (row.status = "RUNNING" /\ tables > 0)
    ~> (answer[Client].status = "COMPLETE" \/ row.status = "gone")

(***************************************************************************)
(* What the row says of the progress is true: never more than the profiles *)
(* there are, however calls overlap and fail, and, while they do not       *)
(* overlap, each table once.                                               *)
(***************************************************************************)
ProgressIsTrue == ProgressIsSaved /\ CountsAgree
=============================================================================
