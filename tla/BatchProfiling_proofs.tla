----------------------- MODULE BatchProfiling_proofs -----------------------
(***************************************************************************)
(* Theorems about BatchProfiling, for plans of any size, any batch size    *)
(* and any number of callers.                                              *)
(***************************************************************************)
EXTENDS BatchProfiling, FiniteSetTheorems, TLAPS

(***************************************************************************)
(* Why progress is saved: a call writes next_table_index only after it     *)
(* saved its batch, and it started where the index stood when everything   *)
(* before the index was saved.  Profiles are never taken back as long as   *)
(* the source is there, so a late write is as good as a timely one.        *)
(***************************************************************************)
Reached(c) == IF call[c].pc = "save" THEN call[c].from ELSE To(call[c].from)

CallsAreCovered ==
  \A c \in Callers :
    call[c].pc # "idle" =>
      /\ row.status # "none"
      /\ call[c].from <= tables
      /\ There => 1 .. Reached(c) \subseteq saved

RowIsCovered ==
  /\ There => 1 .. row.next \subseteq saved
  /\ row.status = "COMPLETE" => row.next = tables
  /\ ~There => saved = {}

Inv == TypeOK /\ CallsAreCovered /\ RowIsCovered

\* A batch ends within the plan, and not before it begins.
LEMMA Bounds ==
  ASSUME TypeOK, NEW i \in Nat, i <= tables
  PROVE  /\ tables \in Nat
         /\ To(i) \in Nat /\ i <= To(i) /\ To(i) <= tables
         /\ Batch(i) \subseteq 1 .. tables
         /\ 1 .. To(i) = (1 .. i) \cup Batch(i)
  <1>1. tables \in Nat /\ BatchSize \in Nat /\ BatchSize >= 1
    BY BatchAssumption DEF TypeOK
  <1>2. To(i) \in Nat /\ i <= To(i) /\ To(i) <= tables
    BY <1>1 DEF To
  <1> QED  BY <1>1, <1>2 DEF Batch

\* The number of tables of one depth is a number.
LEMMA Depths ==
  ASSUME TypeOK, NEW S \in SUBSET (1 .. tables)
  PROVE  /\ IsFiniteSet(S)
         /\ Cardinality(S \cap stat) \in Nat /\ Cardinality(S \ stat) \in Nat
         /\ Cardinality(S) = Cardinality(S \cap stat) + Cardinality(S \ stat)
  <1>1. tables \in Nat
    BY BatchAssumption DEF TypeOK
  <1>2. IsFiniteSet(S)
    <2>1. IsFiniteSet(1 .. tables)
      BY <1>1, FS_Interval
    <2> QED  BY <2>1, FS_Subset
  <1>3. IsFiniteSet(S \cap stat) /\ IsFiniteSet(S \ stat)
    BY <1>2, FS_Subset
  <1>4. Cardinality(S \cap stat) \in Nat /\ Cardinality(S \ stat) \in Nat
    BY <1>3, FS_CardinalityType
  <1>5. Cardinality((S \cap stat) \cup (S \ stat))
          = Cardinality(S \cap stat) + Cardinality(S \ stat)
            - Cardinality((S \cap stat) \cap (S \ stat))
    <2> DEFINE A == S \cap stat
               B == S \ stat
    <2>1. IsFiniteSet(A) /\ IsFiniteSet(B)
      BY <1>3
    <2> HIDE DEF A, B
    <2>2. Cardinality(A \cup B) = Cardinality(A) + Cardinality(B) - Cardinality(A \cap B)
      BY <2>1, FS_Union
    <2> QED  BY <2>2 DEF A, B
  <1>6. (S \cap stat) \cup (S \ stat) = S /\ (S \cap stat) \cap (S \ stat) = {}
    OBVIOUS
  <1>7. Cardinality((S \cap stat) \cap (S \ stat)) = 0
    BY <1>6, FS_EmptySet
  <1>8. Cardinality(S) = Cardinality(S \cap stat) + Cardinality(S \ stat) - 0
    BY <1>5, <1>6, <1>7
  <1> QED  BY <1>2, <1>4, <1>8

\* Nothing was profiled yet.
LEMMA InvInit == Init => Inv
  <1> SUFFICES ASSUME Init PROVE Inv
    OBVIOUS
  <1>1. TypeOK
    <2>1. Idle \in CallsOf /\ NoAnswer \in Answers
      BY DEF Idle, CallsOf, NoAnswer, Answers
    <2>2. row \in Rows /\ row.next <= tables
      BY DEF Init, Rows
    <2>3. tables \in 0 .. MaxTables /\ dups \in 0 .. MaxDuplicates /\ faults \in 0 .. MaxFaults
      BY BatchAssumption DEF Init
    <2> QED  BY <2>1, <2>2, <2>3 DEF Init, TypeOK
  <1>2. CallsAreCovered /\ RowIsCovered
    BY DEF Init, CallsAreCovered, RowIsCovered, Idle, There
  <1> QED  BY <1>1, <1>2 DEF Inv

\* A call that ends leaves nothing to cover.
LEMMA DoneStep ==
  ASSUME Inv, NEW c \in Callers, Done(c), UNCHANGED <<plan, row, saved>>
  PROVE  call' \in [Callers -> CallsOf] /\ CallsAreCovered' /\ RowIsCovered'
  <1>1. call' = [call EXCEPT ![c] = Idle] /\ tables' = tables /\ row' = row /\ saved' = saved
    BY DEF Done, plan
  <1>2. call' \in [Callers -> CallsOf]
    BY <1>1 DEF Inv, TypeOK, CallsOf, Idle
  <1>3. CallsAreCovered'
    BY <1>1 DEF Inv, TypeOK, CallsAreCovered, Idle, There, Reached, To
  <1> QED  BY <1>1, <1>2, <1>3 DEF Inv, RowIsCovered, There

\* The continue of a caller: it is answered from the row, or loads it.
LEMMA ContinueStep ==
  ASSUME Inv, NEW c \in Callers, Continue(c)
  PROVE  Inv'
  <1>1. /\ There /\ tables' = tables /\ stat' = stat /\ row' = row /\ saved' = saved
        /\ faults' = faults
    BY DEF Continue, AnswerRow, Load, Calls, plan
  <1>2. dups' \in 0 .. MaxDuplicates /\ alone' \in BOOLEAN
    <2>1. alone' = (alone /\ Busy = {})
      BY DEF Continue, AnswerRow, Load, Calls
    <2>2. dups' = dups \/ (dups < MaxDuplicates /\ dups' = dups + 1)
      BY DEF Continue, AnswerRow, Load, Calls
    <2> QED  BY <2>1, <2>2, BatchAssumption DEF Inv, TypeOK
  <1>3. CASE AnswerRow(c)
    <2>1. answer' \in [Callers -> Answers] /\ call' = call
      <3> DEFINE a == [status |-> row.status, next |-> row.next, done |-> row.done,
                       stat |-> 0, struct |-> 0]
      <3>1. a \in Answers
        BY <1>1 DEF Inv, TypeOK, Rows, Answers, There
      <3>2. answer' = [answer EXCEPT ![c] = a] /\ call' = call
        BY <1>3 DEF AnswerRow
      <3> HIDE DEF a
      <3> QED  BY <3>1, <3>2 DEF Inv, TypeOK
    <2> QED
      BY <1>1, <1>2, <2>1
         DEF Inv, TypeOK, CallsAreCovered, RowIsCovered, There, Reached, To
  <1>4. CASE Load(c)
    <2> DEFINE k == [pc |-> "save", from |-> row.next, read |-> 0]
    <2>1. call' = [call EXCEPT ![c] = k] /\ answer' = answer
      BY <1>4 DEF Load
    <2>2. k \in CallsOf
      BY DEF Inv, TypeOK, Rows, CallsOf
    <2>3. call' \in [Callers -> CallsOf]
      BY <2>1, <2>2 DEF Inv, TypeOK
    <2>4. CallsAreCovered'
      BY <1>1, <2>1
         DEF Inv, TypeOK, CallsAreCovered, RowIsCovered, There, Reached, To
    <2> QED
      BY <1>1, <1>2, <2>1, <2>3, <2>4 DEF Inv, TypeOK, RowIsCovered, There
  <1> QED  BY <1>3, <1>4 DEF Continue

\* The batch is saved, or the call ends.
LEMMA SaveStep ==
  ASSUME Inv, NEW c \in Callers, Save(c)
  PROVE  Inv'
  <1>1. /\ call[c].pc = "save" /\ row' = row /\ tables' = tables /\ stat' = stat
        /\ UNCHANGED <<answer, dups, faults, alone>>
    BY DEF Save, plan
  <1>2. CASE There
    <2> DEFINE i == call[c].from
    <2>1. saved' = saved \cup Batch(i) /\ call' = [call EXCEPT ![c].pc = "update"]
      BY <1>2 DEF Save
    <2>2. i \in Nat /\ i <= tables /\ 1 .. i \subseteq saved
      BY <1>1, <1>2 DEF Inv, TypeOK, CallsOf, CallsAreCovered, Reached
    <2>3. /\ 1 .. To(i) = (1 .. i) \cup Batch(i) /\ Batch(i) \subseteq 1 .. tables
          /\ To(i) \in Nat
      BY <2>2, Bounds DEF Inv
    <2>4. call' \in [Callers -> CallsOf] /\ saved' \subseteq 1 .. tables
      BY <2>1, <2>3 DEF Inv, TypeOK, CallsOf
    <2>5. CallsAreCovered'
      <3> SUFFICES ASSUME NEW d \in Callers, call'[d].pc # "idle"
                   PROVE  /\ row.status # "none" /\ call'[d].from <= tables
                          /\ There => 1 .. Reached(d)' \subseteq saved'
        BY <1>1 DEF CallsAreCovered, There
      <3>1. CASE d = c
        <4>1. call'[d].pc = "update" /\ call'[d].from = i
          BY <2>1, <3>1 DEF Inv, TypeOK, CallsOf
        <4>2. Reached(d)' = To(i)
          BY <1>1, <4>1 DEF Reached, To
        <4> QED  BY <1>1, <1>2, <2>1, <2>2, <2>3, <4>1, <4>2 DEF Inv, There
      <3>2. CASE d # c
        <4>1. call'[d] = call[d]
          BY <2>1, <3>2 DEF Inv, TypeOK
        <4>2. Reached(d)' = Reached(d)
          BY <1>1, <4>1 DEF Reached, To
        <4> QED  BY <2>1, <4>1, <4>2 DEF Inv, CallsAreCovered
      <3> QED  BY <3>1, <3>2
    <2>6. RowIsCovered'
      BY <1>1, <1>2, <2>1 DEF Inv, RowIsCovered, There
    <2> QED  BY <1>1, <2>4, <2>5, <2>6 DEF Inv, TypeOK
  <1>3. CASE ~There
    <2>1. Done(c) /\ saved' = saved
      BY <1>3 DEF Save
    <2>2. call' \in [Callers -> CallsOf] /\ CallsAreCovered' /\ RowIsCovered'
      BY <1>1, <2>1, DoneStep DEF plan
    <2> QED  BY <1>1, <2>1, <2>2 DEF Inv, TypeOK
  <1> QED  BY <1>2, <1>3

\* The snapshot is written.
LEMMA UpdateStep ==
  ASSUME Inv, NEW c \in Callers, Update(c)
  PROVE  Inv'
  <1> DEFINE i == call[c].from
             r == [status |-> StatusAt(To(i)), next |-> To(i),
                   done |-> row.done + (To(i) - i)]
  <1>1. /\ call[c].pc = "update" /\ tables' = tables /\ stat' = stat /\ saved' = saved
        /\ call' = [call EXCEPT ![c].pc = "read"]
        /\ row' = IF There THEN r ELSE row
        /\ UNCHANGED <<answer, dups, faults, alone>>
    BY DEF Update, plan
  <1>2. i \in Nat /\ i <= tables /\ (There => 1 .. To(i) \subseteq saved)
    BY <1>1 DEF Inv, TypeOK, CallsOf, CallsAreCovered, Reached
  <1>3. tables \in Nat /\ To(i) \in Nat /\ i <= To(i) /\ To(i) <= tables
    BY <1>2, Bounds DEF Inv
  <1>4. r \in Rows /\ r.next <= tables
        /\ (r.status = "COMPLETE" => r.next = tables)
        /\ r.status \in {"RUNNING", "COMPLETE"}
    <2>1. row.done \in Nat
      BY DEF Inv, TypeOK, Rows
    <2>2. row.done + (To(i) - i) \in Nat
      BY <1>2, <1>3, <2>1
    <2> QED  BY <1>3, <2>2 DEF Rows, StatusAt
  <1>5. r.next = To(i)
    OBVIOUS
  <1> HIDE DEF r
  <1>6. call' \in [Callers -> CallsOf]
    BY <1>1 DEF Inv, TypeOK, CallsOf
  <1>7. row' \in Rows /\ row'.next <= tables /\ row'.status # "none"
        /\ (There' <=> There)
    <2>1. row.status # "none" /\ row \in Rows /\ row.next <= tables
      BY <1>1 DEF Inv, TypeOK, CallsAreCovered
    <2> QED  BY <1>1, <1>4, <2>1 DEF There
  <1>8. CallsAreCovered'
    <2> SUFFICES ASSUME NEW d \in Callers, call'[d].pc # "idle"
                 PROVE  /\ call'[d].from <= tables
                        /\ There => 1 .. Reached(d)' \subseteq saved
      BY <1>1, <1>7 DEF CallsAreCovered
    <2>1. CASE d = c
      <3>1. call'[d].pc = "read" /\ call'[d].from = i
        BY <1>1, <2>1 DEF Inv, TypeOK, CallsOf
      <3>2. Reached(d)' = To(i)
        BY <1>1, <3>1 DEF Reached, To
      <3> QED  BY <1>2, <3>1, <3>2
    <2>2. CASE d # c
      <3>1. call'[d] = call[d]
        BY <1>1, <2>2 DEF Inv, TypeOK
      <3>2. Reached(d)' = Reached(d)
        BY <1>1, <3>1 DEF Reached, To
      <3> QED  BY <3>1, <3>2 DEF Inv, CallsAreCovered
    <2> QED  BY <2>1, <2>2
  <1>9. RowIsCovered'
    <2>1. CASE There
      BY <1>1, <1>2, <1>4, <1>5, <1>7, <2>1 DEF RowIsCovered
    <2>2. CASE ~There
      BY <1>1, <1>7, <2>2 DEF Inv, RowIsCovered
    <2> QED  BY <2>1, <2>2
  <1> QED  BY <1>1, <1>6, <1>7, <1>8, <1>9 DEF Inv, TypeOK

\* The snapshot is made: nothing is under way and nothing is saved.
LEMMA StartStep == Inv /\ Start => Inv'
  <1> SUFFICES ASSUME Inv, Start PROVE Inv'
    OBVIOUS
  <1>1. PICK n \in 0 .. MaxTables : tables' = n
    BY DEF Start
  <1>2. /\ row.status = "none" /\ stat' \subseteq 1 .. tables'
        /\ row' = [status |-> "RUNNING", next |-> 0, done |-> 0]
        /\ UNCHANGED <<saved, call, answer, dups, faults, alone>>
    BY DEF Start
  <1>3. saved = {} /\ \A c \in Callers : call[c].pc = "idle"
    BY <1>2 DEF Inv, RowIsCovered, CallsAreCovered, There
  <1>4. row' \in Rows /\ row'.next <= tables'
    BY <1>1, <1>2, BatchAssumption DEF Rows
  <1>5. CallsAreCovered'
    BY <1>2, <1>3 DEF CallsAreCovered
  <1>6. RowIsCovered'
    BY <1>2 DEF RowIsCovered, There
  <1> QED  BY <1>1, <1>2, <1>3, <1>4, <1>5, <1>6 DEF Inv, TypeOK

\* The source is deleted: nothing is claimed any more.
LEMMA DeleteStep == Inv /\ DeleteSource => Inv'
  <1> SUFFICES ASSUME Inv, DeleteSource PROVE Inv'
    OBVIOUS
  <1>1. /\ row' = [row EXCEPT !.status = "gone"] /\ saved' = {}
        /\ tables' = tables /\ stat' = stat
        /\ UNCHANGED <<call, answer, dups, faults, alone>>
    BY DEF DeleteSource, plan
  <1>2. row' \in Rows /\ row'.status = "gone" /\ row'.next = row.next
    BY <1>1 DEF Inv, TypeOK, Rows
  <1>3. CallsAreCovered' /\ RowIsCovered'
    BY <1>1, <1>2 DEF Inv, CallsAreCovered, RowIsCovered, There
  <1> QED  BY <1>1, <1>2, <1>3 DEF Inv, TypeOK

\* The counts are read again, or the call ends.
LEMMA ReadBackStep ==
  ASSUME Inv, NEW c \in Callers, ReadBack(c)
  PROVE  Inv'
  <1>1. /\ call[c].pc = "read" /\ UNCHANGED <<plan, row, saved, answer, dups, faults, alone>>
        /\ tables' = tables /\ stat' = stat
    BY DEF ReadBack, plan
  <1>2. call' \in [Callers -> CallsOf] /\ CallsAreCovered' /\ RowIsCovered'
    <2>1. CASE There
      <3>1. call' = [call EXCEPT ![c].pc = "count", ![c].read = row.done]
        BY <2>1 DEF ReadBack
      <3>2. call' \in [Callers -> CallsOf]
        BY <3>1 DEF Inv, TypeOK, CallsOf, Rows
      <3>3. \A d \in Callers :
              /\ call'[d].from = call[d].from
              /\ call'[d].pc = "idle" <=> call[d].pc = "idle"
              /\ call'[d].pc = "save" <=> call[d].pc = "save"
        BY <1>1, <3>1 DEF Inv, TypeOK, CallsOf
      <3>4. \A d \in Callers : Reached(d)' = Reached(d)
        BY <1>1, <3>3 DEF Reached, To
      <3> QED
        BY <1>1, <3>2, <3>3, <3>4 DEF Inv, CallsAreCovered, RowIsCovered, There
    <2>2. CASE ~There
      <3>1. Done(c)
        BY <2>2 DEF ReadBack
      <3> QED  BY <1>1, <3>1, DoneStep
    <2> QED  BY <2>1, <2>2
  <1> QED  BY <1>1, <1>2 DEF Inv, TypeOK

\* A call that was answered is over.
LEMMA CountDepthsStep ==
  ASSUME Inv, NEW c \in Callers, CountDepths(c)
  PROVE  Inv'
  <1>1. /\ call[c].pc = "count" /\ Done(c) /\ UNCHANGED <<plan, row, saved, dups, faults, alone>>
        /\ tables' = tables /\ stat' = stat
        /\ answer' = [answer EXCEPT ![c] = Answer(c, saved)]
    BY DEF CountDepths, plan
  <1>2. call' \in [Callers -> CallsOf] /\ CallsAreCovered' /\ RowIsCovered'
    BY <1>1, DoneStep
  <1>3. Answer(c, saved) \in Answers
    <2>1. Cardinality(saved \cap stat) \in Nat /\ Cardinality(saved \ stat) \in Nat
      BY Depths DEF Inv, TypeOK
    <2>2. call[c].from \in Nat /\ call[c].from <= tables /\ call[c].read \in Nat
      BY <1>1 DEF Inv, TypeOK, CallsOf, CallsAreCovered
    <2>3. To(call[c].from) \in Nat
      BY <2>2, Bounds DEF Inv
    <2>4. StatusAt(To(call[c].from)) \in {"none", "RUNNING", "COMPLETE"}
      BY DEF StatusAt
    <2> QED  BY <2>1, <2>2, <2>3, <2>4 DEF Answer, Answers
  <1>4. answer' \in [Callers -> Answers]
    BY <1>1, <1>3 DEF Inv, TypeOK
  <1> QED  BY <1>1, <1>2, <1>4 DEF Inv, TypeOK

\* A call that raises is over.
LEMMA FailStep ==
  ASSUME Inv, NEW c \in Callers, Fail(c)
  PROVE  Inv'
  <1>1. /\ Done(c) /\ UNCHANGED <<plan, row, saved, answer, dups, alone>>
        /\ tables' = tables /\ stat' = stat
        /\ faults < MaxFaults /\ faults' = faults + 1
    BY DEF Fail, plan
  <1>2. call' \in [Callers -> CallsOf] /\ CallsAreCovered' /\ RowIsCovered'
    BY <1>1, DoneStep
  <1>3. faults' \in 0 .. MaxFaults
    BY <1>1, BatchAssumption DEF Inv, TypeOK
  <1> QED  BY <1>1, <1>2, <1>3 DEF Inv, TypeOK

\* Every step keeps the invariant.
LEMMA InvStep == Inv /\ [Next]_vars => Inv'
  <1> SUFFICES ASSUME Inv, [Next]_vars PROVE Inv'
    OBVIOUS
  <1>1. CASE Start
    BY <1>1, StartStep
  <1>2. CASE DeleteSource
    BY <1>2, DeleteStep
  <1>3. ASSUME NEW c \in Callers, Continue(c) PROVE Inv'
    BY <1>3, ContinueStep
  <1>4. ASSUME NEW c \in Callers, Step(c) PROVE Inv'
    BY <1>4, SaveStep, UpdateStep, ReadBackStep, CountDepthsStep DEF Step
  <1>5. ASSUME NEW c \in Callers, Fail(c) PROVE Inv'
    BY <1>5, FailStep
  <1>6. CASE UNCHANGED vars
    BY <1>6 DEF vars, Inv, TypeOK, CallsAreCovered, RowIsCovered, There, Reached, To
  <1> QED  BY <1>1, <1>2, <1>3, <1>4, <1>5, <1>6 DEF Next

\* The invariant holds throughout.
LEMMA Invariance == Spec => []Inv
  BY InvInit, InvStep, PTL DEF Spec

(***************************************************************************)
(* Plan, snapshot, profiles, calls and answers have their types.           *)
(***************************************************************************)
THEOREM TypeCorrect == Spec => []TypeOK
  <1>1. Inv => TypeOK
    BY DEF Inv
  <1> QED  BY <1>1, Invariance, PTL

(***************************************************************************)
(* For any number of overlapping, repeated and failing calls: whatever the *)
(* snapshot of the batch profiling claims is in the table of profiles.     *)
(***************************************************************************)
THEOREM ProgressNeverOverstates == Spec => []ProgressIsSaved
  <1>1. Inv => ProgressIsSaved
    BY DEF Inv, TypeOK, RowIsCovered, ProgressIsSaved
  <1> QED  BY <1>1, Invariance, PTL

(***************************************************************************)
(* The deletion of a source takes the profiles along, also those that a    *)
(* call under way was about to save.                                       *)
(***************************************************************************)
THEOREM DeletionIsFinal == Spec => []NothingOutlivesTheSource
  <1>1. Inv => NothingOutlivesTheSource
    BY DEF Inv, RowIsCovered, There, NothingOutlivesTheSource
  <1> QED  BY <1>1, Invariance, PTL

(***************************************************************************)
(* Why the counts agree: a call that is alone started at the index, which  *)
(* nobody else moves before it adds its batch.  Without the condition the  *)
(* lemma fails: two calls that loaded the same index both add its batch.   *)
(***************************************************************************)
CountsAreOrderly ==
  alone =>
    /\ row.done = row.next
    /\ \A c, d \in Callers : call[c].pc # "idle" /\ call[d].pc # "idle" => c = d
    /\ \A c \in Callers : call[c].pc \in {"save", "update"} => call[c].from = row.next

\* The row is as it was, and a call goes on, within its batch, or ends.
LEMMA OrderlyStep ==
  ASSUME TypeOK, CountsAreOrderly, NEW c \in Callers, call[c].pc # "idle",
         row'.next = row.next, row'.done = row.done, alone' = alone, NEW k, k.pc = "idle" \/
           (call[c].pc = "save" /\ k.pc = "update" /\ k.from = call[c].from) \/
           k.pc \in {"read", "count"},
         call' = [call EXCEPT ![c] = k]
  PROVE  CountsAreOrderly'
  BY DEF TypeOK, CountsAreOrderly

\* Every step keeps the counts orderly.
LEMMA CountsStep == Inv /\ CountsAreOrderly /\ [Next]_vars => CountsAreOrderly'
  <1> SUFFICES ASSUME Inv, CountsAreOrderly, [Next]_vars PROVE CountsAreOrderly'
    OBVIOUS
  <1>1. CASE Start
    BY <1>1 DEF Start, Inv, CallsAreCovered, CountsAreOrderly
  <1>2. CASE DeleteSource
    <2>1. row'.next = row.next /\ row'.done = row.done /\ call' = call /\ alone' = alone
      BY <1>2 DEF DeleteSource, Inv, TypeOK, Rows
    <2> QED  BY <2>1 DEF CountsAreOrderly
  <1>3. ASSUME NEW c \in Callers, AnswerRow(c) PROVE CountsAreOrderly'
    BY <1>3 DEF AnswerRow, Calls, CountsAreOrderly
  <1>4. ASSUME NEW c \in Callers, Load(c) PROVE CountsAreOrderly'
    <2> SUFFICES ASSUME alone' PROVE CountsAreOrderly'
      BY DEF CountsAreOrderly
    <2>1. alone /\ \A d \in Callers : call[d].pc = "idle"
      BY <1>4 DEF Load, Calls, Busy, Idle
    <2>2. /\ row' = row
          /\ call' = [call EXCEPT ![c] = [pc |-> "save", from |-> row.next, read |-> 0]]
      BY <1>4 DEF Load
    <2>3. \A d \in Callers : IF d = c THEN call'[d].from = row.next
                                      ELSE call'[d].pc = "idle"
      BY <2>1, <2>2 DEF Inv, TypeOK
    <2> QED  BY <2>1, <2>2, <2>3 DEF CountsAreOrderly
  <1>5. ASSUME NEW c \in Callers, Save(c) PROVE CountsAreOrderly'
    <2> DEFINE k == IF There THEN [call[c] EXCEPT !.pc = "update"] ELSE Idle
    <2>1. call[c].pc = "save" /\ row' = row /\ alone' = alone /\ call' = [call EXCEPT ![c] = k]
      BY <1>5 DEF Save, Done, Inv, TypeOK
    <2>2. k.pc = "idle" \/ (k.pc = "update" /\ k.from = call[c].from)
      BY DEF Idle, Inv, TypeOK, CallsOf
    <2> HIDE DEF k
    <2> QED  BY <2>1, <2>2, OrderlyStep DEF Inv
  <1>6. ASSUME NEW c \in Callers, Update(c) PROVE CountsAreOrderly'
    <2> SUFFICES ASSUME alone' PROVE CountsAreOrderly'
      BY DEF CountsAreOrderly
    <2> DEFINE i == call[c].from
    <2>1. /\ call[c].pc = "update" /\ alone /\ call' = [call EXCEPT ![c].pc = "read"]
          /\ IF There THEN row'.next = To(i) /\ row'.done = row.done + (To(i) - i)
                      ELSE row' = row
      BY <1>6 DEF Update
    <2>2. i = row.next /\ row.done = row.next /\ \A d \in Callers : call[d].pc # "idle" => d = c
      BY <2>1 DEF CountsAreOrderly
    <2>3. i \in Nat /\ i <= tables
      BY <2>2 DEF Inv, TypeOK, Rows
    <2>4. To(i) \in Nat
      BY <2>3, Bounds DEF Inv
    <2>5. row'.done = row'.next
      BY <2>1, <2>2, <2>3, <2>4
    <2>6. \A d \in Callers : call'[d].pc \in {"read", "idle"} /\ (call'[d].pc # "idle" => d = c)
      BY <2>1, <2>2 DEF Inv, TypeOK, CallsOf
    <2> QED  BY <2>5, <2>6 DEF CountsAreOrderly
  <1>7. ASSUME NEW c \in Callers, ReadBack(c) PROVE CountsAreOrderly'
    <2> DEFINE k == IF There THEN [call[c] EXCEPT !.pc = "count", !.read = row.done] ELSE Idle
    <2>1. call[c].pc = "read" /\ row' = row /\ alone' = alone /\ call' = [call EXCEPT ![c] = k]
      BY <1>7 DEF ReadBack, Done, Inv, TypeOK
    <2>2. k.pc = "idle" \/ k.pc = "count"
      BY DEF Idle, Inv, TypeOK, CallsOf
    <2> HIDE DEF k
    <2> QED  BY <2>1, <2>2, OrderlyStep DEF Inv
  <1>8. ASSUME NEW c \in Callers, CountDepths(c) \/ Fail(c) PROVE CountsAreOrderly'
    <2>1. /\ call[c].pc # "idle" /\ row' = row /\ alone' = alone
          /\ call' = [call EXCEPT ![c] = Idle] /\ Idle.pc = "idle"
      <3>1. CASE CountDepths(c)
        BY <3>1 DEF CountDepths, Done, Idle
      <3>2. CASE Fail(c)
        BY <3>2 DEF Fail, Done, Idle
      <3> QED  BY <1>8, <3>1, <3>2
    <2> QED  BY <2>1, OrderlyStep DEF Inv
  <1>9. CASE UNCHANGED vars
    BY <1>9 DEF vars, CountsAreOrderly
  <1> QED
    BY <1>1, <1>2, <1>3, <1>4, <1>5, <1>6, <1>7, <1>8, <1>9 DEF Next, Continue, Step

(***************************************************************************)
(* For plans of any size and batches of any size, as long as no two calls  *)
(* overlap, tables_profiled counts each table once, also when calls fail   *)
(* between their transactions and are repeated.                            *)
(***************************************************************************)
THEOREM EachTableCountedOnce == Spec => []CountsAgree
  <1>1. Init => CountsAreOrderly
    BY DEF Init, CountsAreOrderly, Idle
  <1>2. CountsAreOrderly => CountsAgree
    BY DEF CountsAreOrderly, CountsAgree
  <1> QED  BY <1>1, <1>2, CountsStep, Invariance, PTL DEF Spec

\* Both together, for any number of calls, tables and batch sizes.
THEOREM ProgressIsReportedTruly == Spec => []ProgressIsTrue
  BY ProgressNeverOverstates, EachTableCountedOnce, PTL DEF ProgressIsTrue

(***************************************************************************)
(* Why answers add up: what a call that is alone finds saved after its     *)
(* update is what it and those before it saved.  Before the update a call  *)
(* that failed may have left its batch behind, which is the same batch.    *)
(***************************************************************************)
SavedInOrder ==
  alone =>
    /\ saved \subseteq 1 .. To(row.next)
    /\ \A c \in Callers :
         call[c].pc \in {"read", "count"} /\ There =>
           /\ row.next = To(call[c].from) /\ saved \subseteq 1 .. row.next
           /\ call[c].pc = "count" => call[c].read = row.next

TotalsInv == Inv /\ CountsAreOrderly /\ SavedInOrder /\ AnswersAddUp

\* One call goes on to where nothing is known of it, or ends, and saves nothing.
LEMMA TotalsRest ==
  ASSUME TotalsInv, NEW c \in Callers, NEW k, k.pc \notin {"read", "count"},
         call' = [call EXCEPT ![c] = k], alone' => alone,
         UNCHANGED <<tables, row, saved>>
  PROVE  SavedInOrder'
  BY DEF TotalsInv, Inv, TypeOK, SavedInOrder, To, There

LEMMA TotalsStep == TotalsInv /\ [Next]_vars => TotalsInv'
  <1> SUFFICES ASSUME TotalsInv, [Next]_vars PROVE TotalsInv'
    OBVIOUS
  <1>0. /\ TypeOK /\ RowIsCovered /\ CountsAreOrderly /\ AnswersAddUp
        /\ row.next \in Nat /\ row.next <= tables /\ tables \in Nat
    BY BatchAssumption DEF TotalsInv, Inv, TypeOK, Rows
  <1>1. Inv' /\ CountsAreOrderly'
    BY InvStep, CountsStep DEF TotalsInv
  <1>2. ASSUME SavedInOrder', answer' = answer, alone' => alone PROVE TotalsInv'
    BY <1>0, <1>1, <1>2 DEF TotalsInv, AnswersAddUp
  <1>3. CASE Start
    <2>1. saved = {} /\ \A c \in Callers : call[c].pc = "idle"
      BY <1>3 DEF Start, TotalsInv, Inv, RowIsCovered, CallsAreCovered, There
    <2>2. SavedInOrder'
      BY <1>3, <2>1 DEF Start, SavedInOrder
    <2> QED  BY <1>2, <1>3, <2>2 DEF Start
  <1>4. CASE DeleteSource
    <2>1. saved' = {} /\ row'.status = "gone"
      BY <1>0, <1>4 DEF DeleteSource, TypeOK, Rows
    <2>2. SavedInOrder'
      BY <2>1 DEF SavedInOrder, There
    <2> QED  BY <1>2, <1>4, <2>2 DEF DeleteSource
  <1>5. ASSUME NEW c \in Callers, AnswerRow(c) PROVE TotalsInv'
    <2>1. SavedInOrder'
      BY <1>5 DEF AnswerRow, Calls, TotalsInv, SavedInOrder, There, To, plan
    <2>2. AnswersAddUp'
      BY <1>0, <1>5 DEF AnswerRow, Calls, AnswersAddUp, TypeOK
    <2> QED  BY <1>1, <2>1, <2>2 DEF TotalsInv
  <1>6. ASSUME NEW c \in Callers, Load(c) PROVE TotalsInv'
    <2>1. SavedInOrder'
      BY <1>6, TotalsRest DEF Load, Calls, plan
    <2> QED  BY <1>2, <1>6, <2>1 DEF Load, Calls
  <1>7. ASSUME NEW c \in Callers, Save(c) PROVE TotalsInv'
    <2>1. CASE ~There
      <3>1. SavedInOrder'
        BY <1>7, <2>1, TotalsRest DEF Save, Done, Idle, plan
      <3> QED  BY <1>2, <1>7, <3>1 DEF Save
    <2>2. CASE There
      <3> SUFFICES ASSUME alone PROVE SavedInOrder'
        BY <1>2, <1>7 DEF Save, SavedInOrder
      <3>1. /\ call[c].pc = "save" /\ call[c].from = row.next
            /\ \A d \in Callers : call[d].pc # "idle" => d = c
        BY <1>0, <1>7 DEF Save, CountsAreOrderly
      <3>2. saved' \subseteq 1 .. To(row.next)
        BY <1>0, <1>7, <2>2, <3>1, Bounds DEF Save, TotalsInv, SavedInOrder
      <3>3. \A d \in Callers : call'[d].pc \notin {"read", "count"}
        BY <1>0, <1>7, <2>2, <3>1 DEF Save, TypeOK, CallsOf
      <3>4. To(row.next)' = To(row.next)
        BY <1>7 DEF Save, To, plan
      <3> QED  BY <3>2, <3>3, <3>4 DEF SavedInOrder
    <2> QED  BY <2>1, <2>2
  <1>8. ASSUME NEW c \in Callers, Update(c) PROVE TotalsInv'
    <2> SUFFICES ASSUME alone PROVE SavedInOrder'
      BY <1>2, <1>8 DEF Update, SavedInOrder
    <2> DEFINE i == call[c].from
    <2>1. /\ call[c].pc = "update" /\ i = row.next
          /\ \A d \in Callers : call[d].pc # "idle" => d = c
      BY <1>0, <1>8 DEF Update, CountsAreOrderly
    <2>2. /\ To(i) \in Nat /\ To(i) <= tables /\ saved \subseteq 1 .. To(i) /\ saved' = saved
      BY <1>0, <1>8, <2>1, Bounds DEF Update, TotalsInv, SavedInOrder
    <2>3. To(i)' = To(i) /\ call'[c].pc = "read" /\ call'[c].from = i
          /\ \A d \in Callers : d # c => call'[d].pc = "idle"
      BY <1>0, <1>8, <2>1 DEF Update, TypeOK, CallsOf, To, plan
    <2>4. CASE There
      <3>1. row'.next = To(i)
        BY <1>8, <2>4 DEF Update
      <3>2. To(row.next)' \in Nat /\ To(i) <= To(row.next)'
        <4>1. tables' = tables /\ To(row.next)' = To(To(i))
          BY <1>8, <3>1 DEF Update, To, plan
        <4> QED  BY <1>0, <2>2, <4>1, Bounds
      <3>3. saved' \subseteq 1 .. To(row.next)'
        BY <2>2, <3>2
      <3>4. To(call[c].from)' = To(i)
        BY <1>8, <2>3 DEF Update, To, plan
      <3> QED  BY <2>2, <2>3, <3>1, <3>3, <3>4 DEF SavedInOrder
    <2>5. CASE ~There
      <3>1. row' = row /\ ~There' /\ saved' = {}
        BY <1>0, <1>8, <2>2, <2>5 DEF Update, RowIsCovered, There
      <3> QED  BY <3>1 DEF SavedInOrder
    <2> QED  BY <2>4, <2>5
  <1>9. ASSUME NEW c \in Callers, ReadBack(c) PROVE TotalsInv'
    <2>1. CASE ~There
      <3>1. SavedInOrder'
        BY <1>9, <2>1, TotalsRest DEF ReadBack, Done, Idle, plan
      <3> QED  BY <1>2, <1>9, <3>1 DEF ReadBack
    <2>2. CASE There
      <3> SUFFICES ASSUME alone PROVE SavedInOrder'
        BY <1>2, <1>9 DEF ReadBack, SavedInOrder
      <3>1. /\ row.done = row.next /\ call[c].pc = "read"
            /\ \A d \in Callers : call[d].pc # "idle" => d = c
        BY <1>0, <1>9 DEF ReadBack, CountsAreOrderly
      <3>2. /\ call'[c].from = call[c].from /\ call'[c].read = row.next
            /\ \A d \in Callers : d # c => call'[d].pc = "idle"
        BY <1>0, <1>9, <2>2, <3>1 DEF ReadBack, TypeOK, CallsOf
      <3>3. row.next = To(call[c].from) /\ saved \subseteq 1 .. row.next
            /\ saved \subseteq 1 .. To(row.next)
        BY <2>2, <3>1 DEF TotalsInv, SavedInOrder
      <3>4. row' = row /\ saved' = saved /\ tables' = tables
        BY <1>9 DEF ReadBack, plan
      <3> QED  BY <3>2, <3>3, <3>4 DEF SavedInOrder, To
    <2> QED  BY <2>1, <2>2
  <1>10. ASSUME NEW c \in Callers, CountDepths(c) PROVE TotalsInv'
    <2>1. SavedInOrder'
      BY <1>10, TotalsRest DEF CountDepths, Done, Idle, plan
    <2> DEFINE i == call[c].from
               a == Answer(c, saved)
    <2>2. ASSUME alone, a.stat + a.struct > 0
          PROVE  a.stat + a.struct = a.done /\ a.done = a.next
      <3>1. Cardinality(saved) = a.stat + a.struct
        BY <1>0, Depths DEF Answer, TypeOK
      <3>2. saved # {}
        BY <2>2, <3>1, FS_EmptySet
      <3>3. There
        BY <1>0, <3>2 DEF RowIsCovered
      <3>4. /\ row.next = To(i) /\ saved \subseteq 1 .. row.next /\ call[c].read = row.next
        BY <1>10, <2>2, <3>3 DEF CountDepths, TotalsInv, SavedInOrder
      <3>5. saved = 1 .. row.next
        BY <1>0, <3>3, <3>4 DEF RowIsCovered
      <3>6. Cardinality(saved) = row.next
        BY <1>0, <3>5, FS_Interval
      <3> QED  BY <3>1, <3>4, <3>6 DEF Answer
    <2>3. answer' = [answer EXCEPT ![c] = a] /\ alone' = alone
      BY <1>10 DEF CountDepths
    <2>4. AnswersAddUp'
      <3> HIDE DEF a
      <3> QED  BY <1>0, <2>2, <2>3 DEF AnswersAddUp, TypeOK
    <2> QED  BY <1>1, <2>1, <2>4 DEF TotalsInv
  <1>11. ASSUME NEW c \in Callers, Fail(c) PROVE TotalsInv'
    <2>1. SavedInOrder'
      BY <1>11, TotalsRest DEF Fail, Done, Idle, plan
    <2> QED  BY <1>2, <1>11, <2>1 DEF Fail
  <1>12. CASE UNCHANGED vars
    <2>1. SavedInOrder'
      BY <1>12 DEF vars, plan, TotalsInv, SavedInOrder, There, To
    <2> QED  BY <1>2, <1>12, <2>1 DEF vars
  <1> QED
    BY <1>3, <1>4, <1>5, <1>6, <1>7, <1>8, <1>9, <1>10, <1>11, <1>12
       DEF Next, Continue, Step

(***************************************************************************)
(* While no two calls overlap, what a batch is answered adds up: as many   *)
(* tables as were reached, each of one depth, also after calls that failed *)
(* between their transactions and with the source deleted under way.       *)
(***************************************************************************)
THEOREM TotalsAddUp == Spec => []AnswersAddUp
  <1>1. Init => TotalsInv
    <2>1. ASSUME Init PROVE CountsAreOrderly /\ SavedInOrder /\ AnswersAddUp
      BY <2>1 DEF Init, Idle, NoAnswer, CountsAreOrderly, SavedInOrder, AnswersAddUp, There
    <2> QED  BY <2>1, InvInit DEF TotalsInv
  <1>2. TotalsInv => AnswersAddUp
    BY DEF TotalsInv
  <1> QED  BY <1>1, <1>2, TotalsStep, PTL DEF Spec
=============================================================================
