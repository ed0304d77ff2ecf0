----------------------- MODULE WorkflowRunner_proofs -----------------------
(***************************************************************************)
(* Proofs about WorkflowRunner, for every set of definitions, every number *)
(* of retries and any number of faults and of other requests.              *)
(***************************************************************************)
EXTENDS WorkflowRunner, FiniteSetTheorems, FunctionTheorems, SequenceTheorems, TLAPS

MailStatuses == {"pending", "simulated", "failed", "sent"}

Mail == [of : Nat, names : Nat, report : Nat, logged : BOOLEAN, status : MailStatuses,
         attempts : Nat, delivered : Nat, lost : Nat]

\* Where the run is.
ControlOK ==
  /\ workflow \in Workflows
  /\ at \in 1 .. Len(Steps) + 1
  /\ statuses \in [1 .. Len(Steps) -> Statuses]
  /\ outcome = [k \in 1 .. Len(Steps) |-> outcome[k]]
  /\ final \in {"completed", "failed"}

\* Uploads and deletions meanwhile, and faults so far.
CountersOK == others \in Nat /\ faults \in Nat

\* The next ids, and the locals of the run, whose ids are below them.
LocalsOK ==
  /\ next = [dataset |-> next.dataset, report |-> next.report]
  /\ next.dataset \in Nat \ {0} /\ next.report \in Nat \ {0}
  /\ ctx.of \in 0 .. next.dataset - 1 /\ ctx.id \in 0 .. next.report - 1
  /\ work = [dataset |-> work.dataset, of |-> work.of, id |-> work.id, attempt |-> work.attempt]
  /\ work.dataset \in 0 .. next.dataset - 1 /\ work.of \in 0 .. next.dataset - 1
  /\ work.id \in 0 .. next.report - 1
  /\ work.attempt \in Nat

\* Rows have ids that were given out.
DataOK ==
  /\ datasets \subseteq 1 .. next.dataset - 1
  /\ DOMAIN reports \subseteq 1 .. next.report - 1
  /\ snapshots \subseteq 1 .. next.report - 1

\* Notifications and mails, of reports that exist or existed.
LogsOK ==
  /\ notes \in Seq(Notes)
  /\ mails \in Seq(Mail)
  /\ \A k \in 1 .. Len(mails) : mails[k].report < next.report

InStep == {"analyze", "generate", "email", "notify", "save", "note", "snapshot", "log",
           "send", "tell"}
AtEnd  == {"end", "record", "charge", "done"}

\* How far a run of steps has come.
StepsOK ==
  workflow.kind = "steps" =>
    /\ pc \in {"step", "stopped"} \cup InStep \cup AtEnd
    /\ workflow.dry => pc \in {"step", "done", "stopped"} /\ final = "completed"
    /\ pc = "notify" => Told
    /\ pc \in InStep => at <= Len(Steps)
    /\ \A k \in 1 .. at - 1 :
         statuses[k] \in IF workflow.dry THEN {"would_run"} ELSE {"completed", "skipped"}
    /\ final = "completed" =>
         /\ pc \in AtEnd => at = Len(Steps) + 1
         /\ \A k \in at .. Len(Steps) : statuses[k] \in {"pending", "running"}
    /\ final = "failed" =>
         /\ pc \in AtEnd \cup {"stopped"} /\ at <= Len(Steps)
         /\ statuses[at] = "failed"
         /\ \A k \in at + 1 .. Len(Steps) : statuses[k] = "skipped"

DistinctIds == \A j, k \in 1 .. Len(Steps) : workflow.kind = "steps" /\ j # k => IdOf(j) # IdOf(k)

\* completed_results holds what came of every step so far, under its id.
ResultsOK ==
  /\ \A k \in DOMAIN results : results[k].sent \in {"True", "False", Unresolved}
  /\ workflow.kind = "steps" =>
       /\ DOMAIN results = {IdOf(k) : k \in 1 .. at - 1}
       /\ DistinctIds => \A k \in 1 .. at - 1 : results[IdOf(k)] = outcome[k]

\* How far a plan has come: its steps stand in the order of their places.
PlanOK ==
  workflow.kind = "plan" =>
    /\ pc \in {"plan", "plan done", "plan fails", "log", "send", "record", "charge", "done", "stopped"}
    /\ pc \in {"plan done", "plan fails", "log", "send"} => at <= Len(Steps)
    /\ final = "failed" => pc \in {"record", "charge", "done", "stopped"} /\ at <= Len(Steps)
    /\ \A k \in 1 .. Len(Steps) :
         statuses[k] = IF Place(k) < at THEN "success"
                       ELSE IF Place(k) = at /\ final = "failed" THEN "failed" ELSE "pending"

\* What has been told, and that the end is told last.
NotesOK ==
  /\ \A k \in 1 .. Len(notes) : notes[k] = "step" => Told
  /\ \A j, k \in EndNotes : j = k
  /\ \A k \in EndNotes : notes[k] = EndWord /\ ~Told
  /\ EndNotes # {} => pc \in {"record", "charge", "done", "stopped"}
  /\ pc \in {"record", "charge", "done"} /\ OfSteps /\ EndNotes = {} => faults > 0 \/ Told

\* The names of datasets and reports that are carried from step to step.
Stable == workflow.kind = "steps" /\ (workflow.dataset # 0 \/ others = 0)

NamesOK ==
  /\ others = 0 => next.dataset = 2
  /\ Stable => work.of = work.dataset
  /\ Stable /\ workflow.dataset # 0 =>
       {work.of, ctx.of} \subseteq {0, workflow.dataset}
  /\ work.id \in DOMAIN reports => reports[work.id] = work.of
  /\ ctx.id \in DOMAIN reports => reports[ctx.id] = ctx.of

\* The mail that is on its way, and the attempts so far.
AttemptsOK ==
  /\ pc \in {"save", "note", "snapshot", "log"} => work.attempt = 0
  /\ pc = "tell" => work.attempt \in {0, 1}
  /\ work.attempt <= 1 \/ work.attempt <= MaxRetries
  /\ pc = "send" =>
       LET mail == mails[Len(mails)]
       IN  /\ mails # <<>> /\ work.attempt <= MaxRetries
           /\ mode # "real" => work.attempt = 0
           /\ mail.status = "pending" /\ mail.attempts = work.attempt
           /\ mail.delivered = mail.lost /\ mail.delivered <= mail.attempts

Progress == ControlOK /\ StepsOK /\ ResultsOK /\ PlanOK
Locals   == LocalsOK /\ NamesOK /\ AttemptsOK
Tables   == CountersOK /\ DataOK /\ LogsOK /\ DryRunLeavesNothing /\ MailsAreTrue

RunInv == Progress /\ Locals /\ Tables /\ NotesOK

-----------------------------------------------------------------------------
(***************************************************************************)
(* Orders.  In a finite set with a strict total order every rank is taken: *)
(* so a set of numbers has a greatest, and each place of a plan a step.    *)
(***************************************************************************)
StrictTotalOrder(R, S) ==
  /\ \A x \in S : <<x, x>> \notin R
  /\ \A x, y \in S : x # y => <<x, y>> \in R \/ <<y, x>> \in R
  /\ \A x, y, z \in S : <<x, y>> \in R /\ <<y, z>> \in R => <<x, z>> \in R

Rank(x, R, S) == Cardinality({y \in S : <<y, x>> \in R})

LEMMA Ranks ==
  ASSUME NEW S, NEW R, IsFiniteSet(S), StrictTotalOrder(R, S)
  PROVE  /\ \A x \in S : Rank(x, R, S) \in 0 .. Cardinality(S) - 1
         /\ \A x, y \in S : <<x, y>> \in R => Rank(x, R, S) < Rank(y, R, S)
         /\ \A n \in 0 .. Cardinality(S) - 1 : \E x \in S : Rank(x, R, S) = n
<1> DEFINE Below(x) == {y \in S : <<y, x>> \in R}
           n == Cardinality(S)
           f == [x \in S |-> Rank(x, R, S)]
<1>1. n \in Nat
  BY FS_CardinalityType
<1>2. \A x \in S : Below(x) \in SUBSET S /\ IsFiniteSet(Below(x)) /\ Rank(x, R, S) \in Nat
  <2> TAKE x \in S
  <2>1. Below(x) \in SUBSET S
    OBVIOUS
  <2>2. IsFiniteSet(Below(x))
    BY <2>1, FS_Subset
  <2> QED
    BY <2>1, <2>2, FS_CardinalityType DEF Rank
<1>3. \A x, y \in S : <<x, y>> \in R => Rank(x, R, S) < Rank(y, R, S)
  <2> SUFFICES ASSUME NEW x \in S, NEW y \in S, <<x, y>> \in R
               PROVE  Rank(x, R, S) < Rank(y, R, S)
    OBVIOUS
  <2>1. Below(x) \in SUBSET Below(y)
    BY DEF StrictTotalOrder
  <2>2. Below(x) # Below(y)
    BY DEF StrictTotalOrder
  <2>3. Rank(x, R, S) = Cardinality(Below(x)) /\ Rank(y, R, S) = Cardinality(Below(y))
    BY DEF Rank
  <2> HIDE DEF Below
  <2>4. Cardinality(Below(x)) <= Cardinality(Below(y)) /\ Cardinality(Below(y)) # Cardinality(Below(x))
    BY <1>2, <2>1, <2>2, FS_Subset
  <2> QED
    BY <1>2, <2>3, <2>4
<1>4. \A x \in S : Rank(x, R, S) \in 0 .. n - 1
  <2> TAKE x \in S
  <2>1. Below(x) # S
    BY DEF StrictTotalOrder
  <2>2. Rank(x, R, S) = Cardinality(Below(x))
    BY DEF Rank
  <2> HIDE DEF Below
  <2>3. Cardinality(Below(x)) <= n /\ n # Cardinality(Below(x))
    BY <1>2, <2>1, FS_Subset
  <2> QED
    BY <1>1, <1>2, <2>2, <2>3
<1>5. \A m \in 0 .. n - 1 : \E x \in S : Rank(x, R, S) = m
  <2> HIDE DEF n
  <2>1. IsFiniteSet(0 .. n - 1) /\ Cardinality(0 .. n - 1) = n
    BY <1>1, FS_Interval
  <2>2. f \in [S -> 0 .. n - 1]
    BY <1>4
  <2>3. \A x, y \in S : x # y => Rank(x, R, S) # Rank(y, R, S)
    <3> SUFFICES ASSUME NEW x \in S, NEW y \in S, x # y
                 PROVE  Rank(x, R, S) # Rank(y, R, S)
      OBVIOUS
    <3>1. <<x, y>> \in R \/ <<y, x>> \in R
      BY DEF StrictTotalOrder
    <3>2. Rank(x, R, S) < Rank(y, R, S) \/ Rank(y, R, S) < Rank(x, R, S)
      BY <1>3, <3>1
    <3>3. Rank(x, R, S) \in Int /\ Rank(y, R, S) \in Int
      BY <1>1, <1>4 DEF n
    <3> QED
      BY <3>2, <3>3
  <2>4. f \in Injection(S, 0 .. n - 1)
    BY <2>2, <2>3, Zenon DEF Injection, IsInjective
  <2>5. f \in Surjection(S, 0 .. n - 1)
    BY <2>1, <2>4, FS_Injection DEF n
  <2> QED
    BY <2>5 DEF Surjection
<1> QED
  BY <1>3, <1>4, <1>5

LEMMA Greatest ==
  ASSUME NEW n \in Nat, NEW S \in SUBSET (0 .. n), S # {}
  PROVE  Max(S) \in S /\ \A x \in S : x <= Max(S)
<1> DEFINE R == {p \in S \X S : p[1] > p[2]}
           Above(x) == {y \in S : <<y, x>> \in R}
<1>1. IsFiniteSet(S)
  <2>1. IsFiniteSet(0 .. n)
    BY FS_Interval
  <2> QED
    BY <2>1, FS_Subset
<1>2. StrictTotalOrder(R, S)
  BY DEF StrictTotalOrder
<1>3. Cardinality(S) \in Nat /\ Cardinality(S) # 0
  BY <1>1, FS_CardinalityType, FS_EmptySet
<1>4. PICK x \in S : Rank(x, R, S) = 0
  <2> HIDE DEF R
  <2>1. 0 \in 0 .. Cardinality(S) - 1
    BY <1>3
  <2> QED
    BY <1>1, <1>2, <2>1, Ranks
<1>5. Above(x) = {}
  <2>1. Above(x) \in SUBSET S
    OBVIOUS
  <2>2. Cardinality(Above(x)) = 0
    BY <1>4 DEF Rank
  <2> HIDE DEF Above
  <2>3. IsFiniteSet(Above(x))
    BY <1>1, <2>1, FS_Subset
  <2> QED
    BY <2>2, <2>3, FS_EmptySet
<1>6. \A y \in S : ~(y > x)
  <2> SUFFICES ASSUME NEW y \in S, y > x
               PROVE  FALSE
    OBVIOUS
  <2>1. <<y, x>> \in R
    OBVIOUS
  <2> QED
    BY <1>5, <2>1
<1>7. \A y \in S : x >= y
  BY <1>6
<1>8. \A y \in S : Max(S) >= y /\ Max(S) \in S
  BY <1>7 DEF Max
<1> QED
  BY <1>8

LEMMA GreatestOfTwo ==
  ASSUME NEW n \in Nat
  PROVE  Max({1, n}) \in Nat /\ Max({1, n}) >= 1 /\ Max({1, n}) >= n
<1>1. {1, n} \in SUBSET (0 .. n + 1) /\ {1, n} # {} /\ n + 1 \in Nat
  OBVIOUS
<1>2. Max({1, n}) \in {1, n} /\ \A x \in {1, n} : x <= Max({1, n})
  BY <1>1, Greatest
<1> QED
  BY <1>2

\* What a definition is made of.
LEMMA Definitions ==
  ASSUME workflow \in Workflows
  PROVE  /\ Len(Steps) \in Nat
         /\ workflow.kind \in {"steps", "plan"}
         /\ workflow.kind = "steps" =>
              /\ workflow.dry \in BOOLEAN /\ workflow.dataset \in Nat
              /\ \A k \in 1 .. Len(Steps) :
                   Steps[k].id \in Nat /\ Steps[k].type \in StepTypes
         /\ workflow.kind = "plan" =>
              /\ ~workflow.dry
              /\ \A k \in 1 .. Len(Steps) :
                   Steps[k].priority \in Nat /\ Steps[k].type \in PlanKinds
  BY WorkflowAssumption DEF Steps

LEMMA UpTo ==
  ASSUME NEW n \in Nat
  PROVE  IsFiniteSet(1 .. n) /\ Cardinality(1 .. n) = n
  BY FS_Interval

\* The order of a plan, as a set of pairs.
LEMMA PlacesInOrder ==
  ASSUME workflow \in Workflows, workflow.kind = "plan"
  PROVE  /\ \A k \in 1 .. Len(Steps) : Place(k) \in 1 .. Len(Steps)
         /\ \A j, k \in 1 .. Len(Steps) : Before(j, k) => Place(j) < Place(k)
         /\ \A j, k \in 1 .. Len(Steps) : Place(j) = Place(k) => j = k
         /\ \A n \in 1 .. Len(Steps) : \E k \in 1 .. Len(Steps) : Place(k) = n
<1> DEFINE N == 1 .. Len(Steps)
           R == {p \in N \X N : Before(p[1], p[2])}
<1>1. Len(Steps) \in Nat /\ \A k \in N : Steps[k].priority \in Nat
  BY Definitions
<1>2. IsFiniteSet(N) /\ Cardinality(N) = Len(Steps)
  BY <1>1, UpTo
<1>3. StrictTotalOrder(R, N)
  BY <1>1, SMTT(30) DEF StrictTotalOrder, Before
<1>4. \A k \in N : {j \in N : <<j, k>> \in R} = {j \in N : Before(j, k)}
  OBVIOUS
<1>5. \A k \in N : Place(k) = Rank(k, R, N) + 1
  BY <1>4 DEF Place, Rank
<1>6. \A j, k \in N : Before(j, k) <=> <<j, k>> \in R
  OBVIOUS
<1>7. \A j, k \in N : j # k => Before(j, k) \/ Before(k, j)
  BY <1>1 DEF Before
<1> HIDE DEF N, R
<1>8. /\ \A k \in N : Rank(k, R, N) \in 0 .. Len(Steps) - 1
      /\ \A j, k \in N : <<j, k>> \in R => Rank(j, R, N) < Rank(k, R, N)
      /\ \A n \in 0 .. Len(Steps) - 1 : \E k \in N : Rank(k, R, N) = n
  BY <1>2, <1>3, Ranks
<1>9. \A k \in N : Place(k) \in 1 .. Len(Steps)
  BY <1>1, <1>5, <1>8
<1>10. \A j, k \in N : Before(j, k) => Place(j) < Place(k)
  <2> SUFFICES ASSUME NEW j \in N, NEW k \in N, Before(j, k)
               PROVE  Place(j) < Place(k)
    OBVIOUS
  <2>1. <<j, k>> \in R
    BY <1>6
  <2>2. Rank(j, R, N) < Rank(k, R, N)
    BY <1>8, <2>1
  <2>3. Rank(j, R, N) \in Int /\ Rank(k, R, N) \in Int
    BY <1>1, <1>8
  <2> QED
    BY <1>5, <2>2, <2>3
<1>11. \A j, k \in N : Place(j) = Place(k) => j = k
  <2> SUFFICES ASSUME NEW j \in N, NEW k \in N, j # k
               PROVE  Place(j) # Place(k)
    OBVIOUS
  <2>1. Place(j) < Place(k) \/ Place(k) < Place(j)
    BY <1>7, <1>10
  <2> QED
    BY <1>1, <1>9, <2>1
<1>12. \A n \in 1 .. Len(Steps) : \E k \in N : Place(k) = n
  <2> TAKE n \in 1 .. Len(Steps)
  <2>1. n - 1 \in 0 .. Len(Steps) - 1
    BY <1>1
  <2>2. PICK k \in N : Rank(k, R, N) = n - 1
    BY <1>8, <2>1
  <2> QED
    BY <1>1, <1>5, <2>2
<1> QED
  BY <1>9, <1>10, <1>11, <1>12 DEF N

LEMMA CurrentStep ==
  ASSUME workflow \in Workflows, workflow.kind = "plan", at \in 1 .. Len(Steps)
  PROVE  Current \in 1 .. Len(Steps) /\ Place(Current) = at
  BY PlacesInOrder DEF Current

LEMMA Appended ==
  ASSUME NEW S, NEW seq \in Seq(S), NEW elt \in S, NEW longer, longer = Append(seq, elt)
  PROVE  /\ longer \in Seq(S) /\ longer # <<>>
         /\ longer[Len(longer)] = elt
         /\ \A k \in 1 .. Len(longer) :
              \/ k = Len(longer) /\ longer[k] = elt
              \/ k \in 1 .. Len(seq) /\ longer[k] = seq[k]
<1>1. Len(seq) \in Nat
  BY LenProperties
<1>2. /\ Append(seq, elt) \in Seq(S) /\ Append(seq, elt) # <<>>
      /\ Len(Append(seq, elt)) = Len(seq) + 1
      /\ Append(seq, elt)[Len(seq) + 1] = elt
      /\ \A k \in 1 .. Len(seq) : Append(seq, elt)[k] = seq[k]
  BY AppendProperties
<1> QED
  BY <1>1, <1>2

-----------------------------------------------------------------------------
(***************************************************************************)
(* What most steps leave as it was.                                        *)
(***************************************************************************)
\* Of a mail that is not touched: reports come under new numbers, and go.
MailTrue(mail) ==
  /\ Stable => mail.of = mail.names
  /\ mail.report \in DOMAIN reports => reports[mail.report] = mail.of
  /\ mail.status = "sent" => mail.delivered >= 1
  /\ mail.delivered <= mail.attempts
  /\ mail.attempts <= MaxRetries + 1
  /\ mail.delivered <= mail.lost + 1
  /\ ~mail.logged =>
       faults > 0 \/ (mail.report # 0 /\ mail.report \notin DOMAIN reports)

EachMailTrue == \A k \in 1 .. Len(mails) : MailTrue(mails[k])

LEMMA MailByMail == MailsAreTrue <=> EachMailTrue
<1> USE DEF MailsNameWhatTheyCarry, LogTellsOfMails, MailsNameTheirDataset,
            MailsNameTheirReport, LogTellsDeliveries, MailsAreLogged, Stable
<1>1. ASSUME MailsAreTrue, NEW k \in 1 .. Len(mails)
      PROVE  MailTrue(mails[k])
  BY <1>1 DEF MailsAreTrue, MailTrue
<1>2. ASSUME EachMailTrue
      PROVE  MailsAreTrue
  <2>1. MailsNameTheirDataset
    BY <1>2 DEF EachMailTrue, MailTrue
  <2>2. MailsNameTheirReport
    BY <1>2 DEF EachMailTrue, MailTrue
  <2>3. LogTellsDeliveries
    BY <1>2 DEF EachMailTrue, MailTrue
  <2>4. MailsAreLogged
    BY <1>2 DEF EachMailTrue, MailTrue
  <2> QED
    BY <2>1, <2>2, <2>3, <2>4 DEF MailsAreTrue
<1> QED
  BY <1>1, <1>2 DEF EachMailTrue

Kept ==
  /\ workflow' = workflow
  /\ others' \in Nat /\ others <= others' /\ faults' \in Nat /\ faults <= faults'
  /\ \A r \in DOMAIN reports' : r < next.report => r \in DOMAIN reports /\ reports'[r] = reports[r]

LEMMA MailKept ==
  ASSUME NEW mail \in Mail, mail.report < next.report, MailTrue(mail), Kept, CountersOK
  PROVE  MailTrue(mail)'
<1>1. Stable' => Stable
  BY DEF Kept, Stable, CountersOK
<1>2. faults > 0 => faults' > 0
  BY DEF Kept, CountersOK
<1>3. mail.report \in DOMAIN reports' => mail.report \in DOMAIN reports /\ reports'[mail.report] = reports[mail.report]
  BY DEF Kept
<1> QED
  BY <1>1, <1>2, <1>3 DEF MailTrue

LEMMA MailsKept ==
  ASSUME RunInv, Kept, mails' = mails
  PROVE  MailsAreTrue'
<1>1. \A k \in 1 .. Len(mails) : mails[k] \in Mail /\ mails[k].report < next.report /\ MailTrue(mails[k])
  <2>1. mails \in Seq(Mail) /\ EachMailTrue /\ \A k \in 1 .. Len(mails) : mails[k].report < next.report
    BY MailByMail DEF RunInv, Tables, LogsOK
  <2> QED
    BY <2>1, LenProperties DEF EachMailTrue
<1>2. ASSUME NEW mail \in Mail, mail.report < next.report, MailTrue(mail)
      PROVE  MailTrue(mail)'
  BY <1>2, MailKept DEF RunInv, Tables
<1>3. \A k \in 1 .. Len(mails) : MailTrue(mails[k])'
  <2> TAKE k \in 1 .. Len(mails)
  <2>1. PICK mail : mail = mails[k]
    OBVIOUS
  <2>2. MailTrue(mail)'
    BY <1>1, <1>2, <2>1
  <2> QED
    BY <2>1, <2>2 DEF MailTrue
<1>4. EachMailTrue'
  BY <1>3 DEF EachMailTrue
<1> QED
  BY <1>4, MailByMail, PTL

\* A step that touches no row but may fail.
LEMMA TablesStay ==
  ASSUME RunInv, UNCHANGED <<workflow, others, rows>>,
         faults' = faults \/ faults' = faults + 1
  PROVE  Tables' /\ Kept /\ CountersOK'
<1>1. UNCHANGED <<datasets, reports, snapshots, notes, mails, recorded, next>>
  BY DEF rows
<1>2. Kept /\ CountersOK'
  BY <1>1 DEF Kept, RunInv, Tables, CountersOK
<1>3. DataOK' /\ LogsOK'
  BY <1>1 DEF RunInv, Tables, DataOK, LogsOK
<1>4. DryRunLeavesNothing'
  BY <1>1 DEF RunInv, Tables, DryRunLeavesNothing
<1>5. MailsAreTrue'
  BY <1>1, <1>2, MailsKept
<1> QED
  BY <1>2, <1>3, <1>4, <1>5 DEF Tables

LEMMA NothingNoted ==
  ASSUME RunInv, UNCHANGED <<workflow, notes, final>>,
         pc \notin {"record", "charge", "done", "stopped"},
         pc' \in {"record", "charge", "done"} => ~OfSteps
  PROVE  NotesOK' /\ EndNotes = {}
<1>1. EndNotes = {} /\ EndNotes' = EndNotes
  BY DEF RunInv, NotesOK, EndNotes
<1>2. OfSteps' = OfSteps /\ Told' = Told
  BY DEF OfSteps, Told, Steps
<1> QED
  BY <1>1, <1>2 DEF RunInv, NotesOK

LEMMA NoteAppended ==
  ASSUME NEW note \in Notes, notes \in Seq(Notes), notes' = Append(notes, note)
  PROVE  /\ notes' \in Seq(Notes)
         /\ \A k \in 1 .. Len(notes') :
              \/ k = Len(notes') /\ notes'[k] = note
              \/ k \in 1 .. Len(notes) /\ notes'[k] = notes[k]
  BY Appended

LEMMA Noted ==
  ASSUME RunInv, UNCHANGED workflow,
         pc \notin {"record", "charge", "done", "stopped"},
         pc' \notin {"record", "charge", "done"},
         NEW note \in {"step", "report", "mail sent", "mail failed"},
         notes' = Append(notes, note), note = "step" => Told
  PROVE  NotesOK' /\ notes' \in Seq(Notes)
<1>1. notes \in Seq(Notes) /\ note \in Notes
  BY DEF RunInv, Tables, LogsOK, Notes
<1>2. EndNotes = {}
  BY DEF RunInv, NotesOK
<1>3. /\ notes' \in Seq(Notes)
      /\ \A k \in 1 .. Len(notes') :
           notes'[k] = note \/ (k \in 1 .. Len(notes) /\ notes'[k] = notes[k])
  BY <1>1, NoteAppended
<1>5. EndNotes' = {}
  BY <1>2, <1>3 DEF EndNotes
<1>6. Told' = Told
  BY DEF Told, Steps
<1>7. \A k \in 1 .. Len(notes') : notes'[k] = "step" => Told'
  BY <1>3, <1>6 DEF RunInv, NotesOK
<1> QED
  BY <1>3, <1>5, <1>7 DEF NotesOK

LEMMA WorkLeft ==
  ASSUME RunInv, Kept, UNCHANGED <<work, ctx, next>>
  PROVE  LocalsOK' /\ NamesOK'
<1>1. LocalsOK'
  BY DEF RunInv, Locals, LocalsOK
<1>2. others' = 0 => others = 0
  BY DEF Kept, RunInv, Tables, CountersOK
<1>3. Stable' => Stable
  BY <1>2 DEF Kept, Stable
<1>4. work.id < next.report /\ ctx.id < next.report
  BY DEF RunInv, Locals, LocalsOK
<1>5. /\ work.id \in DOMAIN reports' => work.id \in DOMAIN reports /\ reports'[work.id] = reports[work.id]
      /\ ctx.id \in DOMAIN reports' => ctx.id \in DOMAIN reports /\ reports'[ctx.id] = reports[ctx.id]
  BY <1>4 DEF Kept
<1>6. NamesOK'
  BY <1>2, <1>3, <1>5 DEF RunInv, Locals, NamesOK, Kept
<1> QED
  BY <1>1, <1>6

LEMMA WorkOver ==
  ASSUME RunInv, Kept, work' = NoWork, UNCHANGED next, DataOK', pc' # "send",
         \/ ctx' = ctx
         \/ /\ ctx' = [of |-> work.of, id |-> work.id] \/ ctx' = [of |-> work.of, id |-> 0]
            /\ pc \in {"save", "note", "snapshot"}
         \/ ctx' = NoCtx
  PROVE  Locals'
<1>1. work' = [dataset |-> 0, of |-> 0, id |-> 0, attempt |-> 0]
  BY DEF NoWork, Work
<1>2. /\ next.dataset \in Nat \ {0} /\ next.report \in Nat \ {0}
      /\ work.of \in 0 .. next.dataset - 1 /\ work.id \in 0 .. next.report - 1
      /\ ctx.of \in 0 .. next.dataset - 1 /\ ctx.id \in 0 .. next.report - 1
  BY DEF RunInv, Locals, LocalsOK
<1>3. \/ ctx'.of = ctx.of /\ ctx'.id = ctx.id
      \/ ctx'.of = work.of /\ ctx'.id = work.id
      \/ ctx'.of = work.of /\ ctx'.id = 0
      \/ ctx'.of = 0 /\ ctx'.id = 0
  BY DEF NoCtx
<1>4. LocalsOK'
  BY <1>1, <1>2, <1>3 DEF RunInv, Locals, LocalsOK
<1>5. others' = 0 => others = 0
  BY DEF Kept, RunInv, Tables, CountersOK
<1>6. Stable' => Stable
  BY <1>5 DEF Kept, Stable
<1>7. 0 \notin DOMAIN reports'
  BY <1>2 DEF DataOK
<1>8. /\ work.id \in DOMAIN reports' => work.id \in DOMAIN reports /\ reports'[work.id] = reports[work.id]
      /\ ctx.id \in DOMAIN reports' => ctx.id \in DOMAIN reports /\ reports'[ctx.id] = reports[ctx.id]
  BY <1>2 DEF Kept
<1>9. ctx'.id \in DOMAIN reports' => reports'[ctx'.id] = ctx'.of
  BY <1>3, <1>7, <1>8 DEF RunInv, Locals, NamesOK
<1>10. Stable' /\ workflow'.dataset # 0 => ctx'.of \in {0, workflow'.dataset}
  BY <1>3, <1>6 DEF RunInv, Locals, NamesOK, Kept
<1>11. NamesOK'
  BY <1>1, <1>5, <1>7, <1>9, <1>10 DEF RunInv, Locals, NamesOK
<1>12. AttemptsOK'
  BY <1>1 DEF AttemptsOK
<1> QED
  BY <1>4, <1>11, <1>12 DEF Locals

-----------------------------------------------------------------------------
(***************************************************************************)
(* How far the run is.                                                     *)
(***************************************************************************)
LEMMA SameWorkflow ==
  ASSUME workflow' = workflow
  PROVE  Steps' = Steps /\ Told' = Told /\ DistinctIds' = DistinctIds /\ OfSteps' = OfSteps
  BY DEF Steps, Told, DistinctIds, IdOf, OfSteps

LEMMA ResultsStay ==
  ASSUME ResultsOK, UNCHANGED <<workflow, at, results, outcome>>
  PROVE  ResultsOK'
<1>1. \A k : IdOf(k)' = IdOf(k)
  BY DEF IdOf, Steps
<1>2. DistinctIds' = DistinctIds /\ (1 .. at - 1)' = 1 .. at - 1
  BY SameWorkflow
<1>3. {IdOf(k) : k \in 1 .. at - 1}' = {IdOf(k) : k \in 1 .. at - 1}
  BY <1>1
<1> QED
  BY <1>1, <1>2, <1>3 DEF ResultsOK

\* Where the steps of a run of steps are carried out, none has failed yet.
LEMMA UnderWay ==
  ASSUME RunInv, pc \in {"step"} \cup InStep
  PROVE  /\ workflow \in Workflows /\ at \in 1 .. Len(Steps) + 1 /\ Len(Steps) \in Nat
         /\ final = "completed"
         /\ pc \in InStep => at \in 1 .. Len(Steps)
         /\ pc \notin {"log", "send"} => workflow.kind = "steps"
         /\ workflow.kind \in {"steps", "plan"}
         /\ workflow.kind = "steps" =>
              /\ \A k \in 1 .. at - 1 :
                   statuses[k] \in IF workflow.dry THEN {"would_run"} ELSE {"completed", "skipped"}
              /\ \A k \in at .. Len(Steps) : statuses[k] \in {"pending", "running"}
              /\ pc \in InStep => ~workflow.dry
<1>1. /\ workflow \in Workflows /\ at \in 1 .. Len(Steps) + 1 /\ final \in {"completed", "failed"}
      /\ StepsOK /\ PlanOK
  BY DEF RunInv, Progress, ControlOK
<1>2. Len(Steps) \in Nat /\ workflow.kind \in {"steps", "plan"}
  BY <1>1, Definitions
<1>3. pc \notin {"log", "send"} => workflow.kind = "steps"
  BY <1>1, <1>2 DEF PlanOK, InStep
<1>4. pc \in InStep => at \in 1 .. Len(Steps)
  <2>1. CASE workflow.kind = "steps"
    <3>1. pc \in InStep => at <= Len(Steps)
      BY <1>1, <2>1 DEF StepsOK
    <3> QED
      BY <1>1, <1>2, <3>1
  <2>2. CASE workflow.kind = "plan"
    <3>1. pc \in InStep => at <= Len(Steps)
      BY <1>1, <2>2 DEF PlanOK, InStep
    <3> QED
      BY <1>1, <1>2, <3>1
  <2> QED
    BY <1>2, <2>1, <2>2
<1>5. final = "completed"
  BY <1>1, <1>2 DEF PlanOK, StepsOK, InStep, AtEnd
<1>6. workflow.kind = "steps" => (pc \in InStep => ~workflow.dry)
  BY <1>1 DEF StepsOK, InStep
<1>7. workflow.kind = "steps" =>
        /\ \A k \in 1 .. at - 1 :
             statuses[k] \in IF workflow.dry THEN {"would_run"} ELSE {"completed", "skipped"}
        /\ \A k \in at .. Len(Steps) : statuses[k] \in {"pending", "running"}
  BY <1>1, <1>5 DEF StepsOK
<1> QED
  BY <1>1, <1>2, <1>3, <1>4, <1>5, <1>6, <1>7

\* Inside a step, of either runner, and between the steps of a plan.
InPlan == {"plan", "plan done", "plan fails", "log", "send"}

LEMMA Walk ==
  ASSUME RunInv, UNCHANGED <<workflow, control>>,
         \/ workflow.kind = "steps" /\ pc \in InStep /\ pc' \in InStep \ {"notify"}
         \/ workflow.kind = "plan" /\ pc \in InPlan /\ pc' \in InPlan /\ at <= Len(Steps)
  PROVE  Progress'
<1>1. UNCHANGED <<at, statuses, results, outcome, ctx, final>>
  BY DEF control
<1>2. ControlOK' /\ ResultsOK'
  <2>1. ControlOK'
    BY <1>1, SameWorkflow DEF RunInv, Progress, ControlOK
  <2>2. ResultsOK'
    BY <1>1, ResultsStay DEF RunInv, Progress
  <2> QED
    BY <2>1, <2>2
<1>3. StepsOK'
  <2>1. CASE workflow.kind = "steps" /\ pc \in InStep /\ pc' \in InStep \ {"notify"}
    BY <1>1, <2>1, SameWorkflow DEF RunInv, Progress, StepsOK, InStep, AtEnd
  <2>2. CASE workflow.kind = "plan"
    BY <2>2 DEF StepsOK
  <2> QED
    BY <2>1, <2>2
<1>4. PlanOK'
  <2>1. CASE workflow.kind = "steps"
    BY <2>1 DEF PlanOK
  <2>2. CASE workflow.kind = "plan" /\ pc \in InPlan /\ pc' \in InPlan /\ at <= Len(Steps)
    <3>1. final # "failed"
      BY <2>2 DEF RunInv, Progress, PlanOK, InPlan
    <3>2. \A k \in 1 .. Len(Steps) : Place(k)' = Place(k)
      BY DEF Place, Before, Steps
    <3>3. \A k \in 1 .. Len(Steps) :
            statuses[k] = IF Place(k) < at THEN "success" ELSE "pending"
      BY <2>2, <3>1 DEF RunInv, Progress, PlanOK
    <3>4. \A k \in 1 .. Len(Steps) :
            statuses'[k] = IF Place(k)' < at' THEN "success" ELSE "pending"
      BY <1>1, <3>2, <3>3
    <3> QED
      BY <1>1, <2>2, <3>1, <3>4, SameWorkflow DEF PlanOK, InPlan
  <2> QED
    BY <2>1, <2>2
<1> QED
  BY <1>2, <1>3, <1>4 DEF Progress

\* A step of a run of steps is over.
LEMMA StepDone ==
  ASSUME RunInv, workflow' = workflow, workflow.kind = "steps",
         pc \in {"step"} \cup InStep, at <= Len(Steps),
         NEW status \in IF workflow.dry THEN {"would_run"} ELSE {"completed", "skipped"},
         NEW result, result.sent \in {"True", "False", Unresolved},
         StepOver(status, result)
  PROVE  Progress' /\ pc' = "step" /\ work' = NoWork /\ final' = final
<1>1. /\ workflow \in Workflows /\ at \in 1 .. Len(Steps) /\ Len(Steps) \in Nat
      /\ final = "completed"
      /\ \A k \in 1 .. at - 1 :
           statuses[k] \in IF workflow.dry THEN {"would_run"} ELSE {"completed", "skipped"}
      /\ \A k \in at .. Len(Steps) : statuses[k] \in {"pending", "running"}
  BY UnderWay
<1>2. /\ statuses \in [1 .. Len(Steps) -> Statuses]
      /\ outcome = [k \in 1 .. Len(Steps) |-> outcome[k]]
      /\ ResultsOK
  BY DEF RunInv, Progress, ControlOK
<1>3. /\ at' = at + 1 /\ pc' = "step" /\ work' = NoWork /\ final' = final
      /\ statuses' = [statuses EXCEPT ![at] = status]
      /\ outcome' = [outcome EXCEPT ![at] = result]
      /\ results' = Put(results, IdOf(at), result)
  BY DEF StepOver
<1>4. status \in Statuses
  BY DEF Statuses
<1>5. /\ statuses' \in [1 .. Len(Steps) -> Statuses] /\ statuses'[at] = status
      /\ \A k \in 1 .. Len(Steps) : k # at => statuses'[k] = statuses[k]
  BY <1>1, <1>2, <1>3, <1>4
<1>6. /\ outcome' = [k \in 1 .. Len(Steps) |-> outcome'[k]] /\ outcome'[at] = result
      /\ \A k \in 1 .. Len(Steps) : k # at => outcome'[k] = outcome[k]
  BY <1>1, <1>2, <1>3
<1>7. /\ DOMAIN results' = DOMAIN results \cup {IdOf(at)} /\ results'[IdOf(at)] = result
      /\ \A x \in DOMAIN results : x # IdOf(at) => results'[x] = results[x]
  BY <1>3 DEF Put
<1>8. ControlOK'
  BY <1>1, <1>3, <1>5, <1>6, SameWorkflow DEF ControlOK
<1>9. StepsOK'
  <2>1. \A k \in 1 .. at' - 1 :
          statuses'[k] \in IF workflow'.dry THEN {"would_run"} ELSE {"completed", "skipped"}
    BY <1>1, <1>3, <1>5
  <2>2. \A k \in at' .. Len(Steps) : statuses'[k] \in {"pending", "running"}
    BY <1>1, <1>3, <1>5
  <2> QED
    BY <1>1, <1>3, <2>1, <2>2, SameWorkflow DEF StepsOK, InStep, AtEnd
<1>10. ResultsOK'
  <2>1. \A k \in DOMAIN results' : results'[k].sent \in {"True", "False", Unresolved}
    BY <1>2, <1>7 DEF ResultsOK
  <2>2. DOMAIN results' = {IdOf(k) : k \in 1 .. at' - 1}
    <3>1. DOMAIN results = {IdOf(k) : k \in 1 .. at - 1}
      BY <1>2 DEF ResultsOK
    <3>2. 1 .. at' - 1 = (1 .. at - 1) \cup {at}
      BY <1>1, <1>3
    <3> QED
      BY <1>7, <3>1, <3>2
  <2>3. ASSUME DistinctIds, NEW k \in 1 .. at' - 1
        PROVE  results'[IdOf(k)] = outcome'[k]
    <3>1. CASE k = at
      BY <1>6, <1>7, <3>1
    <3>2. CASE k # at
      <4>1. k \in 1 .. at - 1 /\ k \in 1 .. Len(Steps)
        BY <1>1, <1>3, <3>2
      <4>2. IdOf(k) # IdOf(at)
        BY <1>1, <2>3, <3>2, <4>1 DEF DistinctIds
      <4>3. IdOf(k) \in DOMAIN results /\ results[IdOf(k)] = outcome[k]
        BY <1>2, <2>3, <4>1 DEF ResultsOK
      <4> QED
        BY <1>6, <1>7, <3>2, <4>1, <4>2, <4>3
    <3> QED
      BY <3>1, <3>2
  <2>4. \A k : IdOf(k)' = IdOf(k)
    BY DEF IdOf, Steps
  <2> QED
    BY <2>1, <2>2, <2>3, <2>4, SameWorkflow DEF ResultsOK
<1>11. PlanOK'
  BY DEF PlanOK
<1> QED
  BY <1>3, <1>8, <1>9, <1>10, <1>11 DEF Progress

-----------------------------------------------------------------------------
(***************************************************************************)
(* The steps of the multi-step runner.                                     *)
(***************************************************************************)
Ended == {"record", "charge", "done", "stopped"}

\* The step that is over has touched no row.
LEMMA QuietStep ==
  ASSUME RunInv, UNCHANGED <<workflow, others, rows>>,
         faults' = faults \/ faults' = faults + 1,
         Progress', pc \in {"step"} \cup InStep, pc' = "step", work' = NoWork, final' = final,
         \/ ctx' = ctx
         \/ /\ ctx' = [of |-> work.of, id |-> work.id] \/ ctx' = [of |-> work.of, id |-> 0]
            /\ pc \in {"save", "note", "snapshot"}
         \/ ctx' = NoCtx
  PROVE  RunInv'
<1>1. UNCHANGED <<notes, next>>
  BY DEF rows
<1>2. Tables' /\ Kept /\ DataOK'
  BY TablesStay DEF Tables
<1>3. Locals'
  BY <1>1, <1>2, WorkOver
<1>4. NotesOK'
  BY <1>1, NothingNoted DEF InStep
<1> QED
  BY <1>2, <1>3, <1>4 DEF RunInv

LEMMA DryStepKeeps ==
  ASSUME RunInv, DryStep
  PROVE  RunInv'
<1>1. /\ pc = "step" /\ at <= Len(Steps) /\ workflow.dry
      /\ StepOver("would_run", Result("would_run", Unresolved))
      /\ UNCHANGED <<workflow, others, rows, faults, ctx>>
  BY DEF DryStep, AtStep, fixed
<1>2. workflow.kind = "steps"
  BY <1>1, UnderWay
<1>3. Progress' /\ pc' = "step" /\ work' = NoWork /\ final' = final
  BY <1>1, <1>2, StepDone DEF Result
<1> QED
  BY <1>1, <1>3, QuietStep

LEMMA SkipStepKeeps ==
  ASSUME RunInv, SkipStep
  PROVE  RunInv'
<1>1. /\ pc = "step" /\ at <= Len(Steps) /\ ~workflow.dry
      /\ StepOver("skipped", Result("skipped", Unresolved))
      /\ UNCHANGED <<workflow, others, rows, faults, ctx>>
  BY DEF SkipStep, AtStep, fixed
<1>2. workflow.kind = "steps"
  BY <1>1, UnderWay
<1>3. Progress' /\ pc' = "step" /\ work' = NoWork /\ final' = final
  BY <1>1, <1>2, StepDone DEF Result
<1> QED
  BY <1>1, <1>3, QuietStep

LEMMA AnalyzeStepKeeps ==
  ASSUME RunInv, AnalyzeStep
  PROVE  RunInv'
<1>1. /\ pc = "analyze"
      /\ StepOver("completed", Result("completed", Unresolved))
      /\ UNCHANGED <<workflow, others, rows, faults, ctx>>
  BY DEF AnalyzeStep, fixed
<1>2. workflow.kind = "steps" /\ at <= Len(Steps) /\ ~workflow.dry /\ pc \in InStep
  BY <1>1, UnderWay DEF InStep
<1>3. Progress' /\ pc' = "step" /\ work' = NoWork /\ final' = final
  BY <1>1, <1>2, StepDone DEF Result
<1> QED
  BY <1>1, <1>2, <1>3, QuietStep

LEMMA StartStepKeeps ==
  ASSUME RunInv, StartStep
  PROVE  RunInv'
<1>1. /\ pc = "step" /\ at <= Len(Steps) /\ ~workflow.dry
      /\ statuses' = [statuses EXCEPT ![at] = "running"] /\ pc' = Steps[at].type
      /\ UNCHANGED <<workflow, others, at, results, outcome, ctx, work, final, rows, faults>>
  BY DEF StartStep, AtStep, fixed
<1>2. /\ workflow.kind = "steps" /\ workflow \in Workflows /\ Len(Steps) \in Nat
      /\ at \in 1 .. Len(Steps) + 1 /\ final = "completed"
      /\ \A k \in 1 .. at - 1 :
           statuses[k] \in IF workflow.dry THEN {"would_run"} ELSE {"completed", "skipped"}
      /\ \A k \in at .. Len(Steps) : statuses[k] \in {"pending", "running"}
  BY <1>1, UnderWay
<1>3. at \in 1 .. Len(Steps)
  BY <1>1, <1>2
<1>4. pc' \in StepTypes /\ (pc' = "notify" => Told)
  BY <1>1, <1>2, <1>3, Definitions DEF Told
<1>5. /\ statuses \in [1 .. Len(Steps) -> Statuses]
      /\ outcome = [k \in 1 .. Len(Steps) |-> outcome[k]]
      /\ ResultsOK
  BY DEF RunInv, Progress, ControlOK
<1>6. /\ statuses' \in [1 .. Len(Steps) -> Statuses] /\ statuses'[at] = "running"
      /\ \A k \in 1 .. Len(Steps) : k # at => statuses'[k] = statuses[k]
  BY <1>1, <1>2, <1>3, <1>5 DEF Statuses
<1>7. ControlOK'
  BY <1>1, <1>2, <1>5, <1>6, SameWorkflow DEF ControlOK
<1>8. StepsOK'
  <2>1. \A k \in 1 .. at' - 1 :
          statuses'[k] \in IF workflow'.dry THEN {"would_run"} ELSE {"completed", "skipped"}
    BY <1>1, <1>2, <1>3, <1>6
  <2>2. \A k \in at' .. Len(Steps) : statuses'[k] \in {"pending", "running"}
    BY <1>1, <1>2, <1>3, <1>6
  <2> QED
    BY <1>1, <1>2, <1>4, <2>1, <2>2, SameWorkflow DEF StepsOK, InStep, AtEnd, StepTypes
<1>9. ResultsOK'
  BY <1>1, <1>5, ResultsStay
<1>10. PlanOK'
  BY <1>1, <1>2 DEF PlanOK
<1>11. Tables' /\ Kept
  BY <1>1, TablesStay
<1>12. UNCHANGED <<notes, next>>
  BY <1>1 DEF rows
<1>13. LocalsOK' /\ NamesOK'
  BY <1>1, <1>11, <1>12, WorkLeft
<1>14. AttemptsOK'
  BY <1>1, <1>4 DEF RunInv, Locals, AttemptsOK, StepTypes
<1>15. NotesOK'
  BY <1>1, <1>4, <1>12, NothingNoted DEF StepTypes
<1> QED
  BY <1>7, <1>8, <1>9, <1>10, <1>11, <1>13, <1>14, <1>15 DEF RunInv, Progress, Locals

\* The run goes on to its end, with nothing but its place changed.
LEMMA Onwards ==
  ASSUME RunInv, UNCHANGED <<workflow, others, control, work, rows>>,
         faults' = faults \/ faults' = faults + 1
  PROVE  /\ ControlOK' /\ ResultsOK' /\ Tables' /\ LocalsOK' /\ NamesOK'
         /\ pc' \notin {"save", "note", "snapshot", "log", "tell", "send"} => AttemptsOK'
<1>1. UNCHANGED <<at, statuses, results, outcome, ctx, final, next>>
  BY DEF control, rows
<1>2. ControlOK' /\ ResultsOK'
  <2>1. ControlOK'
    BY <1>1, SameWorkflow DEF RunInv, Progress, ControlOK
  <2>2. ResultsOK'
    BY <1>1, ResultsStay DEF RunInv, Progress
  <2> QED
    BY <2>1, <2>2
<1>3. Tables' /\ Kept
  BY TablesStay
<1>4. LocalsOK' /\ NamesOK'
  BY <1>1, <1>3, WorkLeft
<1>5. pc' \notin {"save", "note", "snapshot", "log", "tell", "send"} => AttemptsOK'
  BY DEF RunInv, Locals, AttemptsOK
<1> QED
  BY <1>2, <1>3, <1>4, <1>5

LEMMA StepsEndKeeps ==
  ASSUME RunInv, StepsEnd
  PROVE  RunInv'
<1>1. /\ pc = "step" /\ at > Len(Steps)
      /\ pc' = IF workflow.dry THEN "done" ELSE "end"
      /\ UNCHANGED <<workflow, others, control, work, rows, faults>>
  BY DEF StepsEnd, fixed
<1>2. UNCHANGED <<at, statuses, final, notes>>
  BY <1>1 DEF control, rows
<1>3. /\ workflow.kind = "steps" /\ Len(Steps) \in Nat /\ at \in 1 .. Len(Steps) + 1
      /\ final = "completed"
      /\ \A k \in 1 .. at - 1 :
           statuses[k] \in IF workflow.dry THEN {"would_run"} ELSE {"completed", "skipped"}
      /\ \A k \in at .. Len(Steps) : statuses[k] \in {"pending", "running"}
  BY <1>1, UnderWay
<1>4. /\ ControlOK' /\ ResultsOK' /\ Tables' /\ LocalsOK' /\ NamesOK' /\ AttemptsOK'
  BY <1>1, Onwards
<1>5. StepsOK'
  <2>1. at = Len(Steps) + 1
    BY <1>1, <1>3
  <2> QED
    BY <1>1, <1>2, <1>3, <2>1, SameWorkflow DEF StepsOK, InStep, AtEnd
<1>6. PlanOK'
  BY <1>1, <1>3 DEF PlanOK
<1>7. NotesOK'
  BY <1>1, <1>2, NothingNoted DEF OfSteps
<1> QED
  BY <1>4, <1>5, <1>6, <1>7 DEF RunInv, Progress, Locals

LEMMA FailStepKeeps ==
  ASSUME RunInv, FailStep
  PROVE  RunInv'
<1>1. /\ pc \in InStep \ {"log", "send"} /\ pc \notin Ended
      /\ statuses' = [k \in 1 .. Len(Steps) |->
                       IF k < at THEN statuses[k]
                                 ELSE IF k = at THEN "failed" ELSE "skipped"]
      /\ final' = "failed" /\ pc' = "end" /\ work' = NoWork /\ faults' = faults + 1
      /\ UNCHANGED <<workflow, others, at, results, outcome, ctx, rows>>
  BY DEF FailStep, Fault, fixed, InStep, Ended
<1>2. UNCHANGED <<notes, next>>
  BY <1>1 DEF rows
<1>3. /\ workflow.kind = "steps" /\ workflow \in Workflows /\ Len(Steps) \in Nat
      /\ at \in 1 .. Len(Steps) /\ ~workflow.dry
      /\ \A k \in 1 .. at - 1 : statuses[k] \in {"completed", "skipped"}
  <2>1. pc \in {"step"} \cup InStep /\ pc \in InStep /\ pc \notin {"log", "send"}
    BY <1>1
  <2> QED
    BY <2>1, UnderWay
<1>4. /\ statuses \in [1 .. Len(Steps) -> Statuses]
      /\ outcome = [k \in 1 .. Len(Steps) |-> outcome[k]]
      /\ ResultsOK
  BY DEF RunInv, Progress, ControlOK
<1>5. /\ statuses' \in [1 .. Len(Steps) -> Statuses] /\ statuses'[at] = "failed"
      /\ \A k \in 1 .. at - 1 : statuses'[k] = statuses[k]
      /\ \A k \in at + 1 .. Len(Steps) : statuses'[k] = "skipped"
  BY <1>1, <1>3, <1>4 DEF Statuses
<1>6. ControlOK'
  BY <1>1, <1>3, <1>4, <1>5, SameWorkflow DEF ControlOK
<1>7. StepsOK'
  BY <1>1, <1>3, <1>5, SameWorkflow DEF StepsOK, InStep, AtEnd
<1>8. ResultsOK'
  BY <1>1, <1>4, ResultsStay
<1>9. PlanOK'
  BY <1>1, <1>3 DEF PlanOK
<1>10. Tables' /\ Kept /\ DataOK'
  BY <1>1, TablesStay DEF Tables
<1>11. Locals'
  BY <1>1, <1>2, <1>10, WorkOver
<1>12. NotesOK'
  <2>1. EndNotes = {} /\ EndNotes' = EndNotes
    BY <1>1, <1>2 DEF RunInv, NotesOK, EndNotes, Ended
  <2> QED
    BY <1>1, <1>2, <2>1, SameWorkflow DEF RunInv, NotesOK
<1> QED
  BY <1>6, <1>7, <1>8, <1>9, <1>10, <1>11, <1>12 DEF RunInv, Progress

\* Rows were added or went, and the mails are as they were.
LEMMA RowsChanged ==
  ASSUME RunInv, Kept, UNCHANGED mails, DataOK', notes' \in Seq(Notes),
         next.report <= next'.report, next'.report \in Nat, ~workflow.dry \/ DryRunLeavesNothing'
  PROVE  Tables'
<1>1. CountersOK'
  BY DEF Kept, CountersOK
<1>2. LogsOK'
  <2>1. mails \in Seq(Mail) /\ \A k \in 1 .. Len(mails) : mails[k].report < next.report
    BY DEF RunInv, Tables, LogsOK
  <2>2. \A k \in 1 .. Len(mails) : mails[k].report \in Nat
    <3>1. \A k \in 1 .. Len(mails) : mails[k] \in Mail
      BY <2>1, LenProperties
    <3> QED
      BY <3>1 DEF Mail
  <2>3. next.report \in Nat
    BY DEF RunInv, Locals, LocalsOK
  <2> QED
    BY <2>1, <2>2, <2>3 DEF LogsOK
<1>3. DryRunLeavesNothing'
  BY DEF DryRunLeavesNothing, Kept
<1>4. MailsAreTrue'
  BY MailsKept
<1> QED
  BY <1>1, <1>2, <1>3, <1>4 DEF Tables

\* Only the notifications have changed.
LEMMA OnlyNotes ==
  ASSUME RunInv, UNCHANGED <<workflow, others, datasets, reports, snapshots, mails, recorded, next>>,
         faults' = faults \/ faults' = faults + 1, notes' \in Seq(Notes), ~workflow.dry
  PROVE  Tables' /\ Kept /\ DataOK'
<1>1. Kept
  BY DEF Kept, RunInv, Tables, CountersOK
<1>2. DataOK'
  BY DEF RunInv, Tables, DataOK
<1>3. next.report <= next'.report /\ next'.report \in Nat
  BY DEF RunInv, Locals, LocalsOK
<1> QED
  BY <1>1, <1>2, <1>3, RowsChanged

LEMMA NotifyStepKeeps ==
  ASSUME RunInv, NotifyStep
  PROVE  RunInv'
<1>1. PICK sent \in BOOLEAN :
        /\ pc = "notify" /\ StepOver("completed", Result("completed", Text(sent)))
        /\ \/ notes' = Append(notes, "step") /\ faults' = faults
           \/ notes' = notes /\ faults' = faults + 1
        /\ UNCHANGED <<workflow, others, ctx, datasets, reports, snapshots, mails, recorded, next>>
  BY DEF NotifyStep, fixed, Fault
<1>2. workflow.kind = "steps" /\ at <= Len(Steps) /\ ~workflow.dry /\ pc \in InStep
  BY <1>1, UnderWay DEF InStep
<1>3. Progress' /\ pc' = "step" /\ work' = NoWork /\ final' = final
  BY <1>1, <1>2, StepDone DEF Result, Text
<1>4. Told
  BY <1>1, <1>2 DEF RunInv, Progress, StepsOK
<1>5. NotesOK' /\ notes' \in Seq(Notes)
  <2>1. CASE notes' = Append(notes, "step")
    BY <1>1, <1>3, <1>4, <2>1, Noted
  <2>2. CASE notes' = notes
    BY <1>1, <1>3, <2>2, NothingNoted DEF RunInv, Tables, LogsOK
  <2> QED
    BY <1>1, <2>1, <2>2
<1>6. Tables' /\ Kept /\ DataOK'
  BY <1>1, <1>2, <1>5, OnlyNotes
<1>7. Locals'
  BY <1>1, <1>3, <1>6, WorkOver
<1> QED
  BY <1>3, <1>5, <1>6, <1>7 DEF RunInv

LEMMA DatasetIs ==
  ASSUME RunInv
  PROVE  /\ Dataset \in datasets \cup {0} /\ Dataset \in 0 .. next.dataset - 1
         /\ workflow.dataset # 0 => Dataset \in {0, workflow.dataset}
<1>1. PICK n \in Nat : n = next.dataset - 1
  BY DEF RunInv, Locals, LocalsOK
<1>2. datasets \cup {0} \in SUBSET (0 .. n)
  BY <1>1 DEF RunInv, Tables, DataOK
<1>3. Max(datasets \cup {0}) \in datasets \cup {0}
  BY <1>2, Greatest
<1>4. Dataset \in datasets \cup {0}
  BY <1>3 DEF Dataset
<1>5. workflow.dataset # 0 => Dataset \in {0, workflow.dataset}
  BY DEF Dataset
<1> QED
  BY <1>1, <1>2, <1>4, <1>5

\* A step goes to work on a dataset: its report, or one that was left.
LEMMA Loaded ==
  ASSUME RunInv, UNCHANGED <<workflow, others, control, rows, faults>>,
         pc \in {"generate", "email"}, Dataset # 0,
         \/ work' = Work(Dataset, Dataset, 0) /\ pc' = "save"
         \/ work' = Work(Dataset, ctx.of, ctx.id) /\ pc' = "log" /\ ctx.of # 0
  PROVE  RunInv'
<1>1. UNCHANGED <<at, statuses, results, outcome, ctx, final, notes, datasets, reports, next>>
  BY DEF control, rows
<1>2. workflow.kind = "steps"
  BY UnderWay DEF InStep
<1>3. Progress'
  BY <1>2, Walk DEF InStep
<1>4. Tables' /\ Kept
  BY TablesStay
<1>5. NotesOK'
  BY <1>1, NothingNoted
<1>6. /\ next.dataset \in Nat \ {0} /\ next.report \in Nat \ {0}
      /\ ctx.of \in 0 .. next.dataset - 1 /\ ctx.id \in 0 .. next.report - 1
      /\ Dataset \in 0 .. next.dataset - 1 /\ (workflow.dataset # 0 => Dataset \in {0, workflow.dataset})
  BY DatasetIs DEF RunInv, Locals, LocalsOK
<1>7. PICK of, id : /\ work' = [dataset |-> Dataset, of |-> of, id |-> id, attempt |-> 0]
                    /\ \/ of = Dataset /\ id = 0
                       \/ of = ctx.of /\ id = ctx.id /\ ctx.of # 0
  BY DEF Work
<1>8. LocalsOK'
  BY <1>1, <1>6, <1>7 DEF RunInv, Locals, LocalsOK
<1>9. NamesOK'
  <2>1. Stable' = Stable
    BY DEF Stable
  <2>2. Stable => of = Dataset
    BY <1>6, <1>7 DEF RunInv, Locals, NamesOK, Stable
  <2>3. Stable /\ workflow.dataset # 0 => {of, ctx.of} \subseteq {0, workflow.dataset}
    BY <1>6, <2>2 DEF RunInv, Locals, NamesOK
  <2>4. id \in DOMAIN reports => reports[id] = of
    <3>1. 0 \notin DOMAIN reports
      BY <1>6 DEF RunInv, Tables, DataOK
    <3> QED
      BY <1>7, <3>1 DEF RunInv, Locals, NamesOK
  <2> QED
    BY <1>1, <1>7, <2>1, <2>2, <2>3, <2>4 DEF RunInv, Locals, NamesOK
<1>10. AttemptsOK'
  BY <1>7 DEF AttemptsOK
<1> QED
  BY <1>3, <1>4, <1>5, <1>8, <1>9, <1>10 DEF RunInv, Locals

LEMMA LoadForReportKeeps ==
  ASSUME RunInv, LoadForReport
  PROVE  RunInv'
<1>1. pc = "generate" /\ UNCHANGED <<workflow, others, rows, faults>>
  BY DEF LoadForReport, fixed
<1>2. CASE Dataset = 0
  <2>1. StepOver("completed", Result("completed", Unresolved)) /\ ctx' = NoCtx
    BY <1>2 DEF LoadForReport, LeaveReport, NoCtx
  <2>2. workflow.kind = "steps" /\ at <= Len(Steps) /\ ~workflow.dry /\ pc \in InStep
    BY <1>1, UnderWay DEF InStep
  <2>3. Progress' /\ pc' = "step" /\ work' = NoWork /\ final' = final
    BY <1>1, <2>1, <2>2, StepDone DEF Result
  <2> QED
    BY <1>1, <2>1, <2>2, <2>3, QuietStep
<1>3. CASE Dataset # 0
  <2>1. work' = Work(Dataset, Dataset, 0) /\ pc' = "save" /\ UNCHANGED control
    BY <1>3 DEF LoadForReport
  <2> QED
    BY <1>1, <1>3, <2>1, Loaded
<1> QED
  BY <1>2, <1>3

LEMMA LoadForMailKeeps ==
  ASSUME RunInv, LoadForMail
  PROVE  RunInv'
<1>1. pc = "email" /\ UNCHANGED <<workflow, others, rows, faults>>
  BY DEF LoadForMail, fixed
<1>2. CASE Dataset = 0
  <2>1. StepOver("completed", Result("completed", Unresolved)) /\ ctx' = ctx
    BY <1>2 DEF LoadForMail
  <2>2. workflow.kind = "steps" /\ at <= Len(Steps) /\ ~workflow.dry /\ pc \in InStep
    BY <1>1, UnderWay DEF InStep
  <2>3. Progress' /\ pc' = "step" /\ work' = NoWork /\ final' = final
    BY <1>1, <2>1, <2>2, StepDone DEF Result
  <2> QED
    BY <1>1, <2>1, <2>2, <2>3, QuietStep
<1>3. CASE Dataset # 0
  <2>1. /\ \/ work' = Work(Dataset, Dataset, 0) /\ pc' = "save"
           \/ work' = Work(Dataset, ctx.of, ctx.id) /\ pc' = "log" /\ ctx.of # 0
        /\ UNCHANGED control
    BY <1>3 DEF LoadForMail
  <2> QED
    BY <1>1, <1>3, <2>1, Loaded
<1> QED
  BY <1>2, <1>3

LEMMA PcOfSave ==
  ASSUME RunInv, pc \in {"save", "note", "snapshot"}
  PROVE  /\ workflow.kind = "steps" /\ at <= Len(Steps) /\ ~workflow.dry /\ pc \in InStep
         /\ pc \notin Ended /\ work.attempt = 0 /\ work.id \in Nat /\ work.of \in Nat
<1>1. pc \in InStep /\ pc \notin {"log", "send"} /\ pc \notin Ended
  BY DEF InStep, Ended
<1>2. work.attempt = 0 /\ work.id \in Nat /\ work.of \in Nat
  BY DEF RunInv, Locals, AttemptsOK, LocalsOK
<1> QED
  BY <1>1, <1>2, UnderWay

\* The report is made: what is saved of it, and where the step goes on.
LEMMA ReportLeft ==
  ASSUME RunInv, Kept, pc \in {"save", "note", "snapshot"}, UNCHANGED <<next, notes>>,
         Tables', DataOK',
         \/ /\ pc' = "log" \/ (pc' = "snapshot" /\ pc = "note")
            /\ UNCHANGED <<control, work>>
         \/ LeaveReport(work.of, 0) \/ LeaveReport(work.of, work.id)
  PROVE  RunInv'
<1>1. workflow' = workflow
  BY DEF Kept
<1>2. /\ workflow.kind = "steps" /\ at <= Len(Steps) /\ ~workflow.dry /\ pc \in InStep
      /\ pc \notin Ended /\ work.attempt = 0
  BY PcOfSave
<1>3. CASE /\ pc' = "log" \/ (pc' = "snapshot" /\ pc = "note")
           /\ UNCHANGED <<control, work>>
  <2>1. UNCHANGED <<ctx, final>>
    BY <1>3 DEF control
  <2>2. pc' \in InStep \ {"notify"}
    BY <1>3 DEF InStep
  <2>3. Progress'
    BY <1>1, <1>2, <1>3, <2>2, Walk
  <2>4. LocalsOK' /\ NamesOK'
    BY <1>3, <2>1, WorkLeft
  <2>5. AttemptsOK'
    BY <1>2, <1>3 DEF AttemptsOK
  <2>6. NotesOK'
    BY <1>1, <1>2, <1>3, <2>1, NothingNoted DEF Ended
  <2> QED
    BY <2>3, <2>4, <2>5, <2>6 DEF RunInv, Locals
<1>4. CASE LeaveReport(work.of, 0) \/ LeaveReport(work.of, work.id)
  <2>1. /\ StepOver("completed", Result("completed", Unresolved))
        /\ ctx' = [of |-> work.of, id |-> work.id] \/ ctx' = [of |-> work.of, id |-> 0]
    BY <1>4 DEF LeaveReport
  <2>2. Progress' /\ pc' = "step" /\ work' = NoWork /\ final' = final
    BY <1>1, <1>2, <2>1, StepDone DEF Result
  <2>3. Locals'
    BY <2>1, <2>2, WorkOver
  <2>4. NotesOK'
    BY <1>1, <1>2, <2>2, NothingNoted DEF Ended
  <2> QED
    BY <2>2, <2>3, <2>4 DEF RunInv
<1> QED
  BY <1>3, <1>4

LEMMA SaveReportKeeps ==
  ASSUME RunInv, SaveReport
  PROVE  RunInv'
<1>1. /\ pc = "save" /\ UNCHANGED <<workflow, others, datasets, snapshots, notes, mails, recorded>>
      /\ faults' = faults \/ faults' = faults + 1
  BY DEF SaveReport, fixed, Fault
<1>2. /\ workflow.kind = "steps" /\ at <= Len(Steps) /\ ~workflow.dry /\ pc \in InStep
      /\ pc \notin Ended /\ work.attempt = 0 /\ work.of \in Nat
  BY <1>1, PcOfSave
<1>3. /\ next = [dataset |-> next.dataset, report |-> next.report]
      /\ next.dataset \in Nat \ {0} /\ next.report \in Nat \ {0}
      /\ ctx.of \in 0 .. next.dataset - 1 /\ ctx.id \in 0 .. next.report - 1
      /\ work = [dataset |-> work.dataset, of |-> work.of, id |-> work.id, attempt |-> work.attempt]
      /\ work.dataset \in 0 .. next.dataset - 1 /\ work.of \in 0 .. next.dataset - 1
  BY DEF RunInv, Locals, LocalsOK
<1>4. /\ datasets \subseteq 1 .. next.dataset - 1 /\ DOMAIN reports \subseteq 1 .. next.report - 1
      /\ snapshots \subseteq 1 .. next.report - 1 /\ notes \in Seq(Notes)
  BY DEF RunInv, Tables, DataOK, LogsOK
<1>5. CASE /\ reports' = Put(reports, next.report, work.of)
           /\ next' = [next EXCEPT !.report = @ + 1]
           /\ work' = [work EXCEPT !.id = next.report]
           /\ pc' \in {"snapshot", "note"}
           /\ UNCHANGED <<control, faults>>
  <2>1. next' = [dataset |-> next.dataset, report |-> next.report + 1]
    BY <1>3, <1>5
  <2>2. work' = [dataset |-> work.dataset, of |-> work.of, id |-> next.report, attempt |-> 0]
    BY <1>2, <1>3, <1>5
  <2>3. /\ DOMAIN reports' = DOMAIN reports \cup {next.report} /\ reports'[next.report] = work.of
        /\ \A r \in DOMAIN reports : r # next.report => reports'[r] = reports[r]
    BY <1>5 DEF Put
  <2>4. UNCHANGED <<ctx, final>>
    BY <1>5 DEF control
  <2>5. Kept
    BY <1>1, <1>3, <1>4, <1>5, <2>3 DEF Kept, RunInv, Tables, CountersOK
  <2>6. DataOK'
    BY <1>1, <1>3, <1>4, <2>1, <2>3 DEF DataOK
  <2>7. Tables'
    BY <1>1, <1>2, <1>3, <1>4, <2>1, <2>5, <2>6, RowsChanged
  <2>8. Progress'
    BY <1>1, <1>2, <1>5, Walk DEF InStep
  <2>9. LocalsOK'
    BY <1>3, <2>1, <2>2, <2>4 DEF LocalsOK
  <2>10. NamesOK'
    <3>1. Stable' = Stable
      BY <1>1 DEF Stable
    <3>2. ctx.id \in DOMAIN reports' => ctx.id \in DOMAIN reports /\ reports'[ctx.id] = reports[ctx.id]
      BY <1>3, <2>3
    <3> QED
      BY <1>1, <2>1, <2>2, <2>3, <2>4, <3>1, <3>2 DEF RunInv, Locals, NamesOK
  <2>11. AttemptsOK'
    BY <1>5, <2>2 DEF AttemptsOK
  <2>12. NotesOK'
    BY <1>1, <1>2, <1>5, <2>4, NothingNoted DEF Ended
  <2> QED
    BY <2>7, <2>8, <2>9, <2>10, <2>11, <2>12 DEF RunInv, Locals
<1>6. CASE /\ UNCHANGED <<reports, next>>
           /\ \/ pc' = "log" /\ UNCHANGED <<control, work>>
              \/ LeaveReport(work.of, 0)
  <2>1. Tables' /\ Kept /\ DataOK'
    BY <1>1, <1>2, <1>4, <1>6, OnlyNotes
  <2> QED
    BY <1>1, <1>6, <2>1, ReportLeft
<1>7. \/ /\ reports' = Put(reports, next.report, work.of)
         /\ next' = [next EXCEPT !.report = @ + 1]
         /\ work' = [work EXCEPT !.id = next.report]
         /\ pc' \in {"snapshot", "note"}
         /\ UNCHANGED <<control, faults>>
      \/ /\ UNCHANGED <<reports, next>>
         /\ \/ pc' = "log" /\ UNCHANGED <<control, work>>
            \/ LeaveReport(work.of, 0)
  BY DEF SaveReport
<1> QED
  BY <1>5, <1>6, <1>7

LEMMA NoteReportKeeps ==
  ASSUME RunInv, NoteReport
  PROVE  RunInv'
<1>1. /\ pc = "note" /\ pc' = "snapshot"
      /\ notes' = notes \/ notes' = Append(notes, "report")
      /\ UNCHANGED <<workflow, others, control, work, datasets, reports, snapshots, mails,
                     recorded, next, faults>>
  BY DEF NoteReport, fixed
<1>2. /\ workflow.kind = "steps" /\ at <= Len(Steps) /\ ~workflow.dry /\ pc \in InStep
      /\ pc \notin Ended /\ work.attempt = 0
  BY <1>1, PcOfSave
<1>3. UNCHANGED <<ctx, final>>
  BY <1>1 DEF control
<1>4. NotesOK' /\ notes' \in Seq(Notes)
  <2>1. CASE notes' = Append(notes, "report")
    BY <1>1, <1>2, <2>1, Noted DEF Ended
  <2>2. CASE notes' = notes
    BY <1>1, <1>2, <1>3, <2>2, NothingNoted DEF RunInv, Tables, LogsOK, Ended
  <2> QED
    BY <1>1, <2>1, <2>2
<1>5. Tables' /\ Kept /\ DataOK'
  BY <1>1, <1>2, <1>4, OnlyNotes
<1>6. Progress'
  BY <1>1, <1>2, Walk DEF InStep
<1>7. LocalsOK' /\ NamesOK'
  BY <1>1, <1>3, <1>5, WorkLeft
<1>8. AttemptsOK'
  BY <1>1, <1>2 DEF AttemptsOK
<1> QED
  BY <1>4, <1>5, <1>6, <1>7, <1>8 DEF RunInv, Locals

LEMMA SaveSnapshotKeeps ==
  ASSUME RunInv, SaveSnapshot
  PROVE  RunInv'
<1>1. /\ pc = "snapshot"
      /\ snapshots' = IF work.id \in DOMAIN reports /\ work.dataset \in datasets
                        THEN snapshots \cup {work.id} ELSE snapshots
      /\ \/ pc' = "log" /\ UNCHANGED <<control, work>>
         \/ LeaveReport(work.of, work.id)
      /\ UNCHANGED <<workflow, others, datasets, reports, notes, mails, recorded, next, faults>>
  BY DEF SaveSnapshot, fixed
<1>2. ~workflow.dry
  BY <1>1, PcOfSave
<1>3. /\ DOMAIN reports \subseteq 1 .. next.report - 1 /\ notes \in Seq(Notes)
      /\ next.report \in Nat
  BY DEF RunInv, Tables, Locals, DataOK, LogsOK, LocalsOK
<1>4. Kept
  BY <1>1 DEF Kept, RunInv, Tables, CountersOK
<1>5. DataOK'
  BY <1>1, <1>3 DEF DataOK, RunInv, Tables
<1>6. Tables'
  BY <1>1, <1>2, <1>3, <1>4, <1>5, RowsChanged
<1> QED
  BY <1>1, <1>4, <1>5, <1>6, ReportLeft

-----------------------------------------------------------------------------
(***************************************************************************)
(* Mail, for both runners.                                                 *)
(***************************************************************************)
LEMMA PcOfMail ==
  ASSUME RunInv, pc \in {"log", "send", "tell"}
  PROVE  /\ workflow.kind \in {"steps", "plan"} /\ at <= Len(Steps) /\ ~workflow.dry
         /\ pc \in InStep /\ pc \notin Ended
         /\ workflow.kind = "plan" => pc \in InPlan
<1>1. pc \in InStep /\ pc \notin Ended
  BY DEF InStep, Ended
<1>2. /\ workflow \in Workflows /\ workflow.kind \in {"steps", "plan"} /\ at \in 1 .. Len(Steps)
      /\ Len(Steps) \in Nat /\ (pc \notin {"log", "send"} => workflow.kind = "steps")
      /\ (workflow.kind = "steps" => ~workflow.dry)
  BY <1>1, UnderWay
<1>3. workflow.kind = "plan" => ~workflow.dry
  BY <1>2, Definitions
<1>4. workflow.kind = "plan" => pc \in InPlan
  BY <1>2 DEF InPlan
<1> QED
  BY <1>1, <1>2, <1>3, <1>4

LEMMA MailOverKeeps ==
  ASSUME RunInv, Kept, UNCHANGED next, DataOK', pc \in {"log", "send", "tell"},
         NEW sent \in BOOLEAN, MailOver(sent)
  PROVE  /\ Progress' /\ Locals' /\ final' = final
         /\ pc' \notin Ended
<1>1. workflow' = workflow
  BY DEF Kept
<1>2. /\ workflow.kind \in {"steps", "plan"} /\ at <= Len(Steps) /\ ~workflow.dry
      /\ pc \in InStep /\ pc \notin Ended
      /\ workflow.kind = "plan" => pc \in InPlan
  BY PcOfMail
<1>3. CASE workflow.kind = "plan"
  <2>1. pc' = "plan done" /\ UNCHANGED <<control, work>>
    BY <1>3 DEF MailOver
  <2>2. UNCHANGED <<ctx, final>>
    BY <2>1 DEF control
  <2>3. Progress'
    BY <1>1, <1>2, <1>3, <2>1, Walk DEF InPlan
  <2>4. LocalsOK' /\ NamesOK'
    BY <2>1, <2>2, WorkLeft
  <2>5. AttemptsOK'
    BY <2>1 DEF RunInv, Locals, AttemptsOK
  <2> QED
    BY <2>1, <2>2, <2>3, <2>4, <2>5 DEF Locals, Ended
<1>4. CASE workflow.kind = "steps"
  <2>1. StepOver("completed", Result("completed", Text(sent))) /\ ctx' = ctx
    BY <1>4 DEF MailOver
  <2>2. Progress' /\ pc' = "step" /\ work' = NoWork /\ final' = final
    BY <1>1, <1>2, <1>4, <2>1, StepDone DEF Result, Text
  <2>3. Locals'
    BY <2>1, <2>2, WorkOver
  <2> QED
    BY <2>2, <2>3 DEF Ended
<1> QED
  BY <1>2, <1>3, <1>4

LEMMA NoRecipientKeeps ==
  ASSUME RunInv, NoRecipient
  PROVE  RunInv'
<1>1. pc = "log" /\ MailOver(FALSE) /\ UNCHANGED <<workflow, others, rows, faults>>
  BY DEF NoRecipient, fixed
<1>2. UNCHANGED <<notes, next>>
  BY <1>1 DEF rows
<1>3. Tables' /\ Kept /\ DataOK'
  BY <1>1, TablesStay DEF Tables
<1>4. Progress' /\ Locals' /\ final' = final /\ pc' \notin Ended
  BY <1>1, <1>2, <1>3, MailOverKeeps
<1>5. NotesOK'
  BY <1>1, <1>2, <1>4, NothingNoted DEF Ended
<1> QED
  BY <1>3, <1>4, <1>5 DEF RunInv

\* The mails have changed, and nothing else has.
LEMMA MailsChanged ==
  ASSUME RunInv, Kept, UNCHANGED <<datasets, reports, snapshots, notes, next>>, ~workflow.dry,
         mails' \in Seq(Mail), \A k \in 1 .. Len(mails') : mails'[k].report < next.report,
         EachMailTrue'
  PROVE  Tables' /\ DataOK'
<1>1. CountersOK' /\ DataOK'
  BY DEF Kept, CountersOK, RunInv, Tables, DataOK
<1>2. LogsOK'
  BY DEF RunInv, Tables, LogsOK
<1>3. DryRunLeavesNothing'
  BY DEF DryRunLeavesNothing, Kept
<1>4. MailsAreTrue'
  BY MailByMail, PTL
<1> QED
  BY <1>1, <1>2, <1>3, <1>4 DEF Tables

\* Each mail is one of those there were, or this one.
LEMMA OneMailChanged ==
  ASSUME RunInv, Kept, NEW new, MailTrue(new)',
         \A k \in 1 .. Len(mails') :
           mails'[k] = new \/ (k \in 1 .. Len(mails) /\ mails'[k] = mails[k])
  PROVE  EachMailTrue'
<1>1. \A k \in 1 .. Len(mails) : mails[k] \in Mail /\ mails[k].report < next.report /\ MailTrue(mails[k])
  <2>1. mails \in Seq(Mail) /\ EachMailTrue /\ \A k \in 1 .. Len(mails) : mails[k].report < next.report
    BY MailByMail DEF RunInv, Tables, LogsOK
  <2> QED
    BY <2>1, LenProperties DEF EachMailTrue
<1>2. ASSUME NEW mail \in Mail, mail.report < next.report, MailTrue(mail)
      PROVE  MailTrue(mail)'
  BY <1>2, MailKept DEF RunInv, Tables
<1>3. \A k \in 1 .. Len(mails') : MailTrue(mails[k])'
  <2> TAKE k \in 1 .. Len(mails')
  <2>1. PICK mail : mail = mails'[k]
    OBVIOUS
  <2>2. MailTrue(mail)'
    BY <1>1, <1>2, <2>1
  <2> QED
    BY <2>1, <2>2 DEF MailTrue
<1> QED
  BY <1>3 DEF EachMailTrue

LEMMA MailTypes ==
  ASSUME RunInv
  PROVE  mails \in Seq(Mail) /\ \A k \in 1 .. Len(mails) : mails[k] \in Mail /\ mails[k].report < next.report
<1>1. mails \in Seq(Mail) /\ \A k \in 1 .. Len(mails) : mails[k].report < next.report
  BY DEF RunInv, Tables, LogsOK
<1> QED
  BY <1>1, LenProperties

LEMMA AppendedMail ==
  ASSUME NEW new \in Mail, mails \in Seq(Mail), mails' = Append(mails, new)
  PROVE  /\ mails' \in Seq(Mail) /\ mails' # <<>> /\ mails'[Len(mails')] = new
         /\ \A k \in 1 .. Len(mails') :
              mails'[k] = new \/ (k \in 1 .. Len(mails) /\ mails'[k] = mails[k])
  BY Appended

LEMMA LogMailKeeps ==
  ASSUME RunInv, LogMail
  PROVE  RunInv'
<1>1. PICK logged \in BOOLEAN :
        /\ IF work.id = 0 \/ work.id \in DOMAIN reports
             THEN (logged /\ UNCHANGED faults) \/ (~logged /\ Fault)
             ELSE ~logged /\ UNCHANGED faults
        /\ mails' = Append(mails, [of |-> work.of, names |-> work.dataset,
             report |-> work.id, logged |-> logged, status |-> "pending",
             attempts |-> 0, delivered |-> 0, lost |-> 0])
  BY DEF LogMail
<1>2. /\ pc = "log" /\ pc' = "send"
      /\ UNCHANGED <<workflow, others, control, work, datasets, reports, snapshots, notes, recorded, next>>
  BY DEF LogMail, fixed
<1>3. /\ workflow.kind \in {"steps", "plan"} /\ at <= Len(Steps) /\ ~workflow.dry
      /\ pc \in InStep /\ pc \notin Ended
      /\ workflow.kind = "plan" => pc \in InPlan
  BY <1>2, PcOfMail
<1>4. /\ work.of \in Nat /\ work.dataset \in Nat /\ work.id \in Nat /\ work.id < next.report
      /\ work.attempt = 0 /\ next.report \in Nat /\ faults \in Nat
  <2>1. work.attempt = 0
    BY <1>2 DEF RunInv, Locals, AttemptsOK
  <2>2. /\ next.dataset \in Nat \ {0} /\ next.report \in Nat \ {0}
        /\ work.dataset \in 0 .. next.dataset - 1 /\ work.of \in 0 .. next.dataset - 1
        /\ work.id \in 0 .. next.report - 1
    BY DEF RunInv, Locals, LocalsOK
  <2> QED
    BY <2>1, <2>2 DEF RunInv, Tables, CountersOK
<1>5. PICK new : new = [of |-> work.of, names |-> work.dataset,
             report |-> work.id, logged |-> logged, status |-> "pending",
             attempts |-> 0, delivered |-> 0, lost |-> 0]
  OBVIOUS
<1>6. /\ new.of = work.of /\ new.names = work.dataset /\ new.report = work.id /\ new.logged = logged
      /\ new.status = "pending" /\ new.attempts = 0 /\ new.delivered = 0 /\ new.lost = 0
  BY <1>5
<1>7. new \in Mail
  BY <1>4, <1>5 DEF Mail, MailStatuses
<1>8. /\ faults' = faults \/ faults' = faults + 1
      /\ ~logged => faults' = faults + 1 \/ (work.id # 0 /\ work.id \notin DOMAIN reports)
  BY <1>1 DEF Fault
<1>9. Kept
  BY <1>2, <1>8 DEF Kept, RunInv, Tables, CountersOK
<1>10. MailTrue(new)'
  <2>1. Stable' = Stable
    BY <1>2 DEF Stable
  <2>2. Stable => new.of = new.names
    BY <1>6 DEF RunInv, Locals, NamesOK
  <2>3. new.report \in DOMAIN reports => reports[new.report] = new.of
    BY <1>6 DEF RunInv, Locals, NamesOK
  <2>4. ~new.logged => faults' > 0 \/ (new.report # 0 /\ new.report \notin DOMAIN reports)
    BY <1>4, <1>6, <1>8
  <2>5. new.delivered <= new.attempts /\ new.attempts <= MaxRetries + 1 /\ new.delivered <= new.lost + 1
    BY <1>6, WorkflowAssumption
  <2> QED
    BY <1>2, <1>6, <2>1, <2>2, <2>3, <2>4, <2>5 DEF MailTrue
<1>11. mails \in Seq(Mail) /\ \A k \in 1 .. Len(mails) : mails[k].report < next.report
  BY MailTypes
<1>12. mails' = Append(mails, new)
  BY <1>1, <1>5
<1>13. /\ mails' \in Seq(Mail) /\ mails' # <<>> /\ mails'[Len(mails')] = new
       /\ \A k \in 1 .. Len(mails') :
            mails'[k] = new \/ (k \in 1 .. Len(mails) /\ mails'[k] = mails[k])
  BY <1>7, <1>11, <1>12, AppendedMail
<1>14. EachMailTrue'
  BY <1>9, <1>10, <1>13, OneMailChanged
<1>15. Tables' /\ DataOK'
  <2>1. \A k \in 1 .. Len(mails') : mails'[k].report < next.report
    BY <1>4, <1>6, <1>11, <1>13
  <2> QED
    BY <1>2, <1>3, <1>9, <1>13, <1>14, <2>1, MailsChanged
<1>16. UNCHANGED <<ctx, final>>
  BY <1>2 DEF control
<1>17. Progress'
  BY <1>2, <1>3, Walk DEF InStep, InPlan
<1>18. LocalsOK' /\ NamesOK'
  BY <1>2, <1>9, <1>16, WorkLeft
<1>19. AttemptsOK'
  BY <1>2, <1>4, <1>6, <1>13, WorkflowAssumption DEF AttemptsOK
<1>20. NotesOK'
  BY <1>2, <1>3, <1>16, NothingNoted DEF Ended
<1> QED
  BY <1>15, <1>17, <1>18, <1>19, <1>20 DEF RunInv, Locals

LEMMA MailRecord ==
  \A mail \in Mail, status \in MailStatuses, attempts, copies, lost \in Nat :
    LET new == Updated(mail, status, attempts, copies, lost)
    IN  /\ new \in Mail /\ mail.delivered \in Nat /\ mail.lost \in Nat
        /\ new.of = mail.of /\ new.names = mail.names /\ new.report = mail.report
        /\ new.logged = mail.logged /\ new.status = status /\ new.attempts = attempts
        /\ new.delivered = mail.delivered + copies /\ new.lost = mail.lost + lost
<1> SUFFICES ASSUME NEW mail \in Mail, NEW status \in MailStatuses,
                    NEW attempts \in Nat, NEW copies \in Nat, NEW lost \in Nat, NEW new,
                    new = Updated(mail, status, attempts, copies, lost)
    PROVE  /\ new \in Mail /\ mail.delivered \in Nat /\ mail.lost \in Nat
           /\ new.of = mail.of /\ new.names = mail.names /\ new.report = mail.report
           /\ new.logged = mail.logged /\ new.status = status /\ new.attempts = attempts
           /\ new.delivered = mail.delivered + copies /\ new.lost = mail.lost + lost
  OBVIOUS
<1>1. /\ mail.of \in Nat /\ mail.names \in Nat /\ mail.report \in Nat /\ mail.logged \in BOOLEAN
      /\ mail.delivered \in Nat /\ mail.lost \in Nat
  BY DEF Mail
<1>2. mail = [of |-> mail.of, names |-> mail.names, report |-> mail.report,
              logged |-> mail.logged, status |-> mail.status, attempts |-> mail.attempts,
              delivered |-> mail.delivered, lost |-> mail.lost]
  BY DEF Mail
<1>3. PICK delivered \in Nat, gone \in Nat :
        delivered = mail.delivered + copies /\ gone = mail.lost + lost
  BY <1>1
<1>4. new = [of |-> mail.of, names |-> mail.names, report |-> mail.report,
             logged |-> mail.logged, status |-> status, attempts |-> attempts,
             delivered |-> delivered, lost |-> gone]
  BY <1>2, <1>3 DEF Updated
<1>5. new \in Mail
  BY <1>1, <1>4 DEF Mail
<1> QED
  BY <1>1, <1>3, <1>4, <1>5

LEMMA ReplacedMail ==
  ASSUME NEW new \in Mail, mails \in Seq(Mail), mails # <<>>,
         mails' = [mails EXCEPT ![Len(mails)] = new]
  PROVE  /\ mails' \in Seq(Mail) /\ mails' # <<>> /\ mails'[Len(mails')] = new
         /\ Len(mails) \in 1 .. Len(mails)
         /\ \A k \in 1 .. Len(mails') :
              mails'[k] = new \/ (k \in 1 .. Len(mails) /\ mails'[k] = mails[k])
<1>1. Len(mails) \in 1 .. Len(mails)
  BY EmptySeq, LenProperties
<1>2. /\ mails' \in Seq(Mail) /\ Len(mails') = Len(mails)
      /\ \A k \in 1 .. Len(mails) : mails'[k] = IF k = Len(mails) THEN new ELSE mails[k]
  BY <1>1, ExceptSeq
<1>3. mails' # <<>>
  BY <1>1, <1>2
<1> QED
  BY <1>1, <1>2, <1>3

\* An attempt is written into the row of the mail that is on its way.
Attempted(status, attempts, copies, lost) ==
  /\ pc = "send" /\ Logged(status, attempts, copies, lost)
  /\ UNCHANGED <<workflow, others, datasets, reports, snapshots, notes, recorded, next, faults>>
  /\ attempts <= MaxRetries + 1 /\ work.attempt + copies <= attempts
  /\ status = "sent" => copies = 1

LEMMA AttemptedKeeps ==
  ASSUME RunInv,
         NEW status \in MailStatuses, NEW attempts \in Nat,
         NEW copies \in 0 .. 1, NEW lost \in 0 .. 1,
         Attempted(status, attempts, copies, lost)
  PROVE  /\ Tables' /\ DataOK' /\ Kept
         /\ mails' # <<>>
         /\ LET new == mails'[Len(mails')]
            IN  /\ new.status = status /\ new.attempts = attempts
                /\ copies = lost => new.delivered = new.lost
                /\ new.delivered <= new.attempts
<1>1. PICK mail : mail = mails[Len(mails)]
  OBVIOUS
<1>2. /\ mails # <<>> /\ mail.attempts = work.attempt
      /\ mail.delivered = mail.lost /\ mail.delivered <= mail.attempts
  BY <1>1 DEF RunInv, Locals, AttemptsOK, Attempted
<1>3. mails \in Seq(Mail) /\ \A k \in 1 .. Len(mails) : mails[k] \in Mail /\ mails[k].report < next.report
  BY MailTypes
<1>4. Len(mails) \in 1 .. Len(mails)
  BY <1>2, <1>3, EmptySeq, LenProperties
<1>5. mail \in Mail /\ mail.report < next.report /\ MailTrue(mail)
  BY <1>1, <1>3, <1>4, MailByMail DEF RunInv, Tables, EachMailTrue
<1>6. PICK new : new = Updated(mail, status, attempts, copies, lost)
  OBVIOUS
<1>7. /\ new \in Mail /\ mail.delivered \in Nat /\ mail.lost \in Nat
      /\ new.of = mail.of /\ new.names = mail.names /\ new.report = mail.report
      /\ new.logged = mail.logged /\ new.status = status /\ new.attempts = attempts
      /\ new.delivered = mail.delivered + copies /\ new.lost = mail.lost + lost
  <2>1. copies \in Nat /\ lost \in Nat
    OBVIOUS
  <2>2. mail \in Mail
    BY <1>5
  <2>3. mail.delivered \in Nat /\ mail.lost \in Nat
    BY <2>2 DEF Mail
  <2>4. new \in Mail
    BY <1>6, <2>1, <2>2, MailRecord
  <2>5. new.of = mail.of /\ new.names = mail.names /\ new.report = mail.report
    BY <1>6, <2>1, <2>2, MailRecord
  <2>6. new.logged = mail.logged /\ new.status = status
    BY <1>6, <2>1, <2>2, MailRecord
  <2>7. new.attempts = attempts
    BY <1>6, <2>2 DEF Updated, Mail
  <2>8. new.delivered = mail.delivered + copies /\ new.lost = mail.lost + lost
    BY <1>6, <2>2 DEF Updated, Mail
  <2> QED
    BY <2>3, <2>4, <2>5, <2>6, <2>7, <2>8
<1>8. mails' = [mails EXCEPT ![Len(mails)] = new]
  BY <1>1, <1>6 DEF Logged, Attempted
<1>9. /\ mails' \in Seq(Mail) /\ mails' # <<>> /\ mails'[Len(mails')] = new
      /\ \A k \in 1 .. Len(mails') :
           mails'[k] = new \/ (k \in 1 .. Len(mails) /\ mails'[k] = mails[k])
  BY <1>2, <1>3, <1>7, <1>8, ReplacedMail
<1>10. Kept
  BY DEF Kept, RunInv, Tables, CountersOK, Attempted
<1>11. work.attempt \in Nat
  BY DEF RunInv, Locals, LocalsOK
<1>12. new.delivered <= new.attempts /\ new.delivered <= new.lost + 1
  BY <1>2, <1>7, <1>11, SMTT(30) DEF Attempted
<1>13. MailTrue(new)'
  <2>1. MailTrue(mail)'
    BY <1>5, <1>10, MailKept DEF RunInv, Tables
  <2>2. new.status = "sent" => new.delivered >= 1
    BY <1>7 DEF Attempted
  <2>3. new.attempts <= MaxRetries + 1
    BY <1>7 DEF Attempted
  <2> QED
    BY <1>7, <1>12, <2>1, <2>2, <2>3 DEF MailTrue
<1>14. EachMailTrue'
  BY <1>9, <1>10, <1>13, OneMailChanged
<1>15. \A k \in 1 .. Len(mails') : mails'[k].report < next.report
  BY <1>3, <1>5, <1>7, <1>9
<1>16. ~workflow.dry
  BY PcOfMail DEF Attempted
<1>17. Tables' /\ DataOK'
  BY <1>9, <1>10, <1>14, <1>15, <1>16, MailsChanged DEF Attempted
<1>18. copies = lost => new.delivered = new.lost
  BY <1>2, <1>7
<1> QED
  BY <1>7, <1>9, <1>10, <1>12, <1>17, <1>18

\* What is known while a mail is on its way.
LEMMA Sending ==
  ASSUME RunInv, pc = "send"
  PROVE  /\ work.attempt \in Nat /\ work.attempt <= MaxRetries /\ MaxRetries \in Nat
         /\ mode # "real" => work.attempt = 0
         /\ work = [dataset |-> work.dataset, of |-> work.of, id |-> work.id, attempt |-> work.attempt]
  BY WorkflowAssumption DEF RunInv, Locals, AttemptsOK, LocalsOK

\* Only the count of attempts in the locals changes.
LEMMA Recounted ==
  ASSUME RunInv, Kept, UNCHANGED <<ctx, next>>, NEW n \in Nat,
         work' = [work EXCEPT !.attempt = n]
  PROVE  LocalsOK' /\ NamesOK' /\ work'.attempt = n
<1>1. work = [dataset |-> work.dataset, of |-> work.of, id |-> work.id, attempt |-> work.attempt]
  BY DEF RunInv, Locals, LocalsOK
<1>2. work' = [dataset |-> work.dataset, of |-> work.of, id |-> work.id, attempt |-> n]
  BY <1>1
<1>3. LocalsOK'
  BY <1>2 DEF RunInv, Locals, LocalsOK
<1>4. others' = 0 => others = 0
  BY DEF Kept, RunInv, Tables, CountersOK
<1>5. Stable' => Stable
  BY <1>4 DEF Kept, Stable
<1>6. work.id < next.report /\ ctx.id < next.report
  BY DEF RunInv, Locals, LocalsOK
<1>7. /\ work.id \in DOMAIN reports' => work.id \in DOMAIN reports /\ reports'[work.id] = reports[work.id]
      /\ ctx.id \in DOMAIN reports' => ctx.id \in DOMAIN reports /\ reports'[ctx.id] = reports[ctx.id]
  BY <1>6 DEF Kept
<1>8. NamesOK'
  BY <1>2, <1>4, <1>5, <1>7 DEF RunInv, Locals, NamesOK, Kept
<1> QED
  BY <1>2, <1>3, <1>8

LEMMA SendOverKeeps ==
  ASSUME RunInv, Kept, UNCHANGED <<next, notes>>, Tables', DataOK', pc = "send",
         NEW sent \in BOOLEAN, SendOver(sent)
  PROVE  RunInv'
<1>1. workflow' = workflow
  BY DEF Kept
<1>2. /\ workflow.kind \in {"steps", "plan"} /\ at <= Len(Steps) /\ pc \in InStep /\ pc \notin Ended
  BY PcOfMail
<1>3. CASE workflow.kind = "plan"
  <2>1. MailOver(sent)
    BY <1>3 DEF SendOver
  <2>2. Progress' /\ Locals' /\ final' = final /\ pc' \notin Ended
    BY <2>1, MailOverKeeps
  <2>3. NotesOK'
    BY <1>1, <1>2, <2>2, NothingNoted DEF Ended
  <2> QED
    BY <2>2, <2>3 DEF RunInv
<1>4. CASE workflow.kind = "steps"
  <2>1. PICK n \in {0, 1} : work' = [work EXCEPT !.attempt = n]
    BY <1>4 DEF SendOver
  <2>2. pc' = "tell" /\ UNCHANGED control
    BY <1>4 DEF SendOver
  <2>3. UNCHANGED <<ctx, final>>
    BY <2>2 DEF control
  <2>4. Progress'
    BY <1>1, <1>2, <1>4, <2>2, Walk DEF InStep
  <2>5. LocalsOK' /\ NamesOK' /\ work'.attempt = n
    <3>1. n \in Nat
      OBVIOUS
    <3> QED
      BY <2>1, <2>3, <3>1, Recounted
  <2>6. AttemptsOK'
    BY <2>2, <2>5 DEF AttemptsOK
  <2>7. NotesOK'
    BY <1>1, <1>2, <2>2, <2>3, NothingNoted DEF Ended
  <2> QED
    BY <2>4, <2>5, <2>6, <2>7 DEF RunInv, Locals
<1> QED
  BY <1>2, <1>3, <1>4

LEMMA SendNothingKeeps ==
  ASSUME RunInv, SendNothing
  PROVE  RunInv'
<1>1. /\ pc = "send" /\ mode \in {"disabled", "unconfigured"}
      /\ Logged(IF mode = "disabled" THEN "simulated" ELSE "failed", 0, 0, 0)
      /\ SendOver(FALSE)
      /\ UNCHANGED <<workflow, others, datasets, reports, snapshots, notes, recorded, next, faults>>
  BY DEF SendNothing, fixed
<1>2. work.attempt = 0 /\ MaxRetries \in Nat
  BY <1>1, Sending
<1>3. PICK status \in {"simulated", "failed"} : Logged(status, 0, 0, 0)
  BY <1>1
<1>4. Attempted(status, 0, 0, 0) /\ status \in MailStatuses
  BY <1>1, <1>2, <1>3 DEF Attempted, MailStatuses
<1>5. Tables' /\ DataOK' /\ Kept
  BY <1>4, AttemptedKeeps, 0 \in Nat, 0 \in 0 .. 1
<1> QED
  BY <1>1, <1>5, SendOverKeeps

LEMMA ConfirmedKeeps ==
  ASSUME RunInv, Confirmed
  PROVE  RunInv'
<1>1. /\ pc = "send" /\ mode = "real" /\ Logged("sent", Attempt, 1, 0) /\ SendOver(TRUE)
      /\ UNCHANGED <<workflow, others, datasets, reports, snapshots, notes, recorded, next, faults>>
  BY DEF Confirmed, fixed
<1>2. PICK attempts : attempts = Attempt
  OBVIOUS
<1>3. /\ attempts \in Nat /\ attempts <= MaxRetries + 1 /\ work.attempt + 1 <= attempts
  BY <1>1, <1>2, Sending DEF Attempt
<1>4. PICK status : status = "sent"
  OBVIOUS
<1>5. Attempted(status, attempts, 1, 0) /\ status \in MailStatuses
  BY <1>1, <1>2, <1>3, <1>4 DEF Attempted, MailStatuses
<1>6. Tables' /\ DataOK' /\ Kept
  BY <1>3, <1>5, AttemptedKeeps, 0 \in 0 .. 1, 1 \in 0 .. 1
<1> QED
  BY <1>1, <1>6, SendOverKeeps

LEMMA RaisedKeeps ==
  ASSUME RunInv, Raised
  PROVE  RunInv'
<1>1. /\ pc = "send" /\ mode = "real"
      /\ IF Attempt <= MaxRetries
           THEN work' = [work EXCEPT !.attempt = @ + 1] /\ UNCHANGED <<pc, control>>
           ELSE SendOver(FALSE)
      /\ UNCHANGED <<workflow, others, datasets, reports, snapshots, notes, recorded, next, faults, mode>>
  BY DEF Raised, fixed
<1>2. PICK copies \in 0 .. 1 :
        Logged(IF Attempt <= MaxRetries THEN "pending" ELSE "failed", Attempt, copies, copies)
  BY DEF Raised
<1>3. PICK attempts : attempts = Attempt
  OBVIOUS
<1>4. /\ attempts \in Nat /\ attempts <= MaxRetries + 1 /\ work.attempt + copies <= attempts
      /\ attempts = work.attempt + 1
  BY <1>1, <1>3, Sending DEF Attempt
<1>5. PICK status \in {"pending", "failed"} :
        /\ Logged(status, attempts, copies, copies)
        /\ attempts <= MaxRetries => status = "pending"
  BY <1>2, <1>3
<1>6. Attempted(status, attempts, copies, copies) /\ status \in MailStatuses
  BY <1>1, <1>4, <1>5 DEF Attempted, MailStatuses
<1>7. /\ Tables' /\ DataOK' /\ Kept /\ mails' # <<>>
      /\ LET new == mails'[Len(mails')]
         IN  /\ new.status = status /\ new.attempts = attempts
             /\ new.delivered = new.lost
             /\ new.delivered <= new.attempts
  BY <1>4, <1>6, AttemptedKeeps
<1>8. CASE Attempt <= MaxRetries
  <2>1. work' = [work EXCEPT !.attempt = attempts] /\ pc' = pc /\ UNCHANGED control
    BY <1>1, <1>3, <1>8 DEF Attempt
  <2>2. UNCHANGED <<ctx, final>>
    BY <2>1 DEF control
  <2>3. /\ workflow.kind \in {"steps", "plan"} /\ at <= Len(Steps) /\ pc \in InStep
        /\ pc \notin Ended /\ (workflow.kind = "plan" => pc \in InPlan)
    BY <1>1, PcOfMail
  <2>4. Progress'
    BY <1>1, <2>1, <2>3, Walk
  <2>5. LocalsOK' /\ NamesOK' /\ work'.attempt = attempts
    BY <1>1, <1>4, <1>7, <2>1, <2>2, Recounted
  <2>6. AttemptsOK'
    BY <1>1, <1>3, <1>5, <1>7, <1>8, <2>1, <2>5 DEF AttemptsOK
  <2>7. NotesOK'
    BY <1>1, <2>1, <2>2, <2>3, NothingNoted DEF Ended
  <2> QED
    BY <1>7, <2>4, <2>5, <2>6, <2>7 DEF RunInv, Locals
<1>9. CASE ~(Attempt <= MaxRetries)
  BY <1>1, <1>7, <1>9, SendOverKeeps
<1> QED
  BY <1>8, <1>9

LEMMA TellOfMailKeeps ==
  ASSUME RunInv, TellOfMail
  PROVE  RunInv'
<1>1. /\ pc = "tell" /\ MailOver(work.attempt = 1)
      /\ UNCHANGED <<workflow, others, datasets, reports, snapshots, mails, recorded, next, faults>>
  BY DEF TellOfMail, fixed
<1>2. notes' = notes \/ \E note \in {"mail sent", "mail failed"} : notes' = Append(notes, note)
  BY DEF TellOfMail
<1>3. ~workflow.dry /\ pc \notin Ended
  BY <1>1, PcOfMail
<1>4. Kept
  BY <1>1 DEF Kept, RunInv, Tables, CountersOK
<1>5. DataOK'
  BY <1>1 DEF RunInv, Tables, DataOK
<1>6. Progress' /\ Locals' /\ final' = final /\ pc' \notin Ended
  BY <1>1, <1>4, <1>5, MailOverKeeps
<1>7. NotesOK' /\ notes' \in Seq(Notes)
  <2>1. ASSUME NEW note \in {"mail sent", "mail failed"}, notes' = Append(notes, note)
        PROVE  NotesOK' /\ notes' \in Seq(Notes)
    BY <1>1, <1>3, <1>6, <2>1, Noted DEF Ended
  <2>2. CASE notes' = notes
    BY <1>1, <1>3, <1>6, <2>2, NothingNoted DEF RunInv, Tables, LogsOK, Ended
  <2> QED
    BY <1>2, <2>1, <2>2
<1>8. Tables'
  BY <1>1, <1>3, <1>7, OnlyNotes
<1> QED
  BY <1>6, <1>7, <1>8 DEF RunInv

-----------------------------------------------------------------------------
(***************************************************************************)
(* The end of a run, and the steps of a plan.                              *)
(***************************************************************************)
\* How far the run is, where only its place changes.
LEMMA PlanWalk ==
  ASSUME RunInv, workflow.kind = "plan", UNCHANGED <<workflow, control>>,
         pc' \in InPlan \cup Ended,
         pc' \in {"plan done", "plan fails", "log", "send"} => at <= Len(Steps),
         final = "failed" => pc' \in Ended
  PROVE  Progress'
<1>1. UNCHANGED <<at, statuses, results, outcome, ctx, final>>
  BY DEF control
<1>2. ControlOK'
  BY <1>1, SameWorkflow DEF RunInv, Progress, ControlOK
<1>3. ResultsOK'
  BY <1>1, ResultsStay DEF RunInv, Progress
<1>4. StepsOK'
  BY DEF StepsOK
<1>5. \A k \in 1 .. Len(Steps) : Place(k)' = Place(k)
  BY DEF Place, Before, Steps
<1>6. /\ final = "failed" => at <= Len(Steps)
      /\ \A k \in 1 .. Len(Steps) :
           statuses[k] = IF Place(k) < at THEN "success"
                         ELSE IF Place(k) = at /\ final = "failed" THEN "failed" ELSE "pending"
  BY DEF RunInv, Progress, PlanOK
<1>7. \A k \in 1 .. Len(Steps) :
        statuses'[k] = IF Place(k)' < at' THEN "success"
                       ELSE IF Place(k)' = at' /\ final' = "failed" THEN "failed" ELSE "pending"
  BY <1>1, <1>5, <1>6
<1>8. PlanOK'
  BY <1>1, <1>6, <1>7, SameWorkflow DEF PlanOK, InPlan, Ended
<1> QED
  BY <1>2, <1>3, <1>4, <1>8 DEF Progress

LEMMA StepsWalk ==
  ASSUME RunInv, workflow.kind = "steps", UNCHANGED <<workflow, control>>,
         \/ pc \in AtEnd /\ pc' \in AtEnd /\ ~workflow.dry
         \/ pc' = "stopped"
         \/ pc' = pc
  PROVE  Progress'
<1>1. UNCHANGED <<at, statuses, results, outcome, ctx, final>>
  BY DEF control
<1>2. ControlOK'
  BY <1>1, SameWorkflow DEF RunInv, Progress, ControlOK
<1>3. ResultsOK'
  BY <1>1, ResultsStay DEF RunInv, Progress
<1>4. PlanOK'
  BY DEF PlanOK
<1>5. StepsOK'
  <2>1. CASE pc \in AtEnd /\ pc' \in AtEnd /\ ~workflow.dry
    BY <1>1, <2>1, SameWorkflow DEF RunInv, Progress, StepsOK, AtEnd, InStep
  <2>2. CASE pc' = "stopped"
    BY <1>1, <2>2, SameWorkflow DEF RunInv, Progress, StepsOK, AtEnd, InStep
  <2>3. CASE pc' = pc
    BY <1>1, <2>3, SameWorkflow DEF RunInv, Progress, StepsOK
  <2> QED
    BY <2>1, <2>2, <2>3
<1> QED
  BY <1>2, <1>3, <1>4, <1>5 DEF Progress

LEMMA PcOfEnd ==
  ASSUME RunInv, pc \in {"end", "record", "charge"}
  PROVE  /\ workflow.kind \in {"steps", "plan"} /\ ~workflow.dry /\ pc \in AtEnd
         /\ pc = "end" => workflow.kind = "steps"
<1>1. workflow \in Workflows /\ PlanOK /\ StepsOK
  BY DEF RunInv, Progress, ControlOK
<1>2. workflow.kind \in {"steps", "plan"}
  BY <1>1, Definitions
<1>3. CASE workflow.kind = "steps"
  BY <1>1, <1>2, <1>3 DEF StepsOK, AtEnd
<1>4. CASE workflow.kind = "plan"
  <2>1. ~workflow.dry
    BY <1>1, <1>4, Definitions
  <2> QED
    BY <1>1, <1>4, <2>1 DEF PlanOK, AtEnd
<1> QED
  BY <1>2, <1>3, <1>4

LEMMA EndWordIs == EndWord \in {"end completed", "end failed"} /\ EndWord \in Notes
  BY DEF EndWord, Notes

LEMMA TellEndKeeps ==
  ASSUME RunInv, TellEnd
  PROVE  RunInv'
<1>1. /\ pc = "end" /\ pc' = "record" /\ (faults' = faults \/ faults' = faults + 1)
      /\ \/ notes' = notes /\ (Told \/ faults' = faults + 1)
         \/ notes' = Append(notes, EndWord) /\ ~Told
      /\ UNCHANGED <<workflow, others, control, work, datasets, reports, snapshots, mails,
                     recorded, next>>
  BY DEF TellEnd, fixed, Fault
<1>2. workflow.kind = "steps" /\ ~workflow.dry /\ pc \in AtEnd
  BY <1>1, PcOfEnd
<1>3. UNCHANGED <<ctx, final>>
  BY <1>1 DEF control
<1>4. notes \in Seq(Notes) /\ EndNotes = {} /\ faults \in Nat
  BY <1>1 DEF RunInv, Tables, LogsOK, NotesOK, CountersOK
<1>5. EndWord' = EndWord
  BY <1>3 DEF EndWord
<1>6. NotesOK' /\ notes' \in Seq(Notes)
  <2>1. CASE notes' = notes /\ (Told \/ faults' = faults + 1)
    <3>1. EndNotes' = {}
      BY <1>4, <2>1 DEF EndNotes
    <3>2. Told' \/ faults' > 0
      BY <1>1, <1>4, <2>1, SameWorkflow
    <3> QED
      BY <1>1, <1>4, <2>1, <3>1, <3>2, SameWorkflow DEF RunInv, NotesOK
  <2>2. CASE notes' = Append(notes, EndWord) /\ ~Told
    <3>1. PICK word : word = EndWord
      OBVIOUS
    <3>2. word \in Notes
      BY <3>1, EndWordIs
    <3>3. /\ notes' \in Seq(Notes)
          /\ \A k \in 1 .. Len(notes') :
               \/ k = Len(notes') /\ notes'[k] = word
               \/ k \in 1 .. Len(notes) /\ notes'[k] = notes[k]
      BY <1>4, <2>2, <3>1, <3>2, NoteAppended
    <3>4. \A k \in EndNotes' : k = Len(notes') /\ notes'[k] = word
      BY <1>4, <3>3 DEF EndNotes
    <3>5. Len(notes') \in EndNotes'
      <4>1. notes' = Append(notes, word) /\ Len(notes) \in Nat
        BY <1>4, <2>2, <3>1, LenProperties
      <4>2. Len(notes') \in 1 .. Len(notes') /\ notes'[Len(notes')] = word
        BY <1>4, <3>2, <4>1, AppendProperties
      <4> QED
        BY <3>1, <4>2, EndWordIs DEF EndNotes
    <3>6. \A k \in 1 .. Len(notes') : notes'[k] # "step"
      <4>1. \A k \in 1 .. Len(notes) : notes[k] # "step"
        BY <2>2 DEF RunInv, NotesOK
      <4> QED
        BY <3>1, <3>3, <4>1, EndWordIs
    <3> QED
      BY <1>1, <1>5, <2>2, <3>1, <3>3, <3>4, <3>5, <3>6, SameWorkflow DEF NotesOK
  <2> QED
    BY <1>1, <2>1, <2>2
<1>7. Tables' /\ Kept
  BY <1>1, <1>2, <1>6, OnlyNotes
<1>8. Progress'
  BY <1>1, <1>2, StepsWalk DEF AtEnd
<1>9. LocalsOK' /\ NamesOK'
  BY <1>1, <1>3, <1>7, WorkLeft
<1>10. AttemptsOK'
  BY <1>1 DEF RunInv, Locals, AttemptsOK
<1> QED
  BY <1>6, <1>7, <1>8, <1>9, <1>10 DEF RunInv, Locals

\* What is recorded, or charged.
LEMMA RecordedKeeps ==
  ASSUME RunInv, faults' = faults \/ faults' = faults + 1,
         UNCHANGED <<workflow, others, control, work, datasets, reports, snapshots, notes, mails, next>>,
         \/ pc = "record" /\ pc' = "charge"
         \/ pc = "charge" /\ pc' = "done"
  PROVE  RunInv'
<1>1. workflow.kind \in {"steps", "plan"} /\ ~workflow.dry /\ pc \in AtEnd
  BY PcOfEnd
<1>2. UNCHANGED <<ctx, final, at>>
  BY DEF control
<1>3. Kept
  BY DEF Kept, RunInv, Tables, CountersOK
<1>4. DataOK' /\ notes' \in Seq(Notes)
  BY DEF RunInv, Tables, DataOK, LogsOK
<1>5. next.report <= next'.report /\ next'.report \in Nat
  BY DEF RunInv, Locals, LocalsOK
<1>6. Tables'
  BY <1>1, <1>3, <1>4, <1>5, RowsChanged
<1>7. Progress'
  <2>1. CASE workflow.kind = "steps"
    BY <1>1, <2>1, StepsWalk DEF AtEnd
  <2>2. CASE workflow.kind = "plan"
    <3>1. pc' \in Ended /\ pc' \notin {"plan done", "plan fails", "log", "send"}
      BY DEF Ended
    <3> QED
      BY <2>2, <3>1, PlanWalk
  <2> QED
    BY <1>1, <2>1, <2>2
<1>8. LocalsOK' /\ NamesOK'
  BY <1>2, <1>3, WorkLeft
<1>9. AttemptsOK'
  BY DEF RunInv, Locals, AttemptsOK
<1>10. NotesOK'
  <2>1. EndNotes' = EndNotes /\ EndWord' = EndWord
    BY <1>2 DEF EndNotes, EndWord
  <2>2. faults > 0 => faults' > 0
    BY DEF RunInv, Tables, CountersOK
  <2>3. pc \in {"record", "charge", "done"} /\ pc' \in {"record", "charge", "done"}
    OBVIOUS
  <2> QED
    BY <2>1, <2>2, <2>3, SameWorkflow DEF RunInv, NotesOK
<1> QED
  BY <1>6, <1>7, <1>8, <1>9, <1>10 DEF RunInv, Locals

LEMMA RecordKeeps ==
  ASSUME RunInv, Record
  PROVE  RunInv'
<1>1. /\ pc = "record" /\ pc' = "charge" /\ (faults' = faults \/ faults' = faults + 1)
      /\ UNCHANGED <<workflow, others, control, work, datasets, reports, snapshots, notes, mails, next>>
  BY DEF Record, Fault, fixed
<1> QED
  BY <1>1, RecordedKeeps

LEMMA ChargeKeeps ==
  ASSUME RunInv, Charge
  PROVE  RunInv'
<1>1. /\ pc = "charge" /\ pc' = "done" /\ (faults' = faults \/ faults' = faults + 1)
      /\ UNCHANGED <<workflow, others, control, work, datasets, reports, snapshots, notes, mails, next>>
  BY DEF Charge, Fault, fixed
<1> QED
  BY <1>1, RecordedKeeps

-----------------------------------------------------------------------------
LEMMA NotBeyond ==
  ASSUME RunInv
  PROVE  /\ Len(Steps) \in Nat /\ at \in 1 .. Len(Steps) + 1 /\ at \in Int
         /\ at <= Len(Steps) => at \in 1 .. Len(Steps) /\ at + 1 \in 1 .. Len(Steps) + 1
<1>1. workflow \in Workflows /\ at \in 1 .. Len(Steps) + 1
  BY DEF RunInv, Progress, ControlOK
<1>2. Len(Steps) \in Nat
  BY <1>1, Definitions
<1> QED
  BY <1>1, <1>2

LEMMA Retried ==
  ASSUME RunInv, work.attempt < MaxRetries
  PROVE  \E n \in Nat : n = work.attempt + 1 /\ n <= MaxRetries
<1>1. work.attempt \in Nat /\ MaxRetries \in Nat
  BY WorkflowAssumption DEF RunInv, Locals, LocalsOK
<1> QED
  BY <1>1

LEMMA PlaceIsANumber ==
  ASSUME workflow \in Workflows, workflow.kind = "plan", NEW k \in 1 .. Len(Steps)
  PROVE  Place(k) \in Nat
<1>1. Place(k) \in 1 .. Len(Steps)
  BY PlacesInOrder
<1> QED
  BY <1>1

LEMMA Places ==
  ASSUME RunInv, NEW p \in Nat
  PROVE  /\ p < at + 1 <=> (p < at \/ p = at)
         /\ p = at => ~(p < at)
<1>1. at \in Int
  BY NotBeyond
<1> QED
  BY <1>1

\* Where a plan is: its steps up to the present one have succeeded.
LEMMA PlanUnderWay ==
  ASSUME RunInv, pc \in {"plan", "plan done", "plan fails"}
  PROVE  /\ workflow \in Workflows /\ workflow.kind = "plan" /\ ~workflow.dry
         /\ Len(Steps) \in Nat /\ at \in 1 .. Len(Steps) + 1 /\ final = "completed"
         /\ pc # "plan" => at \in 1 .. Len(Steps)
         /\ \A k \in 1 .. Len(Steps) : Place(k) \in 1 .. Len(Steps)
         /\ \A k \in 1 .. Len(Steps) :
              statuses[k] = IF Place(k) < at THEN "success" ELSE "pending"
<1>1. /\ workflow \in Workflows /\ at \in 1 .. Len(Steps) + 1
      /\ final \in {"completed", "failed"} /\ StepsOK /\ PlanOK
  BY DEF RunInv, Progress, ControlOK
<1>2. Len(Steps) \in Nat /\ workflow.kind \in {"steps", "plan"}
  BY <1>1, Definitions
<1>3. workflow.kind = "plan"
  BY <1>1, <1>2 DEF StepsOK, InStep, AtEnd
<1>4. final = "completed" /\ (pc # "plan" => at <= Len(Steps))
  BY <1>1, <1>3 DEF PlanOK
<1>5. ~workflow.dry
  BY <1>1, <1>3, Definitions
<1>6. \A k \in 1 .. Len(Steps) : Place(k) \in 1 .. Len(Steps)
  BY <1>1, <1>3, PlacesInOrder
<1>7. \A k \in 1 .. Len(Steps) :
        statuses[k] = IF Place(k) < at THEN "success" ELSE "pending"
  BY <1>1, <1>3, <1>4 DEF PlanOK
<1>8. pc # "plan" => at \in 1 .. Len(Steps)
  <2>1. at <= Len(Steps) => at \in 1 .. Len(Steps)
    BY NotBeyond
  <2> QED
    BY <1>4, <2>1
<1> QED
  BY <1>1, <1>2, <1>3, <1>4, <1>5, <1>6, <1>7, <1>8, Zenon

LEMMA PlanAt ==
  ASSUME RunInv, pc \in {"plan done", "plan fails"}
  PROVE  at <= Len(Steps)
  BY PlanUnderWay DEF RunInv, Progress, PlanOK

\* A plan step leaves every row as it is.
LEMMA PlanStep ==
  ASSUME RunInv, UNCHANGED <<workflow, others, ctx, rows>>,
         faults' = faults, Progress', pc \in {"plan", "plan done", "plan fails"},
         \/ work' = NoWork /\ pc' # "send"
         \/ work' = work /\ pc' = "plan fails"
         \/ /\ work' = [work EXCEPT !.attempt = @ + 1] /\ pc' = pc
            /\ work.attempt < MaxRetries
  PROVE  RunInv'
<1>1. UNCHANGED <<notes, next>>
  BY DEF rows
<1>2. Tables' /\ Kept /\ DataOK'
  BY TablesStay DEF Tables
<1>3. Locals'
  <2>1. CASE work' = NoWork /\ pc' # "send"
    BY <1>1, <1>2, <2>1, WorkOver
  <2>2. CASE work' = work /\ pc' = "plan fails"
    <3>1. LocalsOK' /\ NamesOK'
      BY <1>1, <1>2, <2>2, WorkLeft
    <3>2. AttemptsOK'
      BY <2>2 DEF RunInv, Locals, AttemptsOK
    <3> QED
      BY <3>1, <3>2 DEF Locals
  <2>3. CASE /\ work' = [work EXCEPT !.attempt = @ + 1] /\ pc' = pc
             /\ work.attempt < MaxRetries
    <3>1. PICK n \in Nat : n = work.attempt + 1 /\ n <= MaxRetries
      BY <2>3, Retried
    <3>2. work' = [work EXCEPT !.attempt = n]
      BY <2>3, <3>1
    <3>3. LocalsOK' /\ NamesOK' /\ work'.attempt = n
      BY <1>1, <1>2, <3>2, Recounted
    <3>4. AttemptsOK'
      BY <2>3, <3>1, <3>3 DEF AttemptsOK
    <3> QED
      BY <3>3, <3>4 DEF Locals
  <2> QED
    BY <2>1, <2>2, <2>3
<1>4. NotesOK'
  <2>1. EndNotes = {} /\ EndNotes' = EndNotes
    BY <1>1 DEF RunInv, NotesOK, EndNotes
  <2>2. ~OfSteps'
    BY PlanUnderWay DEF OfSteps
  <2> QED
    BY <1>1, <2>1, <2>2, SameWorkflow DEF RunInv, NotesOK
<1> QED
  BY <1>2, <1>3, <1>4 DEF RunInv

\* The step at this place is over, and no other's status changes.
LEMMA PlanStatus ==
  ASSUME RunInv, pc \in {"plan done", "plan fails"}, workflow' = workflow,
         NEW status, statuses' = [statuses EXCEPT ![Current] = status]
  PROVE  /\ \A k \in 1 .. Len(Steps) : Place(k)' = Place(k)
         /\ \A k \in 1 .. Len(Steps) :
              statuses'[k] = IF Place(k) < at THEN "success"
                             ELSE IF Place(k) = at THEN status ELSE "pending"
         /\ status \in Statuses => statuses' \in [1 .. Len(Steps) -> Statuses]
<1>1. \A k \in 1 .. Len(Steps) : Place(k)' = Place(k)
  BY DEF Place, Before, Steps
<1>2. /\ workflow \in Workflows /\ workflow.kind = "plan" /\ at \in 1 .. Len(Steps)
      /\ \A k \in 1 .. Len(Steps) : Place(k) \in 1 .. Len(Steps)
      /\ \A k \in 1 .. Len(Steps) : statuses[k] = IF Place(k) < at THEN "success" ELSE "pending"
  BY PlanUnderWay
<1>3. Current \in 1 .. Len(Steps) /\ Place(Current) = at
  BY <1>2, CurrentStep
<1>4. \A k \in 1 .. Len(Steps) : Place(k) = at <=> k = Current
  BY <1>2, <1>3, PlacesInOrder
<1>5. statuses \in [1 .. Len(Steps) -> Statuses]
  BY DEF RunInv, Progress, ControlOK
<1>6. PICK current : current = Current
  OBVIOUS
<1>7. statuses' = [statuses EXCEPT ![current] = status] /\ current \in 1 .. Len(Steps)
  BY <1>3, <1>6
<1>8. \A k \in 1 .. Len(Steps) : statuses'[k] = IF k = current THEN status ELSE statuses[k]
  BY <1>5, <1>7
<1>9. \A k \in 1 .. Len(Steps) :
        statuses'[k] = IF Place(k) < at THEN "success"
                       ELSE IF Place(k) = at THEN status ELSE "pending"
  <2> TAKE k \in 1 .. Len(Steps)
  <2>1. CASE k = current
    <3>1. Place(k) = at
      BY <1>4, <1>6, <2>1
    <3>2. ~(Place(k) < at)
      <4>1. PICK p \in Nat : p = Place(k)
        BY <1>2, PlaceIsANumber
      <4> QED
        BY <3>1, <4>1, Places
    <3> QED
      BY <1>8, <2>1, <3>1, <3>2
  <2>2. CASE k # current
    <3>1. Place(k) # at
      BY <1>4, <1>6, <2>2
    <3> QED
      BY <1>2, <1>8, <2>2, <3>1
  <2> QED
    BY <2>1, <2>2
<1>10. status \in Statuses => statuses' \in [1 .. Len(Steps) -> Statuses]
  BY <1>5, <1>7
<1> QED
  BY <1>1, <1>9, <1>10

LEMMA PlanNextKeeps ==
  ASSUME RunInv, PlanNext
  PROVE  RunInv'
<1>1. /\ pc = "plan done" /\ pc' = "plan" /\ at' = at + 1 /\ work' = NoWork
      /\ statuses' = [statuses EXCEPT ![Current] = "success"]
      /\ UNCHANGED <<workflow, others, results, outcome, ctx, final, rows, faults>>
  BY DEF PlanNext, fixed
<1>2. /\ workflow \in Workflows /\ workflow.kind = "plan" /\ Len(Steps) \in Nat
      /\ at \in 1 .. Len(Steps) /\ final = "completed"
      /\ \A k \in 1 .. Len(Steps) : Place(k) \in 1 .. Len(Steps)
  BY <1>1, PlanUnderWay
<1>3. "success" \in Statuses
  BY DEF Statuses
<1>4. /\ \A k \in 1 .. Len(Steps) : Place(k)' = Place(k)
      /\ \A k \in 1 .. Len(Steps) :
           statuses'[k] = IF Place(k) < at THEN "success"
                          ELSE IF Place(k) = at THEN "success" ELSE "pending"
      /\ statuses' \in [1 .. Len(Steps) -> Statuses]
  BY <1>1, <1>3, PlanStatus
<1>5. \A k \in 1 .. Len(Steps) :
        statuses'[k] = IF Place(k)' < at' THEN "success" ELSE "pending"
  <2> TAKE k \in 1 .. Len(Steps)
  <2>1. Place(k) < at + 1 <=> Place(k) < at \/ Place(k) = at
    BY <1>2, Places
  <2>2. Place(k)' < at' <=> Place(k) < at \/ Place(k) = at
    BY <1>1, <1>4, <2>1
  <2> QED
    BY <1>4, <2>2
<1>6. ControlOK'
  <2>1. at' \in 1 .. Len(Steps) + 1
    <3>1. at <= Len(Steps)
      BY <1>1, PlanAt
    <3> QED
      BY <1>1, <3>1, NotBeyond
  <2> QED
    BY <1>1, <1>4, <2>1, SameWorkflow DEF RunInv, Progress, ControlOK
<1>7. PlanOK'
  BY <1>1, <1>2, <1>5, SameWorkflow DEF PlanOK
<1>8. StepsOK'
  BY <1>1, <1>2 DEF StepsOK
<1>9. ResultsOK'
  BY <1>1, <1>2 DEF RunInv, Progress, ResultsOK
<1>10. Progress'
  BY <1>6, <1>7, <1>8, <1>9 DEF Progress
<1> QED
  BY <1>1, <1>10, PlanStep

LEMMA PlanEndKeeps ==
  ASSUME RunInv, PlanEnd
  PROVE  RunInv'
<1>1. /\ pc = "plan" /\ pc' = "record"
      /\ UNCHANGED <<workflow, others, control, work, rows, faults>>
  BY DEF PlanEnd, fixed
<1>2. workflow.kind = "plan" /\ ~workflow.dry /\ final = "completed"
  BY <1>1, PlanUnderWay
<1>3. Progress'
  BY <1>1, <1>2, PlanWalk DEF Ended
<1>4. Tables' /\ LocalsOK' /\ NamesOK' /\ AttemptsOK'
  BY <1>1, Onwards
<1>5. UNCHANGED <<notes, final>>
  BY <1>1 DEF rows, control
<1>6. NotesOK'
  BY <1>1, <1>2, <1>5, NothingNoted DEF OfSteps
<1> QED
  BY <1>3, <1>4, <1>6 DEF RunInv, Locals

LEMMA PlanDispatchKeeps ==
  ASSUME RunInv, PlanDispatch
  PROVE  RunInv'
<1>1. /\ pc = "plan" /\ at <= Len(Steps) /\ pc' \in {"log", "plan fails", "plan done"}
      /\ work' = NoWork /\ UNCHANGED <<workflow, others, control, rows, faults>>
  BY DEF PlanDispatch, fixed
<1>2. workflow.kind = "plan" /\ final = "completed"
  BY <1>1, PlanUnderWay
<1>3. Progress'
  BY <1>1, <1>2, PlanWalk DEF InPlan
<1>4. ctx' = ctx
  BY <1>1 DEF control
<1> QED
  BY <1>1, <1>3, <1>4, PlanStep

LEMMA PlanRequestFailsKeeps ==
  ASSUME RunInv, PlanRequestFails
  PROVE  RunInv'
<1>1. /\ pc = "plan" /\ at <= Len(Steps) /\ UNCHANGED <<workflow, others, control, rows, faults>>
      /\ \/ work' = work /\ pc' = "plan fails"
         \/ /\ work' = [work EXCEPT !.attempt = @ + 1] /\ pc' = pc
            /\ work.attempt < MaxRetries
  BY DEF PlanRequestFails, fixed
<1>2. workflow.kind = "plan" /\ final = "completed"
  BY <1>1, PlanUnderWay
<1>3. Progress'
  BY <1>1, <1>2, PlanWalk DEF InPlan
<1>4. ctx' = ctx
  BY <1>1 DEF control
<1> QED
  BY <1>1, <1>3, <1>4, PlanStep

LEMMA PlanFailsKeeps ==
  ASSUME RunInv, PlanFails
  PROVE  RunInv'
<1>1. /\ pc = "plan fails" /\ pc' = "record" /\ final' = "failed" /\ work' = NoWork
      /\ statuses' = [statuses EXCEPT ![Current] = "failed"]
      /\ UNCHANGED <<workflow, others, at, results, outcome, ctx, rows, faults>>
  BY DEF PlanFails, fixed
<1>2. /\ workflow \in Workflows /\ workflow.kind = "plan" /\ Len(Steps) \in Nat
      /\ at \in 1 .. Len(Steps)
  BY <1>1, PlanUnderWay
<1>3. "failed" \in Statuses
  BY DEF Statuses
<1>4. /\ \A k \in 1 .. Len(Steps) : Place(k)' = Place(k)
      /\ \A k \in 1 .. Len(Steps) :
           statuses'[k] = IF Place(k) < at THEN "success"
                          ELSE IF Place(k) = at THEN "failed" ELSE "pending"
      /\ statuses' \in [1 .. Len(Steps) -> Statuses]
  BY <1>1, <1>3, PlanStatus
<1>5. ControlOK'
  BY <1>1, <1>2, <1>4, SameWorkflow DEF RunInv, Progress, ControlOK
<1>6. PlanOK'
  <2>1. \A k \in 1 .. Len(Steps) :
          statuses'[k] = IF Place(k)' < at' THEN "success"
                         ELSE IF Place(k)' = at' /\ final' = "failed" THEN "failed" ELSE "pending"
    BY <1>1, <1>4
  <2>2. at' <= Len(Steps)
    BY <1>1, PlanAt
  <2> QED
    BY <1>1, <1>2, <2>1, <2>2, SameWorkflow DEF PlanOK
<1>7. StepsOK'
  BY <1>1, <1>2 DEF StepsOK
<1>8. ResultsOK'
  BY <1>1, <1>2 DEF RunInv, Progress, ResultsOK
<1>9. Progress'
  BY <1>5, <1>6, <1>7, <1>8 DEF Progress
<1> QED
  BY <1>1, <1>9, PlanStep

-----------------------------------------------------------------------------
(***************************************************************************)
(* The user's other requests, and the server.                              *)
(***************************************************************************)
LEMMA OtherKeeps ==
  ASSUME RunInv, Other
  PROVE  RunInv'
<1>1. /\ others' = others + 1
      /\ UNCHANGED <<workflow, mode, pc, control, work, snapshots, notes, mails, recorded, faults>>
      /\ \/ Upload \/ DeleteDataset \/ DeleteReport
  BY DEF Other
<1>2. UNCHANGED <<at, statuses, results, outcome, ctx, final>>
  BY <1>1 DEF control
<1>3. /\ next = [dataset |-> next.dataset, report |-> next.report]
      /\ next.dataset \in Nat \ {0} /\ next.report \in Nat \ {0} /\ others \in Nat
  BY DEF RunInv, Locals, LocalsOK, Tables, CountersOK
<1>4. /\ datasets \subseteq 1 .. next.dataset - 1 /\ DOMAIN reports \subseteq 1 .. next.report - 1
      /\ snapshots \subseteq 1 .. next.report - 1 /\ notes \in Seq(Notes)
  BY DEF RunInv, Tables, DataOK, LogsOK
<1>5. /\ next' = [dataset |-> next'.dataset, report |-> next.report]
      /\ next'.dataset \in Nat \ {0} /\ next.dataset <= next'.dataset
      /\ datasets' \subseteq 1 .. next'.dataset - 1
      /\ DOMAIN reports' \subseteq DOMAIN reports
      /\ \A r \in DOMAIN reports' : reports'[r] = reports[r]
  <2>1. CASE Upload
    <3>1. next' = [dataset |-> next.dataset + 1, report |-> next.report]
      BY <1>3, <2>1 DEF Upload
    <3>2. datasets' = datasets \cup {next.dataset} /\ reports' = reports
      BY <2>1 DEF Upload
    <3>3. datasets' \subseteq 1 .. next'.dataset - 1
      BY <1>3, <1>4, <3>1, <3>2
    <3> QED
      BY <1>3, <3>1, <3>2, <3>3
  <2>2. CASE DeleteDataset
    BY <1>3, <1>4, <2>2 DEF DeleteDataset
  <2>3. CASE DeleteReport
    <3>1. PICK r \in DOMAIN reports : reports' = [x \in DOMAIN reports \ {r} |-> reports[x]]
      BY <2>3 DEF DeleteReport
    <3>2. UNCHANGED <<datasets, next>>
      BY <2>3 DEF DeleteReport
    <3> QED
      BY <1>3, <1>4, <3>1, <3>2
  <2> QED
    BY <1>1, <2>1, <2>2, <2>3
<1>6. Kept
  BY <1>1, <1>3, <1>5 DEF Kept, RunInv, Tables, CountersOK
<1>7. DataOK'
  BY <1>1, <1>4, <1>5 DEF DataOK
<1>8. DryRunLeavesNothing'
  <2>1. CASE workflow.dry
    <3>1. /\ reports = <<>> /\ notes = <<>> /\ mails = <<>> /\ recorded = {}
      BY <2>1 DEF RunInv, Tables, DryRunLeavesNothing
    <3>2. reports' = reports
      BY <1>1, <3>1 DEF Upload, DeleteDataset, DeleteReport
    <3> QED
      BY <1>1, <3>1, <3>2 DEF DryRunLeavesNothing
  <2>2. CASE ~workflow.dry
    BY <1>1, <2>2 DEF DryRunLeavesNothing
  <2> QED
    BY <2>1, <2>2
<1>9. Tables'
  BY <1>1, <1>3, <1>4, <1>5, <1>6, <1>7, <1>8, RowsChanged
<1>10. Progress'
  <2>1. workflow.kind \in {"steps", "plan"}
    BY Definitions DEF RunInv, Progress, ControlOK
  <2>2. CASE workflow.kind = "steps"
    BY <1>1, <2>2, StepsWalk
  <2>3. CASE workflow.kind = "plan"
    <3>1. /\ pc \in InPlan \cup Ended
          /\ pc \in {"plan done", "plan fails", "log", "send"} => at <= Len(Steps)
          /\ final = "failed" => pc \in Ended
      BY <2>3 DEF RunInv, Progress, PlanOK, InPlan, Ended
    <3> QED
      BY <1>1, <2>3, <3>1, PlanWalk
  <2> QED
    BY <2>1, <2>2, <2>3
<1>11. LocalsOK'
  <2>1. /\ ctx.of \in 0 .. next.dataset - 1 /\ ctx.id \in 0 .. next.report - 1
        /\ work = [dataset |-> work.dataset, of |-> work.of, id |-> work.id, attempt |-> work.attempt]
        /\ work.dataset \in 0 .. next.dataset - 1 /\ work.of \in 0 .. next.dataset - 1
        /\ work.id \in 0 .. next.report - 1 /\ work.attempt \in Nat
    BY DEF RunInv, Locals, LocalsOK
  <2>2. \A n \in 0 .. next.dataset - 1 : n \in 0 .. next'.dataset - 1
    BY <1>3, <1>5
  <2> QED
    BY <1>1, <1>2, <1>3, <1>5, <2>1, <2>2 DEF LocalsOK
<1>12. NamesOK'
  <2>1. others' # 0 /\ (Stable' => Stable)
    BY <1>1, <1>3 DEF Stable
  <2>2. /\ work.id \in DOMAIN reports' => work.id \in DOMAIN reports /\ reports'[work.id] = reports[work.id]
        /\ ctx.id \in DOMAIN reports' => ctx.id \in DOMAIN reports /\ reports'[ctx.id] = reports[ctx.id]
    BY <1>5
  <2> QED
    BY <1>1, <1>2, <2>1, <2>2 DEF RunInv, Locals, NamesOK
<1>13. AttemptsOK'
  BY <1>1 DEF RunInv, Locals, AttemptsOK
<1>14. NotesOK'
  <2>1. EndNotes' = EndNotes /\ EndWord' = EndWord
    BY <1>1, <1>2 DEF EndNotes, EndWord
  <2> QED
    BY <1>1, <2>1, SameWorkflow DEF RunInv, NotesOK
<1> QED
  BY <1>9, <1>10, <1>11, <1>12, <1>13, <1>14 DEF RunInv, Locals

LEMMA StopKeeps ==
  ASSUME RunInv, Stop
  PROVE  RunInv'
<1>1. /\ faults' = faults + 1 /\ pc' = "stopped"
      /\ UNCHANGED <<workflow, others, control, work, rows>>
  BY DEF Stop, Fault, fixed
<1>2. Tables' /\ LocalsOK' /\ NamesOK' /\ AttemptsOK'
  BY <1>1, Onwards
<1>3. Progress'
  <2>1. workflow.kind \in {"steps", "plan"}
    BY Definitions DEF RunInv, Progress, ControlOK
  <2>2. CASE workflow.kind = "steps"
    BY <1>1, <2>2, StepsWalk
  <2>3. CASE workflow.kind = "plan"
    BY <1>1, <2>3, PlanWalk DEF Ended
  <2> QED
    BY <2>1, <2>2, <2>3
<1>4. NotesOK'
  <2>1. EndNotes' = EndNotes /\ EndWord' = EndWord /\ UNCHANGED notes
    BY <1>1 DEF EndNotes, EndWord, control, rows
  <2> QED
    BY <1>1, <2>1, SameWorkflow DEF RunInv, NotesOK
<1> QED
  BY <1>2, <1>3, <1>4 DEF RunInv, Locals

-----------------------------------------------------------------------------
(***************************************************************************)
(* The invariant, and what follows from it.                                *)
(***************************************************************************)
LEMMA RunInvInit == Init => RunInv
<1> SUFFICES ASSUME Init
             PROVE  RunInv
  OBVIOUS
<1>1. /\ workflow \in Workflows /\ at = 1 /\ ctx = NoCtx /\ work = NoWork /\ final = "completed"
      /\ pc = IF workflow.kind = "plan" THEN "plan" ELSE "step"
      /\ statuses = [k \in 1 .. Len(Steps) |-> "pending"]
      /\ results = <<>> /\ outcome = [k \in 1 .. Len(Steps) |-> NoResult]
      /\ datasets \in {{}, {1}} /\ reports = <<>> /\ snapshots = {} /\ notes = <<>>
      /\ mails = <<>> /\ recorded = {} /\ next = [dataset |-> 2, report |-> 1]
      /\ others = 0 /\ faults = 0
  BY DEF Init
<1>2. /\ Len(Steps) \in Nat /\ workflow.kind \in {"steps", "plan"}
      /\ workflow.kind = "plan" => \A k \in 1 .. Len(Steps) : Place(k) \in 1 .. Len(Steps)
  BY <1>1, Definitions, PlacesInOrder
<1>3. DOMAIN results = {} /\ DOMAIN reports = {}
  BY <1>1
<1>4. ControlOK
  BY <1>1, <1>2 DEF ControlOK, Statuses
<1>5. StepsOK
  BY <1>1, <1>2 DEF StepsOK, InStep, AtEnd
<1>6. ResultsOK
  BY <1>1, <1>3 DEF ResultsOK
<1>7. PlanOK
  BY <1>1, <1>2 DEF PlanOK
<1>8. LocalsOK /\ DataOK /\ CountersOK
  BY <1>1, <1>3 DEF LocalsOK, DataOK, CountersOK, NoCtx, NoWork, Work
<1>9. LogsOK
  BY <1>1 DEF LogsOK
<1>10. NamesOK
  BY <1>1, <1>3 DEF NamesOK, NoCtx, NoWork, Work
<1>11. AttemptsOK
  BY <1>1 DEF AttemptsOK, NoWork, Work
<1>12. NotesOK
  BY <1>1 DEF NotesOK, EndNotes
<1>13. DryRunLeavesNothing
  BY <1>1 DEF DryRunLeavesNothing
<1>14. MailsAreTrue
  BY <1>1, MailByMail DEF EachMailTrue
<1> QED
  BY <1>4, <1>5, <1>6, <1>7, <1>8, <1>9, <1>10, <1>11, <1>12, <1>13, <1>14
  DEF RunInv, Progress, Locals, Tables

LEMMA RunInvStutter ==
  ASSUME RunInv, UNCHANGED vars
  PROVE  RunInv'
<1>1. UNCHANGED <<workflow, mode, pc, at, statuses, results, outcome, ctx, work, final,
                  datasets, reports, snapshots, notes, mails, recorded, next, others, faults>>
  BY DEF vars
<1>2. UNCHANGED <<control, rows>>
  BY <1>1 DEF control, rows
<1>3. Tables' /\ Kept
  BY <1>1, <1>2, TablesStay
<1>4. LocalsOK' /\ NamesOK'
  BY <1>1, <1>3, WorkLeft
<1>5. AttemptsOK'
  BY <1>1 DEF RunInv, Locals, AttemptsOK
<1>6. NotesOK'
  <2>1. EndNotes' = EndNotes /\ EndWord' = EndWord
    BY <1>1 DEF EndNotes, EndWord
  <2> QED
    BY <1>1, <2>1, SameWorkflow DEF RunInv, NotesOK
<1>7. Progress'
  <2>1. workflow.kind \in {"steps", "plan"}
    BY Definitions DEF RunInv, Progress, ControlOK
  <2>2. CASE workflow.kind = "steps"
    BY <1>1, <1>2, <2>2, StepsWalk
  <2>3. CASE workflow.kind = "plan"
    <3>1. /\ pc \in InPlan \cup Ended
          /\ pc \in {"plan done", "plan fails", "log", "send"} => at <= Len(Steps)
          /\ final = "failed" => pc \in Ended
      BY <2>3 DEF RunInv, Progress, PlanOK, InPlan, Ended
    <3> QED
      BY <1>1, <1>2, <2>3, <3>1, PlanWalk
  <2> QED
    BY <2>1, <2>2, <2>3
<1> QED
  BY <1>3, <1>4, <1>5, <1>6, <1>7 DEF RunInv, Locals

LEMMA RunInvKept == RunInv /\ [Next]_vars => RunInv'
<1> SUFFICES ASSUME RunInv, [Next]_vars
             PROVE  RunInv'
  OBVIOUS
<1>1. CASE StepNext
  BY <1>1, DryStepKeeps, SkipStepKeeps, StartStepKeeps, StepsEndKeeps, FailStepKeeps,
     AnalyzeStepKeeps, NotifyStepKeeps, LoadForReportKeeps, LoadForMailKeeps,
     SaveReportKeeps, NoteReportKeeps, SaveSnapshotKeeps DEF StepNext
<1>2. CASE MailNext
  BY <1>2, NoRecipientKeeps, LogMailKeeps, SendNothingKeeps, ConfirmedKeeps, RaisedKeeps,
     TellOfMailKeeps DEF MailNext
<1>3. CASE EndNext
  BY <1>3, TellEndKeeps, RecordKeeps, ChargeKeeps DEF EndNext
<1>4. CASE PlanWork
  BY <1>4, PlanNextKeeps, PlanEndKeeps, PlanDispatchKeeps, PlanRequestFailsKeeps,
     PlanFailsKeeps DEF PlanWork
<1>5. CASE Other
  BY <1>5, OtherKeeps
<1>6. CASE Stop
  BY <1>6, StopKeeps
<1>7. CASE UNCHANGED vars
  BY <1>7, RunInvStutter
<1> QED
  BY <1>1, <1>2, <1>3, <1>4, <1>5, <1>6, <1>7 DEF Next, Run

\* What a run relies on holds in every state it reaches: how far it has come, what its
\* locals stand for, and what it has left behind.
THEOREM RunInvHolds == Spec => []RunInv
  BY RunInvInit, RunInvKept, PTL DEF Spec

LEMMA TypesFollow == RunInv => TypeOK
<1> SUFFICES ASSUME RunInv
             PROVE  TypeOK
  OBVIOUS
<1>1. /\ ControlOK /\ ResultsOK /\ LocalsOK /\ DataOK /\ LogsOK /\ AttemptsOK
  BY DEF RunInv, Progress, Locals, Tables
<1>2. MaxRetries \in Nat
  BY WorkflowAssumption
<1>3. work.attempt \in 0 .. Max({1, MaxRetries})
  <2>1. work.attempt \in Nat /\ (work.attempt <= 1 \/ work.attempt <= MaxRetries)
    BY <1>1 DEF LocalsOK, AttemptsOK
  <2>2. /\ Max({1, MaxRetries}) \in Nat /\ Max({1, MaxRetries}) >= 1
        /\ Max({1, MaxRetries}) >= MaxRetries
    BY <1>2, GreatestOfTwo
  <2> QED
    BY <1>2, <2>1, <2>2
<1>4. \A k \in 1 .. Len(notes) : notes[k] \in Notes
  BY <1>1, LenProperties DEF LogsOK
<1>5. /\ at \in 1 .. Len(Steps) + 1 /\ statuses \in [1 .. Len(Steps) -> Statuses]
      /\ final \in {"completed", "failed"}
  BY <1>1 DEF ControlOK
<1>6. \A k \in DOMAIN results : results[k].sent \in {"True", "False", Unresolved}
  BY <1>1 DEF ResultsOK
<1>7. ctx.of \in 0 .. next.dataset - 1 /\ ctx.id \in 0 .. next.report - 1
  BY <1>1 DEF LocalsOK
<1>8. /\ datasets \subseteq 1 .. next.dataset - 1 /\ DOMAIN reports \subseteq 1 .. next.report - 1
      /\ snapshots \subseteq 1 .. next.report - 1
  BY <1>1 DEF DataOK
<1> QED
  BY <1>3, <1>4, <1>5, <1>6, <1>7, <1>8, Zenon DEF TypeOK

LEMMA AccountFollows == RunInv => EveryStepIsAccountedFor
<1> SUFFICES ASSUME RunInv, Over, OfSteps
             PROVE  IF final = "failed"
                      THEN \E k \in 1 .. Len(Steps) :
                             /\ statuses[k] = "failed"
                             /\ \A j \in 1 .. k - 1 : statuses[j] \in {"completed", "skipped"}
                             /\ \A j \in k + 1 .. Len(Steps) : statuses[j] = "skipped"
                      ELSE \A k \in 1 .. Len(Steps) : statuses[k] \in {"completed", "skipped"}
  BY DEF EveryStepIsAccountedFor
<1>1. workflow.kind = "steps" /\ ~workflow.dry /\ pc = "done" /\ StepsOK
  BY DEF OfSteps, Over, RunInv, Progress
<1>2. \A k \in 1 .. at - 1 : statuses[k] \in {"completed", "skipped"}
  BY <1>1 DEF StepsOK
<1>3. CASE final = "failed"
  <2>1. at <= Len(Steps) /\ statuses[at] = "failed"
        /\ \A k \in at + 1 .. Len(Steps) : statuses[k] = "skipped"
    BY <1>1, <1>3 DEF StepsOK
  <2>2. at \in 1 .. Len(Steps)
    BY <2>1, NotBeyond
  <2> QED
    BY <1>2, <1>3, <2>1, <2>2
<1>4. CASE final # "failed"
  <2>1. final = "completed"
    BY <1>4 DEF RunInv, Progress, ControlOK
  <2>2. at = Len(Steps) + 1
    BY <1>1, <2>1 DEF StepsOK, AtEnd
  <2>3. at - 1 = Len(Steps)
    BY <2>2, NotBeyond
  <2> QED
    BY <1>2, <1>4, <2>3
<1> QED
  BY <1>3, <1>4

LEMMA ResultsFollow == RunInv => ResultsAreTheirSteps
<1> SUFFICES ASSUME RunInv, DistinctIds, workflow.kind = "steps",
                    NEW k \in 1 .. Len(Steps), statuses[k] \in {"completed", "would_run"}
             PROVE  IdOf(k) \in DOMAIN results /\ results[IdOf(k)] = outcome[k]
  BY DEF ResultsAreTheirSteps, DistinctIds
<1>1. StepsOK /\ ResultsOK /\ final \in {"completed", "failed"}
  BY DEF RunInv, Progress, ControlOK
<1>2. ~(k \in at .. Len(Steps))
  <2> SUFFICES ASSUME k \in at .. Len(Steps)
               PROVE  FALSE
    OBVIOUS
  <2>1. CASE final = "completed"
    BY <1>1, <2>1 DEF StepsOK
  <2>2. CASE final = "failed"
    <3>1. statuses[at] = "failed" /\ \A j \in at + 1 .. Len(Steps) : statuses[j] = "skipped"
      BY <1>1, <2>2 DEF StepsOK
    <3>2. k = at \/ k \in at + 1 .. Len(Steps)
      BY NotBeyond
    <3> QED
      BY <3>1, <3>2
  <2> QED
    BY <1>1, <2>1, <2>2
<1>3. k \in 1 .. at - 1
  BY <1>2, NotBeyond
<1> QED
  BY <1>1, <1>3 DEF ResultsOK

LEMMA OrderFollows == RunInv => PlanIsRunInOrder
<1> SUFFICES ASSUME RunInv, workflow.kind = "plan",
                    NEW j \in 1 .. Len(Steps), NEW k \in 1 .. Len(Steps),
                    statuses[j] = "pending", statuses[k] # "pending"
             PROVE  Steps[k].priority <= Steps[j].priority
  BY DEF PlanIsRunInOrder
<1>1. workflow \in Workflows /\ PlanOK
  BY DEF RunInv, Progress, ControlOK
<1>2. Steps[k].priority \in Nat /\ Steps[j].priority \in Nat
  BY <1>1, Definitions
<1>3. PICK p \in Nat, q \in Nat : p = Place(j) /\ q = Place(k)
  BY <1>1, PlaceIsANumber
<1>4. p >= at /\ (p = at => final # "failed")
  <2>1. ~(p < at) /\ (p = at => final # "failed")
    BY <1>1, <1>3 DEF PlanOK
  <2> QED
    BY <2>1, NotBeyond
<1>5. q < at \/ (q = at /\ final = "failed")
  BY <1>1, <1>3 DEF PlanOK
<1>6. q < p
  BY <1>4, <1>5, NotBeyond
<1>7. ~Before(j, k)
  <2>1. Before(j, k) => p < q
    BY <1>1, <1>3, PlacesInOrder
  <2> QED
    BY <1>6, <2>1
<1> QED
  BY <1>2, <1>7 DEF Before

\* The record of a run tells of each step what happened to it, in order, and lists no
\* other step's result, however the run ended.
THEOREM StepsTold == Spec => []StepsAreToldTruly
<1>1. RunInv => DryRunLeavesNothing
  BY DEF RunInv, Tables
<1>2. RunInv => StepsAreToldTruly
  BY <1>1, TypesFollow, AccountFollows, ResultsFollow, OrderFollows DEF StepsAreToldTruly
<1> QED
  BY <1>2, RunInvHolds, PTL

\* A run has at most one last word, the right one, and is only silent for a reason.
THEOREM OneWord == Spec => []OneWordAtTheEnd
<1>1. RunInv => OneWordAtTheEnd
  <2> SUFFICES ASSUME RunInv
               PROVE  OneWordAtTheEnd
    OBVIOUS
  <2>1. NotesOK
    BY DEF RunInv
  <2>2. \A k \in EndNotes : notes[k] = EndWord /\ \A j \in 1 .. Len(notes) : notes[j] # "step"
    BY <2>1 DEF NotesOK
  <2>3. Over /\ OfSteps /\ EndNotes = {} =>
          faults > 0 \/ \E k \in 1 .. Len(Steps) : Steps[k].type = "notify"
    BY <2>1 DEF NotesOK, Over, Told
  <2>4. \A j, k \in EndNotes : j = k
    BY <2>1 DEF NotesOK
  <2> QED
    BY <2>2, <2>3, <2>4 DEF OneWordAtTheEnd
<1> QED
  BY <1>1, RunInvHolds, PTL

\* What was mailed, what the mail names, its row and what arrived belong together.
THEOREM MailsTrue == Spec => []MailsAreTrue
<1>1. RunInv => MailsAreTrue
  BY DEF RunInv, Tables
<1> QED
  BY <1>1, RunInvHolds, PTL

-----------------------------------------------------------------------------
(***************************************************************************)
(* The run of steps that both runners carry out.                           *)
(***************************************************************************)
\* A verdict is recorded last, and a run without a failure gets it after its steps.
RecordOK ==
  /\ pc \notin {"charge", "done", "stopped"} => recorded = {}
  /\ pc = "record" /\ final = "completed" => at = Len(Steps) + 1

\* What a step of the runners does to that run.
Verdicts == {"completed", "failed"}

Unnoticed ==
  /\ UNCHANGED <<workflow, at, statuses, final>>
  /\ recorded' \cap Verdicts = recorded \cap Verdicts

StepIsOver ==
  /\ workflow.kind = "steps" /\ pc \in {"step"} \cup InStep /\ at <= Len(Steps)
  /\ UNCHANGED <<workflow, recorded>>
  /\ \E status \in {"completed", "skipped", "would_run"} : \E result : StepOver(status, result)

LEMMA QuietIsUnnoticed ==
  ASSUME UNCHANGED <<workflow, control, recorded>>
  PROVE  Unnoticed
  BY DEF Unnoticed, control

LEMMA OverInStep ==
  ASSUME RunInv, pc \in InStep, UNCHANGED <<workflow, recorded>>, workflow.kind # "plan",
         \E result : StepOver("completed", result)
  PROVE  StepIsOver
<1>1. workflow.kind = "steps" /\ at <= Len(Steps)
  BY UnderWay
<1> QED
  BY <1>1 DEF StepIsOver

LEMMA StepNextEffect ==
  ASSUME RunInv, StepNext
  PROVE  Unnoticed \/ StepIsOver \/ StartStep \/ FailStep
<1>1. CASE DryStep \/ SkipStep
  <2>1. /\ pc = "step" /\ at <= Len(Steps) /\ UNCHANGED <<workflow, recorded>>
        /\ \E status \in {"completed", "skipped", "would_run"} : \E result : StepOver(status, result)
    BY <1>1 DEF DryStep, SkipStep, AtStep, fixed, rows
  <2>2. workflow.kind = "steps"
    BY <2>1, UnderWay
  <2> QED
    BY <2>1, <2>2 DEF StepIsOver
<1>2. CASE AnalyzeStep \/ NotifyStep
  <2>1. /\ pc \in InStep \ {"log", "send"} /\ UNCHANGED <<workflow, recorded>>
        /\ \E result : StepOver("completed", result)
    BY <1>2 DEF AnalyzeStep, NotifyStep, fixed, rows, InStep
  <2>2. workflow.kind = "steps"
    BY <2>1, UnderWay
  <2> QED
    BY <2>1, <2>2, OverInStep
<1>3. CASE LoadForReport \/ LoadForMail \/ SaveReport \/ SaveSnapshot
  <2>1. /\ pc \in InStep \ {"log", "send"} /\ UNCHANGED <<workflow, recorded>>
        /\ (\E result : StepOver("completed", result)) \/ UNCHANGED control
    BY <1>3 DEF LoadForReport, LoadForMail, SaveReport, SaveSnapshot, LeaveReport, fixed, rows, InStep
  <2>2. workflow.kind = "steps"
    BY <2>1, UnderWay
  <2> QED
    BY <2>1, <2>2, OverInStep, QuietIsUnnoticed
<1>4. CASE StepsEnd \/ NoteReport
  BY <1>4, QuietIsUnnoticed DEF StepsEnd, NoteReport, fixed, rows
<1> QED
  BY <1>1, <1>2, <1>3, <1>4 DEF StepNext

LEMMA MailNextEffect ==
  ASSUME RunInv, MailNext
  PROVE  Unnoticed \/ StepIsOver
<1>1. pc \in InStep /\ UNCHANGED <<workflow, recorded>>
  BY DEF MailNext, NoRecipient, LogMail, SendNothing, Confirmed, Raised, TellOfMail, fixed, rows, InStep
<1>2. \/ UNCHANGED control
      \/ workflow.kind # "plan" /\ \E result : StepOver("completed", result)
  BY DEF MailNext, NoRecipient, LogMail, SendNothing, Confirmed, Raised, TellOfMail, SendOver, MailOver
<1> QED
  BY <1>1, <1>2, OverInStep, QuietIsUnnoticed

LEMMA Effect ==
  ASSUME RunInv, [Next]_vars
  PROVE  Unnoticed \/ StepIsOver \/ StartStep \/ FailStep \/ Record \/ PlanNext \/ PlanFails
<1>1. CASE StepNext
  BY <1>1, StepNextEffect
<1>2. CASE MailNext
  BY <1>2, MailNextEffect
<1>3. CASE TellEnd
  BY <1>3, QuietIsUnnoticed DEF TellEnd, fixed
<1>4. CASE Charge
  <2>1. UNCHANGED <<workflow, control>> /\ (recorded' = recorded \/ recorded' = recorded \cup {"charged"})
    BY <1>4 DEF Charge, fixed
  <2> QED
    BY <2>1 DEF Unnoticed, control, Verdicts
<1>5. CASE PlanEnd \/ PlanDispatch \/ PlanRequestFails
  BY <1>5, QuietIsUnnoticed DEF PlanEnd, PlanDispatch, PlanRequestFails, fixed, rows
<1>6. CASE Other \/ Stop
  BY <1>6, QuietIsUnnoticed DEF Other, Stop, fixed, rows
<1>7. CASE UNCHANGED vars
  BY <1>7, QuietIsUnnoticed DEF vars, control
<1> QED
  BY <1>1, <1>2, <1>3, <1>4, <1>5, <1>6, <1>7 DEF Next, Run, EndNext, PlanWork

LEMMA RecordOKKept ==
  ASSUME RunInv, RecordOK, [Next]_vars
  PROVE  RecordOK'
<1>1. /\ Len(Steps) \in Nat /\ at \in 1 .. Len(Steps) + 1 /\ workflow.kind \in {"steps", "plan"}
      /\ StepsOK
  BY NotBeyond, Definitions DEF RunInv, Progress, ControlOK
<1>2. ASSUME recorded' = recorded, pc' # "record", pc \in {"charge", "done", "stopped"} => pc' \in {"charge", "done", "stopped"}
      PROVE  RecordOK'
  BY <1>2 DEF RecordOK
<1>3. CASE TellEnd
  <2>1. /\ pc = "end" /\ pc' = "record" /\ UNCHANGED <<workflow, control, recorded>>
    BY <1>3 DEF TellEnd, fixed
  <2>2. workflow.kind = "steps"
    BY <1>1, <2>1 DEF RunInv, Progress, PlanOK
  <2>3. final = "completed" => at = Len(Steps) + 1
    BY <1>1, <2>1, <2>2 DEF StepsOK, AtEnd
  <2> QED
    BY <2>1, <2>3, SameWorkflow DEF RecordOK, control
<1>4. CASE PlanEnd
  <2>1. /\ pc = "plan" /\ at > Len(Steps) /\ pc' = "record" /\ UNCHANGED <<workflow, control, recorded>>
    BY <1>4 DEF PlanEnd, fixed, rows
  <2>2. at = Len(Steps) + 1
    BY <1>1, <2>1
  <2> QED
    BY <2>1, <2>2, SameWorkflow DEF RecordOK, control
<1>5. CASE PlanFails
  BY <1>5 DEF PlanFails, RecordOK, rows
<1>6. CASE Record \/ Charge
  BY <1>6 DEF Record, Charge, RecordOK
<1>7. CASE StartStep
  <2>1. pc = "step" /\ at <= Len(Steps) /\ pc' = Steps[at].type /\ recorded' = recorded
    BY <1>7 DEF StartStep, AtStep, rows
  <2>2. workflow.kind = "steps" /\ at \in 1 .. Len(Steps)
    BY <1>1, <2>1, UnderWay
  <2>3. pc' \in StepTypes
    BY <2>1, <2>2, Definitions DEF RunInv, Progress, ControlOK
  <2> QED
    BY <1>2, <2>1, <2>3 DEF StepTypes
<1>8. CASE StepNext /\ ~StartStep
  <2>1. pc \in {"step"} \cup InStep /\ recorded' = recorded
    BY <1>8 DEF StepNext, DryStep, SkipStep, StepsEnd, FailStep, AnalyzeStep, NotifyStep,
       LoadForReport, LoadForMail, SaveReport, NoteReport, SaveSnapshot, AtStep, rows, InStep
  <2>2. pc' \in {"step", "done", "end"} \cup InStep
    BY <1>8 DEF StepNext, DryStep, SkipStep, StepsEnd, FailStep, AnalyzeStep, NotifyStep,
       LoadForReport, LoadForMail, SaveReport, NoteReport, SaveSnapshot, StepOver, LeaveReport, InStep
  <2> QED
    BY <1>2, <2>1, <2>2 DEF InStep
<1>9. CASE MailNext
  <2>1. pc \in InStep /\ recorded' = recorded
    BY <1>9 DEF MailNext, NoRecipient, LogMail, SendNothing, Confirmed, Raised, TellOfMail, rows, InStep
  <2>2. pc' \in {"step", "plan done"} \cup InStep
    BY <1>9 DEF MailNext, NoRecipient, LogMail, SendNothing, Confirmed, Raised, TellOfMail, SendOver, MailOver, StepOver, InStep
  <2> QED
    BY <1>2, <2>1, <2>2 DEF InStep
<1>10. CASE PlanNext \/ PlanDispatch \/ PlanRequestFails
  <2>1. pc \in {"plan", "plan done"} /\ recorded' = recorded /\ pc' \in {"plan", "plan done", "log", "plan fails"}
    BY <1>10 DEF PlanNext, PlanDispatch, PlanRequestFails, rows
  <2> QED
    BY <1>2, <2>1
<1>11. CASE Other \/ UNCHANGED vars
  <2>1. UNCHANGED <<workflow, pc, control, recorded>>
    BY <1>11 DEF Other, vars, control
  <2> QED
    BY <2>1, SameWorkflow DEF RecordOK, control
<1>12. CASE Stop
  BY <1>2, <1>12 DEF Stop, rows
<1> QED
  BY <1>3, <1>4, <1>5, <1>6, <1>7, <1>8, <1>9, <1>10, <1>11, <1>12 DEF Next, Run, EndNext, PlanWork, StepNext

-----------------------------------------------------------------------------
LEMMA Longer ==
  ASSUME NEW S, NEW n \in Nat, NEW s \in [1 .. n -> S], NEW t \in [1 .. n + 1 -> S],
         \A i \in 1 .. n : t[i] = s[i]
  PROVE  t = Append(s, t[n + 1])
<1>1. s \in Seq(S) /\ Len(s) = n /\ t \in Seq(S) /\ Len(t) = n + 1
  OBVIOUS
<1>2. t[n + 1] \in S
  OBVIOUS
<1>3. Append(s, t[n + 1]) \in Seq(S) /\ Len(Append(s, t[n + 1])) = n + 1
  BY <1>1, <1>2
<1>4. \A i \in 1 .. n + 1 : t[i] = Append(s, t[n + 1])[i]
  BY <1>1, <1>2
<1> QED
  BY <1>1, <1>3, <1>4, SeqEqual

LEMMA SameSteps ==
  ASSUME workflow' = workflow
  PROVE  \A i : StepAt(i)' = StepAt(i)
  BY DEF StepAt, Place, Before, Steps

\* Each place has a step, and the steps up to the present one were settled.
LEMMA StepsAtPlaces ==
  ASSUME RunInv, NEW i \in 1 .. Len(Steps)
  PROVE  /\ StepAt(i) \in 1 .. Len(Steps)
         /\ workflow.kind = "plan" => Place(StepAt(i)) = i
         /\ workflow.kind = "steps" => StepAt(i) = i
<1>1. workflow \in Workflows /\ workflow.kind \in {"steps", "plan"}
  BY Definitions DEF RunInv, Progress, ControlOK
<1>2. CASE workflow.kind = "steps"
  BY <1>2 DEF StepAt
<1>3. CASE workflow.kind = "plan"
  BY <1>1, <1>3, PlacesInOrder DEF StepAt
<1> QED
  BY <1>1, <1>2, <1>3

\* What was settled so far.
SettledNow == [i \in 1 .. Taken |-> statuses[StepAt(i)]]

LEMMA SettledTypes ==
  ASSUME RunInv
  PROVE  /\ Len(Steps) \in Nat /\ Taken \in 0 .. Len(Steps)
         /\ SettledNow \in [1 .. Taken -> Statuses]
<1>1. /\ Len(Steps) \in Nat /\ at \in 1 .. Len(Steps) + 1
      /\ final \in {"completed", "failed"} /\ workflow.kind \in {"steps", "plan"}
      /\ StepsOK /\ PlanOK /\ statuses \in [1 .. Len(Steps) -> Statuses]
  BY Definitions DEF RunInv, Progress, ControlOK
<1>2. final = "failed" => at <= Len(Steps)
  BY <1>1 DEF StepsOK, PlanOK
<1>3. Taken \in 0 .. Len(Steps)
  BY <1>1, <1>2 DEF Taken
<1>4. \A i \in 1 .. Taken : statuses[StepAt(i)] \in Statuses
  <2> TAKE i \in 1 .. Taken
  <2>1. i \in 1 .. Len(Steps)
    BY <1>1, <1>3
  <2>2. StepAt(i) \in 1 .. Len(Steps)
    BY <2>1, StepsAtPlaces
  <2> QED
    BY <1>1, <2>2
<1> QED
  BY <1>1, <1>3, <1>4 DEF SettledNow

\* The step at this place is settled and none before it is changed.
LEMMA OneMoreSettled ==
  ASSUME RunInv, RunInv', workflow' = workflow, final = "completed", at \in 1 .. Len(Steps),
         Taken' = at, \A i \in 1 .. at - 1 : statuses'[StepAt(i)] = statuses[StepAt(i)],
         NEW ending, statuses'[StepAt(at)] = ending
  PROVE  /\ SettledNow' = Append(SettledNow, ending)
         /\ (Len(Steps) - Taken)' = Len(Steps) - Taken - 1 /\ Len(Steps) - Taken > 0
<1>1. /\ Len(Steps) \in Nat /\ Steps' = Steps /\ Taken = at - 1 /\ Taken \in Nat /\ at = Taken + 1
  BY SettledTypes DEF Taken, Steps
<1>2. /\ SettledNow \in [1 .. Taken -> Statuses]
      /\ SettledNow' \in [1 .. Taken + 1 -> Statuses]
  <2>1. SettledNow \in [1 .. Taken -> Statuses]
    BY SettledTypes
  <2>2. (SettledNow \in [1 .. Taken -> Statuses])'
    BY SettledTypes, PTL
  <2>3. Statuses' = Statuses
    BY DEF Statuses
  <2> QED
    BY <1>1, <2>1, <2>2, <2>3
<1>3. \A i \in 1 .. Taken : SettledNow[i] = statuses[StepAt(i)]
  BY DEF SettledNow
<1>4. \A i \in 1 .. Taken + 1 : SettledNow'[i] = statuses'[StepAt(i)]
  BY <1>1, SameSteps DEF SettledNow
<1>5. \A i \in 1 .. Taken : SettledNow'[i] = SettledNow[i]
  BY <1>1, <1>3, <1>4
<1>6. SettledNow'[Taken + 1] = ending
  BY <1>1, <1>4
<1>7. SettledNow' = Append(SettledNow, SettledNow'[Taken + 1])
  BY <1>1, <1>2, <1>5, Longer
<1> QED
  BY <1>1, <1>6, <1>7

\* Nothing that the run of steps tells is changed.
LEMMA NothingSettled ==
  ASSUME RunInv, UNCHANGED <<workflow, at, final>>, recorded' \cap Verdicts = recorded \cap Verdicts,
         \A i \in 1 .. Taken : statuses'[StepAt(i)] = statuses[StepAt(i)]
  PROVE  UNCHANGED Stepwise!vars
<1>1. Taken' = Taken /\ Steps' = Steps
  BY DEF Taken, Steps
<1>2. SettledNow' = SettledNow
  BY <1>1, SameSteps DEF SettledNow
<1> QED
  BY <1>1, <1>2 DEF Stepwise!vars, SettledNow, Verdicts

LEMMA Settles ==
  ASSUME RunInv, RunInv', RecordOK, workflow' = workflow, final = "completed", at \in 1 .. Len(Steps),
         pc \notin {"charge", "done", "stopped"}, recorded' = recorded,
         Taken' = at, \A i \in 1 .. at - 1 : statuses'[StepAt(i)] = statuses[StepAt(i)],
         NEW status, statuses'[StepAt(at)] = status
  PROVE  Stepwise!SettleAs(status)
<1>1. /\ SettledNow' = Append(SettledNow, status)
      /\ (Len(Steps) - Taken)' = Len(Steps) - Taken - 1 /\ Len(Steps) - Taken > 0
  BY OneMoreSettled
<1>2. recorded = {} /\ recorded' = {}
  BY DEF RecordOK
<1> QED
  BY <1>1, <1>2 DEF Stepwise!SettleAs, Stepwise!Open, SettledNow

LEMMA StepIsSettled ==
  ASSUME RunInv, RunInv', RecordOK, StepIsOver
  PROVE  Stepwise!Settle
<1>1. PICK status \in {"completed", "skipped", "would_run"} : \E result : StepOver(status, result)
  BY DEF StepIsOver
<1>2. /\ workflow.kind = "steps" /\ pc \in {"step"} \cup InStep /\ at <= Len(Steps)
      /\ UNCHANGED <<workflow, recorded>>
      /\ statuses' = [statuses EXCEPT ![at] = status] /\ at' = at + 1 /\ final' = final
  BY <1>1 DEF StepIsOver, StepOver
<1>3. final = "completed" /\ at \in 1 .. Len(Steps) /\ Len(Steps) \in Nat
  BY <1>2, UnderWay, NotBeyond
<1>4. statuses \in [1 .. Len(Steps) -> Statuses]
  BY DEF RunInv, Progress, ControlOK
<1>5. \A i \in 1 .. Len(Steps) : StepAt(i) = i
  BY <1>2, StepsAtPlaces
<1>6. statuses'[StepAt(at)] = status /\ \A i \in 1 .. at - 1 : statuses'[StepAt(i)] = statuses[StepAt(i)]
  BY <1>2, <1>3, <1>4, <1>5
<1>7. Taken' = at
  BY <1>2, <1>3 DEF Taken
<1>8. pc \notin {"charge", "done", "stopped"}
  BY <1>2 DEF InStep
<1>9. Stepwise!SettleAs(status)
  BY <1>2, <1>3, <1>6, <1>7, <1>8, Settles
<1> QED
  BY <1>1, <1>2, <1>9 DEF Stepwise!Settle

LEMMA FailedStepBreaks ==
  ASSUME RunInv, RunInv', RecordOK, FailStep
  PROVE  Stepwise!Break
<1>1. /\ pc \in InStep \ {"log", "send"} /\ UNCHANGED <<workflow, recorded, at>> /\ final' = "failed"
      /\ statuses' = [k \in 1 .. Len(Steps) |->
                       IF k < at THEN statuses[k] ELSE IF k = at THEN "failed" ELSE "skipped"]
  BY DEF FailStep, InStep, fixed, rows
<1>2. workflow.kind = "steps" /\ final = "completed" /\ at \in 1 .. Len(Steps) /\ Len(Steps) \in Nat
  BY <1>1, UnderWay
<1>3. \A i \in 1 .. Len(Steps) : StepAt(i) = i
  BY <1>2, StepsAtPlaces
<1>4. statuses'[StepAt(at)] = "failed" /\ \A i \in 1 .. at - 1 : statuses'[StepAt(i)] = statuses[StepAt(i)]
  BY <1>1, <1>2, <1>3
<1>5. Taken' = at
  BY <1>1 DEF Taken
<1>6. pc \notin {"charge", "done", "stopped"}
  BY <1>1 DEF InStep
<1>7. Stepwise!SettleAs("failed")
  BY <1>1, <1>2, <1>4, <1>5, <1>6, Settles
<1> QED
  BY <1>1, <1>7 DEF Stepwise!Break

LEMMA Below ==
  ASSUME NEW n \in Nat, NEW a \in 1 .. n
  PROVE  ~(a < a) /\ \A i \in 1 .. a - 1 : i \in 1 .. n /\ i < a
  OBVIOUS

\* A step of a plan.
LEMMA PlanSettles ==
  ASSUME RunInv, RunInv', RecordOK, pc \in {"plan done", "plan fails"}, UNCHANGED <<workflow, recorded>>,
         NEW status, statuses' = [statuses EXCEPT ![Current] = status], Taken' = at
  PROVE  Stepwise!SettleAs(status)
<1>0. /\ workflow.kind = "plan" /\ Len(Steps) \in Nat /\ final = "completed"
      /\ at \in 1 .. Len(Steps)
  BY PlanUnderWay
<1>1. \A k \in 1 .. Len(Steps) : statuses[k] = IF Place(k) < at THEN "success" ELSE "pending"
  BY PlanUnderWay
<1>2. \A k \in 1 .. Len(Steps) :
        statuses'[k] = IF Place(k) < at THEN "success"
                       ELSE IF Place(k) = at THEN status ELSE "pending"
  BY PlanStatus
<1>3. \A i \in 1 .. Len(Steps) : StepAt(i) \in 1 .. Len(Steps) /\ Place(StepAt(i)) = i
  BY <1>0, StepsAtPlaces
<1>4. statuses'[StepAt(at)] = status
  <2>1. StepAt(at) \in 1 .. Len(Steps) /\ Place(StepAt(at)) = at
    BY <1>0, <1>3, Zenon
  <2> QED
    BY <1>0, <1>2, <2>1, Below
<1>5. \A i \in 1 .. at - 1 : statuses'[StepAt(i)] = statuses[StepAt(i)]
  <2> TAKE i \in 1 .. at - 1
  <2>1. i \in 1 .. Len(Steps) /\ i < at
    BY <1>0, Below, Zenon
  <2>2. StepAt(i) \in 1 .. Len(Steps) /\ Place(StepAt(i)) = i
    BY <1>3, <2>1
  <2> QED
    BY <1>1, <1>2, <2>1, <2>2
<1> QED
  BY <1>0, <1>4, <1>5, Settles

LEMMA StepwiseKept ==
  ASSUME RunInv, RunInv', RecordOK, [Next]_vars
  PROVE  [Stepwise!Next]_(Stepwise!vars)
<1>1. CASE Unnoticed
  BY <1>1, NothingSettled DEF Unnoticed
<1>2. CASE StepIsOver
  BY <1>2, StepIsSettled DEF Stepwise!Next
<1>3. CASE StartStep
  <2>1. /\ pc = "step" /\ statuses' = [statuses EXCEPT ![at] = "running"]
        /\ UNCHANGED <<workflow, at, final, recorded>>
    BY <1>3 DEF StartStep, AtStep, fixed, rows
  <2>2. workflow.kind = "steps" /\ final = "completed" /\ Len(Steps) \in Nat /\ at \in 1 .. Len(Steps) + 1
    BY <2>1, UnderWay
  <2>3. statuses \in [1 .. Len(Steps) -> Statuses]
    BY DEF RunInv, Progress, ControlOK
  <2>4. \A i \in 1 .. Taken : StepAt(i) = i /\ i \in 1 .. Len(Steps) /\ i # at
    BY <2>2, StepsAtPlaces DEF Taken
  <2>5. \A i \in 1 .. Taken : statuses'[StepAt(i)] = statuses[StepAt(i)]
    BY <2>1, <2>3, <2>4
  <2> QED
    BY <2>1, <2>5, NothingSettled
<1>4. CASE FailStep
  BY <1>4, FailedStepBreaks DEF Stepwise!Next
<1>5. CASE PlanNext
  <2>1. /\ pc = "plan done" /\ statuses' = [statuses EXCEPT ![Current] = "success"] /\ at' = at + 1
        /\ UNCHANGED <<workflow, recorded, final>>
    BY <1>5 DEF PlanNext, fixed, rows
  <2>2. final = "completed" /\ at \in 1 .. Len(Steps)
    BY <2>1, PlanUnderWay
  <2>3. Taken' = at
    <3>1. at' = at + 1 /\ final' = "completed" /\ at \in Int
      BY <2>1, <2>2, NotBeyond
    <3> QED
      BY <3>1 DEF Taken
  <2>4. Stepwise!SettleAs("success")
    BY <2>1, <2>3, PlanSettles
  <2> QED
    BY <2>1, <2>4 DEF Stepwise!Settle, Stepwise!Next
<1>6. CASE PlanFails
  <2>1. /\ pc = "plan fails" /\ statuses' = [statuses EXCEPT ![Current] = "failed"] /\ at' = at
        /\ UNCHANGED <<workflow, recorded>> /\ final' = "failed"
    BY <1>6 DEF PlanFails, fixed, rows
  <2>2. Taken' = at
    BY <2>1 DEF Taken
  <2>3. Stepwise!SettleAs("failed")
    BY <2>1, <2>2, PlanSettles
  <2> QED
    BY <2>1, <2>3 DEF Stepwise!Break, Stepwise!Next
<1>7. CASE Record
  <2>1. /\ pc = "record" /\ recorded = {} /\ UNCHANGED <<workflow, at, statuses, final>>
        /\ recorded' = recorded \/ recorded' = recorded \cup {final}
    BY <1>7 DEF Record, RecordOK, fixed, control
  <2>2. UNCHANGED <<SettledNow, Len(Steps) - Taken>>
    <3>1. Taken' = Taken /\ Steps' = Steps
      BY <2>1 DEF Taken, Steps
    <3> QED
      BY <2>1, <3>1, SameSteps DEF SettledNow
  <2>3. CASE recorded' = recorded
    BY <2>1, <2>3, NothingSettled
  <2>4. CASE recorded' = {final} /\ final = "failed"
    BY <2>1, <2>2, <2>4 DEF Stepwise!Fail, Stepwise!Next, SettledNow
  <2>5. CASE recorded' = {final} /\ final = "completed"
    <3>1. Len(Steps) - Taken = 0
      <4>1. at = Len(Steps) + 1 /\ Len(Steps) \in Nat
        BY <2>1, <2>5, NotBeyond DEF RecordOK
      <4> QED
        BY <2>5, <4>1 DEF Taken
    <3> QED
      BY <2>1, <2>2, <2>5, <3>1 DEF Stepwise!Complete, Stepwise!Open, Stepwise!Next, SettledNow
  <2>6. final \in {"completed", "failed"}
    BY DEF RunInv, Progress, ControlOK
  <2> QED
    BY <2>1, <2>3, <2>4, <2>5, <2>6
<1> QED
  BY <1>1, <1>2, <1>3, <1>4, <1>5, <1>6, <1>7, Effect

(***************************************************************************)
(* The runners implement the run of steps.                                 *)
(***************************************************************************)
THEOREM RunnersRunStepwise == Spec => StepsAreRunStepwise
<1>1. Init => RunInv /\ RecordOK
  BY RunInvInit DEF Init, RecordOK
<1>2. Init => Stepwise!Init
  <2> SUFFICES ASSUME Init
               PROVE  Stepwise!Init
    OBVIOUS
  <2>1. /\ RunInv /\ at = 1 /\ final = "completed" /\ recorded = {}
    BY RunInvInit DEF Init
  <2>2. Taken = 0 /\ Len(Steps) \in Nat
    BY <2>1, SettledTypes DEF Taken
  <2>3. SettledNow = <<>>
    <3>1. SettledNow \in [1 .. 0 -> Statuses]
      BY <2>1, <2>2, SettledTypes
    <3> QED
      BY <3>1
  <2> QED
    BY <2>1, <2>2, <2>3 DEF Stepwise!Init, SettledNow
<1>3. RunInv /\ RecordOK /\ [Next]_vars => RunInv' /\ RecordOK'
  BY RunInvKept, RecordOKKept
<1>4. RunInv /\ RecordOK /\ [Next]_vars => [Stepwise!Next]_(Stepwise!vars)
  BY RunInvKept, StepwiseKept
<1> QED
  BY <1>1, <1>2, <1>3, <1>4, PTL DEF Spec, StepsAreRunStepwise, Stepwise!Spec
=============================================================================
