----------------------- MODULE DataDictionary_proofs -----------------------
(***************************************************************************)
(* Proofs about a data source, what is found out about it and what is      *)
(* learned of it: MetadataJobs, LearnedRules and DataDictionary, for every *)
(* number of threads, tables, requests and faults.  All are theorems of    *)
(* DictionarySpec, the specification in which the requests of all three    *)
(* modules overlap.                                                        *)
(***************************************************************************)
EXTENDS DataDictionary, FiniteSetTheorems, TLAPS

(***************************************************************************)
(* About numbers and sorted lists, of what is modelled here only SortedBy. *)
(***************************************************************************)
\* A set of numbers has a least one: of the intervals up to its members one
\* holds no other, because the finite subsets are well-founded.
LEMMA LeastNumber ==
  ASSUME NEW T \in SUBSET Nat, T # {}
  PROVE  \E n \in T : \A m \in T : n <= m
  <1> DEFINE W == {0 .. n : n \in T}
             R == StrictSubsetOrdering(Nat)
  <1>1. IsWellFoundedOn(R, FiniteSubsetsOf(Nat))
    BY FS_StrictSubsetOrderingWellFounded
  <1>2. W \subseteq FiniteSubsetsOf(Nat)
    <2>1. ASSUME NEW n \in T PROVE 0 .. n \in FiniteSubsetsOf(Nat)
      <3>1. IsFiniteSet(0 .. n)
        BY FS_Interval
      <3> QED  BY <3>1 DEF FiniteSubsetsOf
    <2> QED  BY <2>1
  <1>3. W # {}
    OBVIOUS
  <1> HIDE DEF R
  <1>4. PICK x \in W : \A y \in W : <<y, x>> \notin R
    BY <1>1, <1>2, <1>3, WFMin
  <1>5. PICK n \in T : x = 0 .. n
    BY <1>4
  <1>6. ASSUME NEW m \in T PROVE n <= m
    <2> SUFFICES ASSUME m < n PROVE FALSE
      OBVIOUS
    <2>1. <<0 .. m, 0 .. n>> \in R
      <3>1. 0 .. m \in SUBSET Nat /\ 0 .. n \in SUBSET Nat
        OBVIOUS
      <3>2. 0 .. m \subseteq 0 .. n
        OBVIOUS
      <3>3. n \in 0 .. n /\ n \notin 0 .. m
        OBVIOUS
      <3> QED  BY <3>1, <3>2, <3>3 DEF R, StrictSubsetOrdering
    <2> QED  BY <1>4, <1>5, <2>1
  <1> QED  BY <1>6

LEMMA MinIsLeast ==
  ASSUME NEW S \in SUBSET Nat, S # {}
  PROVE  Min(S) \in S /\ \A m \in S : Min(S) <= m
  BY LeastNumber DEF Min

\* A function to numbers has a greatest value.
LEMMA GreatestValue ==
  ASSUME NEW S, IsFiniteSet(S), S # {}, NEW f, \A x \in S : f[x] \in Int
  PROVE  \E x \in S : \A y \in S : f[y] <= f[x]
  <1> DEFINE Bad == {T \in SUBSET S : T # {} /\ \A x \in T : \E y \in T : ~(f[y] <= f[x])}
             R == StrictSubsetOrdering(S)
  <1> SUFFICES ASSUME Bad # {} PROVE FALSE
    OBVIOUS
  <1>1. Bad \subseteq FiniteSubsetsOf(S)
    BY FS_FiniteSubsetsOfFinite
  <1>2. IsWellFoundedOn(R, FiniteSubsetsOf(S))
    BY FS_StrictSubsetOrderingWellFounded
  <1> HIDE DEF R
  <1>3. PICK T \in Bad : \A U \in Bad : <<U, T>> \notin R
    <2> HIDE DEF Bad
    <2> QED  BY <1>1, <1>2, WFMin
  <1>4. PICK x \in T : TRUE
    BY <1>3
  <1>5. T \ {x} \notin Bad
    BY <1>3, <1>4 DEF R, StrictSubsetOrdering
  <1>6. CASE T = {x}
    BY <1>3, <1>6
  <1>7. CASE T # {x}
    <2>1. PICK m \in T \ {x} : \A y \in T \ {x} : f[y] <= f[m]
      BY <1>3, <1>4, <1>5, <1>7
    <2>2. f[x] \in Int /\ f[m] \in Int
      BY <1>3, <2>1
    <2>3. CASE f[x] <= f[m]
      BY <1>3, <2>1, <2>3
    <2>4. CASE ~(f[x] <= f[m])
      <3>1. \A y \in T : f[y] <= f[x]
        <4> TAKE y \in T
        <4>1. f[y] \in Int
          BY <1>3
        <4>2. CASE y = x
          BY <2>2, <4>2
        <4>3. CASE y # x
          BY <2>1, <2>2, <2>4, <4>1, <4>3
        <4> QED  BY <4>2, <4>3
      <3> QED  BY <1>3, <3>1
    <2> QED  BY <2>3, <2>4
  <1> QED  BY <1>6, <1>7

-----------------------------------------------------------------------------
\* SetToSeq lists every member.
LEMMA Enumerated ==
  ASSUME NEW S, IsFiniteSet(S)
  PROVE  /\ SetToSeq(S) \in [1 .. Cardinality(S) -> S]
         /\ \A x \in S : \E i \in 1 .. Cardinality(S) : SetToSeq(S)[i] = x
  <1> DEFINE n == Cardinality(S)
  <1>1. n \in Nat /\ ExistsBijection(1 .. n, S)
    BY FS_CardinalityType
  <1>2. \E f \in [1 .. n -> S] : IsInjective(f)
    BY <1>1 DEF ExistsBijection, Bijection, Injection, IsInjective
  <1>3. SetToSeq(S) \in [1 .. n -> S] /\ IsInjective(SetToSeq(S))
    BY <1>2 DEF SetToSeq
  <1>4. SetToSeq(S) \in Injection(1 .. n, S)
    BY <1>3 DEF Injection, IsInjective
  <1>5. Cardinality(1 .. n) = n
    BY <1>1, FS_Interval
  <1>6. SetToSeq(S) \in Surjection(1 .. n, S)
    BY <1>4, <1>5, FS_Injection
  <1> QED  BY <1>3, <1>6 DEF Surjection

\* SortedBy lists every member once, and by their keys.  There is such a list: each at
\* the place that is the number of those up to it, of one key in the order of SetToSeq.
LEMMA SortedByEnumerates ==
  ASSUME NEW S, IsFiniteSet(S), NEW key, \A x \in S : key[x] \in Int
  PROVE  /\ SortedBy(S, key) \in [1 .. Cardinality(S) -> S]
         /\ \A m, n \in 1 .. Cardinality(S) : SortedBy(S, key)[m] = SortedBy(S, key)[n] => m = n
         /\ Cardinality(S) \in Nat
  <1> DEFINE N == Cardinality(S)
             any == SetToSeq(S)
             at == [x \in S |-> CHOOSE i \in DOMAIN any : any[i] = x]
             Upto(x) == {y \in S : key[y] < key[x] \/ (key[y] = key[x] /\ at[y] <= at[x])}
             place == [x \in S |-> Cardinality(Upto(x))]
             order == [n \in 1 .. N |-> CHOOSE x \in S : place[x] = n]
             Sorted(o) == /\ IsInjective(o)
                          /\ \A m, n \in DOMAIN o : key[o[m]] < key[o[n]] => m < n
  <1>2. N \in Nat
    BY FS_CardinalityType
  <1>3. \A x \in S : at[x] \in 1 .. N /\ any[at[x]] = x
    BY Enumerated
  <1> HIDE DEF at, any
  <1>4. \A x \in S : x \in Upto(x)
    BY <1>3
  <1>5. ASSUME NEW x \in S, NEW y \in S, x # y, x \in Upto(y)
        PROVE  Upto(x) \subseteq Upto(y) /\ y \notin Upto(x)
    <2>1. at[x] # at[y]
      BY <1>3, <1>5
    <2>2. \A z \in S : at[z] \in Int /\ key[z] \in Int
      BY <1>3
    <2> QED  BY <1>5, <2>1, <2>2
  <1>6. ASSUME NEW x \in S, NEW y \in S, x # y PROVE x \in Upto(y) \/ y \in Upto(x)
    <2>1. \A z \in S : at[z] \in Int /\ key[z] \in Int
      BY <1>3
    <2> QED  BY <1>6, <2>1
  <1>7. \A x \in S : Upto(x) \in SUBSET S /\ IsFiniteSet(Upto(x)) /\ Cardinality(Upto(x)) \in 1 .. N
    <2> TAKE x \in S
    <2>1. Upto(x) \in SUBSET S
      OBVIOUS
    <2>2. Upto(x) # {}
      BY <1>4
    <2> HIDE DEF Upto
    <2>3. IsFiniteSet(Upto(x)) /\ Cardinality(Upto(x)) <= N
      BY <2>1, FS_Subset
    <2>4. Cardinality(Upto(x)) \in Nat /\ Cardinality(Upto(x)) # 0
      BY <2>2, <2>3, FS_CardinalityType, FS_EmptySet
    <2> QED  BY <1>2, <2>1, <2>3, <2>4
  <1>8. ASSUME NEW x \in S, NEW y \in S, x # y, x \in Upto(y) PROVE Cardinality(Upto(x)) < Cardinality(Upto(y))
    <2>1. Upto(x) \in SUBSET Upto(y) /\ Upto(x) # Upto(y)
      BY <1>4, <1>5, <1>8
    <2>2. Cardinality(Upto(x)) \in Int /\ Cardinality(Upto(y)) \in Int /\ IsFiniteSet(Upto(y))
      BY <1>7
    <2> HIDE DEF Upto
    <2>3. Cardinality(Upto(x)) <= Cardinality(Upto(y)) /\ Cardinality(Upto(x)) # Cardinality(Upto(y))
      BY <2>1, <2>2, FS_Subset
    <2> QED  BY <2>2, <2>3
  <1>9. \A x, y \in S : key[x] < key[y] => x # y /\ x \in Upto(y)
    OBVIOUS
  <1> HIDE DEF Upto
  <1>10. place \in [S -> 1 .. N]
    BY <1>7
  <1>11. \A x, y \in S : x # y /\ x \in Upto(y) => place[x] < place[y]
    BY <1>8
  <1>12. \A x, y \in S : place[x] = place[y] => x = y
    <2> HIDE DEF place
    <2>1. \A x \in S : place[x] \in Int
      BY <1>10
    <2> QED  BY <1>6, <1>11, <2>1
  <1> HIDE DEF place
  <1>13. place \in Injection(S, 1 .. N)
    BY <1>10, <1>12 DEF Injection, IsInjective
  <1>14. IsFiniteSet(1 .. N) /\ Cardinality(1 .. N) = N
    BY <1>2, FS_Interval
  <1>15. place \in Surjection(S, 1 .. N)
    BY <1>13, <1>14, FS_Injection
  <1>16. \A n \in 1 .. N : \E x \in S : place[x] = n
    BY <1>15 DEF Surjection
  <1>17. order \in [1 .. N -> S] /\ \A n \in 1 .. N : place[order[n]] = n
    BY <1>16
  <1> HIDE DEF order
  <1>18. Sorted(order)
    <2>1. \A m, n \in 1 .. N : key[order[m]] < key[order[n]] => m < n
      BY <1>9, <1>11, <1>17
    <2>2. DOMAIN order = 1 .. N
      BY <1>17
    <2> QED  BY <1>17, <2>1, <2>2 DEF IsInjective
  <1>19. SortedBy(S, key) = CHOOSE o \in [1 .. N -> S] : Sorted(o)
    BY DEF SortedBy
  <1> HIDE DEF Sorted
  <1>20. SortedBy(S, key) \in [1 .. N -> S] /\ Sorted(SortedBy(S, key))
    BY <1>17, <1>18, <1>19
  <1> QED  BY <1>2, <1>20 DEF Sorted, IsInjective
-----------------------------------------------------------------------------
USE MetadataJobsAssumption, LearnedRulesAssumption
USE DEF IsThere, Rows, Counters

(***************************************************************************)
(* What each thread relies on between two storage calls, as long as the    *)
(* source is there.  (A thread that goes on after the deletion finds       *)
(* nothing to write to: the source does not come back.)                    *)
(***************************************************************************)
Threads == [pc : JobSteps \cup {"idle", "look", "delete"}, kind : Kinds, ver : Nat,
            id : Nat, todo : SUBSET Tables]

Shape(w) ==
  /\ call[w].pc \in {"load", "running", "profiling", "complete", "failed"} => call[w].kind = "job"
  /\ call[w].pc \in {"look", "delete"} => call[w].kind = "delete"
  /\ call[w].kind = "delete" => call[w].pc \in {"idle", "look", "delete"}

Whole(i) == profiles[i].has = profiles[i].wants

SomeWhole == \E i \in DOMAIN profiles : Whole(i)

ThreadOK(w) ==
  /\ Shape(w)
  /\ IsThere =>
       /\ call[w].pc = "insert" => call[w].ver \in 1 .. Len(schemas) + 1
       /\ call[w].pc = "snapshot" => call[w].ver \in 1 .. Len(profiles) + 1
       /\ call[w].pc = "table" =>
            /\ call[w].id \in DOMAIN profiles
            /\ profiles[call[w].id].wants = profiles[call[w].id].has \cup call[w].todo
       /\ call[w].pc = "complete" => SomeWhole

SourceOK ==
  /\ ~IsThere => job = "none" /\ schemas = <<>> /\ profiles = <<>> /\ last = 0
  /\ source = "new" => \A w \in Workers : call[w].pc = "idle"

MetaInv ==
  /\ TypeOK /\ SourceOK /\ \A w \in Workers : ThreadOK(w)
  /\ RunningJobsAreRun /\ CompleteJobsHaveProfiles /\ ThinProfilesAreBeingSaved
  /\ VersionsFollowInserts

(***************************************************************************)
(* While requests do not overlap, the one there is works on the newest     *)
(* schema snapshot.                                                        *)
(***************************************************************************)
OrderInv ==
  ~overlapped =>
    /\ \A v, w \in Workers : call[v].pc # "idle" /\ call[w].pc # "idle" => v = w
    /\ IsThere => \A w \in Workers : call[w].pc \in {"point", "number", "snapshot"} =>
                                       call[w].id = Len(schemas)
    /\ \A i \in DOMAIN profiles : profiles[i].schema <= Len(schemas)
    /\ NewestIsOfNewest
-----------------------------------------------------------------------------
Moved(w, pc) == [call[w] EXCEPT !.pc = pc]

LEMMA ThreadsType == ASSUME MetaInv, NEW w \in Workers PROVE call[w] \in Threads
  BY DEF MetaInv, TypeOK, Threads

LEMMA Numbered ==
  ASSUME NEW t \in Threads, NEW pc \in JobSteps, NEW ver \in Nat, NEW todo \in SUBSET Tables
  PROVE  [t EXCEPT !.pc = pc, !.ver = ver, !.todo = todo] \in Threads
  BY DEF Threads

LEMMA Versioned ==
  ASSUME NEW t \in Threads, NEW pc \in JobSteps, NEW ver \in Nat, NEW todo \in SUBSET Tables
  PROVE  [t EXCEPT !.pc = pc, !.todo = todo, !.ver = ver] \in Threads
  BY DEF Threads

LEMMA Inserted ==
  ASSUME NEW t \in Threads, NEW pc \in JobSteps, NEW id \in Nat
  PROVE  [t EXCEPT !.pc = pc, !.id = id] \in Threads
  BY DEF Threads

LEMMA OneRowChanges ==
  ASSUME NEW S, NEW s \in Seq(S), NEW i \in DOMAIN s, NEW r \in S
  PROVE  /\ [s EXCEPT ![i] = r] \in Seq(S)
         /\ DOMAIN [s EXCEPT ![i] = r] = DOMAIN s /\ Len([s EXCEPT ![i] = r]) = Len(s)
         /\ \A j \in DOMAIN s : [s EXCEPT ![i] = r][j] = IF j = i THEN r ELSE s[j]
  OBVIOUS

LEMMA MovedType ==
  ASSUME MetaInv, NEW w \in Workers
  PROVE  /\ Idle \in Threads
         /\ \A pc \in JobSteps \cup {"idle", "look", "delete"} : Moved(w, pc) \in Threads
         /\ {"running", "profiling", "failed", "version", "schema", "complete"} \subseteq JobSteps
  BY ThreadsType DEF Threads, Moved, Idle, JobSteps, Discovery, Profiling, Kinds

-----------------------------------------------------------------------------
LEMMA OneCallChanges ==
  ASSUME TypeOK, NEW w \in Workers, NEW c \in Threads, call' = [call EXCEPT ![w] = c]
  PROVE  /\ call' \in [Workers -> Threads]
         /\ call'[w] = c
         /\ \A v \in Workers : v # w => call'[v] = call[v]
  BY DEF TypeOK, Threads

\* A step of w that leaves the rows alone.
LEMMA ThreadGoesOn ==
  ASSUME MetaInv, NEW w \in Workers, UNCHANGED Rows,
         call' \in [Workers -> Threads], \A v \in Workers : v # w => call'[v] = call[v],
         calls' \in 0 .. MaxCalls, faults' \in 0 .. MaxFaults, overlapped' \in BOOLEAN,
         faults' >= faults,
         ThreadOK(w)', source = "new" => call'[w].pc = "idle",
         faults' = 0 /\ w \in Runners => w \in Runners',
         IsThere /\ faults' = 0 /\ call[w].pc = "table" =>
           Whole(call[w].id) \/ (call'[w].pc = "table" /\ call'[w].id = call[w].id)
  PROVE  MetaInv'
  <1> USE DEF MetaInv
  <1>1. TypeOK'
    <2>1. job' \in JobStatuses /\ schemas' \in Seq(Snapshots) /\ profiles' \in Seq(Profiles)
      BY DEF TypeOK
    <2> QED  BY <2>1 DEF TypeOK, Threads
  <1>2. SourceOK'
    BY DEF SourceOK
  <1>3. ASSUME NEW v \in Workers, v # w PROVE ThreadOK(v)'
    BY <1>3 DEF ThreadOK, Shape, SomeWhole, Whole
  <1>4. RunningJobsAreRun'
    <2> SUFFICES ASSUME faults' = 0, job' = "RUNNING" PROVE Runners' # {}
      BY DEF RunningJobsAreRun
    <2>1. faults = 0
      BY DEF TypeOK
    <2>2. PICK v \in Workers : v \in Runners
      BY <2>1 DEF RunningJobsAreRun, Runners
    <2>3. v \in Runners'
      BY <2>2 DEF Runners
    <2> QED  BY <2>3
  <1>5. CompleteJobsHaveProfiles'
    BY DEF CompleteJobsHaveProfiles
  <1>6. ThinProfilesAreBeingSaved'
    <2> SUFFICES ASSUME faults' = 0, NEW i \in DOMAIN profiles, ~Whole(i)
                 PROVE  \E v \in Workers : call'[v].pc = "table" /\ call'[v].id = i
      BY DEF ThinProfilesAreBeingSaved, Whole
    <2>1. faults = 0
      BY DEF TypeOK
    <2>2. PICK v \in Workers : call[v].pc = "table" /\ call[v].id = i
      BY <2>1 DEF ThinProfilesAreBeingSaved, Whole
    <2>3. IsThere
      BY DEF SourceOK
    <2> QED  BY <2>2, <2>3
  <1>7. VersionsFollowInserts'
    BY DEF VersionsFollowInserts
  <1> QED  BY <1>1, <1>2, <1>3, <1>4, <1>5, <1>6, <1>7

LEMMA RequestIsSound ==
  ASSUME MetaInv, NEW w \in Workers, NEW kind \in Kinds, Request(w, kind)
  PROVE  MetaInv'
  <1> USE DEF MetaInv, Request
  <1>1. PICK c \in Threads : call' = [call EXCEPT ![w] = c]
    BY DEF TypeOK, Threads, JobSteps, Discovery, Profiling, Idle, Kinds
  <1>2. call' \in [Workers -> Threads] /\ call'[w] = c /\ \A v \in Workers : v # w => call'[v] = call[v]
    BY <1>1, OneCallChanges
  <1>3. /\ calls' \in 0 .. MaxCalls /\ faults' \in 0 .. MaxFaults /\ faults' >= faults
        /\ overlapped' \in BOOLEAN
    BY DEF TypeOK
  <1>4. ThreadOK(w)' /\ (source = "new" => call'[w].pc = "idle")
    BY <1>1, <1>2 DEF ThreadOK, Shape, SourceOK, SomeWhole, Whole, Idle, TypeOK, Discovery, Profiling
  <1>5. faults' = 0 /\ w \in Runners => w \in Runners'
    BY <1>1, <1>2 DEF Runners, ThreadOK, Shape, Idle, TypeOK, Discovery, Profiling
  <1>6. IsThere /\ faults' = 0 /\ call[w].pc = "table" =>
           Whole(call[w].id) \/ (call'[w].pc = "table" /\ call'[w].id = call[w].id)
    BY <1>1, <1>2 DEF Whole, ThreadOK, TypeOK
  <1> QED  BY <1>2, <1>3, <1>4, <1>5, <1>6, ThreadGoesOn

LEMMA LoadJobIsSound ==
  ASSUME MetaInv, NEW w \in Workers, LoadJob(w)
  PROVE  MetaInv'
  <1> USE DEF MetaInv, LoadJob, Goto, End, Proceed, Raise, AfterDiscovery, AfterProfiling
  <1>1. PICK c \in Threads : call' = [call EXCEPT ![w] = c]
    <2> DEFINE c == IF job = "none" THEN Idle ELSE Moved(w, "running")
    <2>1. c \in Threads
      BY MovedType
    <2>2. call' = [call EXCEPT ![w] = c]
      BY DEF Moved
    <2> QED  BY <2>1, <2>2
  <1>2. call' \in [Workers -> Threads] /\ call'[w] = c /\ \A v \in Workers : v # w => call'[v] = call[v]
    BY <1>1, OneCallChanges
  <1>3. /\ calls' \in 0 .. MaxCalls /\ faults' \in 0 .. MaxFaults /\ faults' >= faults
        /\ overlapped' \in BOOLEAN
    BY DEF TypeOK
  <1>4. ThreadOK(w)' /\ (source = "new" => call'[w].pc = "idle")
    BY <1>1, <1>2 DEF ThreadOK, Shape, SourceOK, SomeWhole, Whole, Idle, TypeOK, Discovery, Profiling
  <1>5. faults' = 0 /\ w \in Runners => w \in Runners'
    BY <1>1, <1>2 DEF Runners, ThreadOK, Shape, Idle, TypeOK, Discovery, Profiling
  <1>6. IsThere /\ faults' = 0 /\ call[w].pc = "table" =>
           Whole(call[w].id) \/ (call'[w].pc = "table" /\ call'[w].id = call[w].id)
    BY <1>1, <1>2 DEF Whole, ThreadOK, TypeOK
  <1> QED  BY <1>2, <1>3, <1>4, <1>5, <1>6, ThreadGoesOn

LEMMA CheckSourceIsSound ==
  ASSUME MetaInv, NEW w \in Workers, CheckSource(w)
  PROVE  MetaInv'
  <1> USE DEF MetaInv, CheckSource, Goto, End, Proceed, Raise, AfterDiscovery, AfterProfiling
  <1>1. PICK c \in Threads : call' = [call EXCEPT ![w] = c]
    <2> DEFINE c == IF IsThere THEN Moved(w, "version") ELSE IF call[w].kind = "job" THEN Moved(w, "profiling") ELSE Idle
    <2>1. c \in Threads
      BY MovedType
    <2>2. call' = [call EXCEPT ![w] = c]
      BY DEF Moved
    <2> QED  BY <2>1, <2>2
  <1>2. call' \in [Workers -> Threads] /\ call'[w] = c /\ \A v \in Workers : v # w => call'[v] = call[v]
    BY <1>1, OneCallChanges
  <1>3. /\ calls' \in 0 .. MaxCalls /\ faults' \in 0 .. MaxFaults /\ faults' >= faults
        /\ overlapped' \in BOOLEAN
    BY DEF TypeOK
  <1>4. ThreadOK(w)' /\ (source = "new" => call'[w].pc = "idle")
    BY <1>1, <1>2 DEF ThreadOK, Shape, SourceOK, SomeWhole, Whole, Idle, TypeOK, Discovery, Profiling
  <1>5. faults' = 0 /\ w \in Runners => w \in Runners'
    BY <1>1, <1>2 DEF Runners, ThreadOK, Shape, Idle, TypeOK, Discovery, Profiling
  <1>6. IsThere /\ faults' = 0 /\ call[w].pc = "table" =>
           Whole(call[w].id) \/ (call'[w].pc = "table" /\ call'[w].id = call[w].id)
    BY <1>1, <1>2 DEF Whole, ThreadOK, TypeOK
  <1> QED  BY <1>2, <1>3, <1>4, <1>5, <1>6, ThreadGoesOn

LEMMA ReadVersionIsSound ==
  ASSUME MetaInv, NEW w \in Workers, ReadVersion(w)
  PROVE  MetaInv'
  <1> USE DEF MetaInv, ReadVersion, Goto, End, Proceed, Raise, AfterDiscovery, AfterProfiling
  <1>1. PICK c \in Threads : call' = [call EXCEPT ![w] = c]
    <2>1. PICK found \in Found :
            call' = [call EXCEPT ![w].pc = "insert", ![w].todo = found, ![w].ver = Len(schemas) + 1]
      OBVIOUS
    <2> DEFINE c == [call[w] EXCEPT !.pc = "insert", !.todo = found, !.ver = Len(schemas) + 1]
    <2>2. c \in Threads
      <3>1. "insert" \in JobSteps /\ Len(schemas) + 1 \in Nat /\ found \in SUBSET Tables
        BY DEF JobSteps, Discovery, TypeOK
      <3> QED  BY <3>1, ThreadsType, Versioned
    <2>3. call' = [call EXCEPT ![w] = c]
      BY <2>1
    <2> QED  BY <2>2, <2>3
  <1>2. call' \in [Workers -> Threads] /\ call'[w] = c /\ \A v \in Workers : v # w => call'[v] = call[v]
    BY <1>1, OneCallChanges
  <1>3. /\ calls' \in 0 .. MaxCalls /\ faults' \in 0 .. MaxFaults /\ faults' >= faults
        /\ overlapped' \in BOOLEAN
    BY DEF TypeOK
  <1>4. ThreadOK(w)' /\ (source = "new" => call'[w].pc = "idle")
    BY <1>1, <1>2 DEF ThreadOK, Shape, SourceOK, SomeWhole, Whole, Idle, TypeOK, Discovery, Profiling
  <1>5. faults' = 0 /\ w \in Runners => w \in Runners'
    BY <1>1, <1>2 DEF Runners, ThreadOK, Shape, Idle, TypeOK, Discovery, Profiling
  <1>6. IsThere /\ faults' = 0 /\ call[w].pc = "table" =>
           Whole(call[w].id) \/ (call'[w].pc = "table" /\ call'[w].id = call[w].id)
    BY <1>1, <1>2 DEF Whole, ThreadOK, TypeOK
  <1> QED  BY <1>2, <1>3, <1>4, <1>5, <1>6, ThreadGoesOn

LEMMA ConnectorFailsIsSound ==
  ASSUME MetaInv, NEW w \in Workers, ConnectorFails(w)
  PROVE  MetaInv'
  <1> USE DEF MetaInv, ConnectorFails, Goto, End, Proceed, Raise, AfterDiscovery, AfterProfiling
  <1>1. PICK c \in Threads : call' = [call EXCEPT ![w] = c]
    <2> DEFINE c == IF call[w].kind = "job" THEN Moved(w, "failed") ELSE Idle
    <2>1. c \in Threads
      BY MovedType
    <2>2. call' = [call EXCEPT ![w] = c]
      BY DEF Moved
    <2> QED  BY <2>1, <2>2
  <1>2. call' \in [Workers -> Threads] /\ call'[w] = c /\ \A v \in Workers : v # w => call'[v] = call[v]
    BY <1>1, OneCallChanges
  <1>3. /\ calls' \in 0 .. MaxCalls /\ faults' \in 0 .. MaxFaults /\ faults' >= faults
        /\ overlapped' \in BOOLEAN
    BY DEF TypeOK
  <1>4. ThreadOK(w)' /\ (source = "new" => call'[w].pc = "idle")
    BY <1>1, <1>2 DEF ThreadOK, Shape, SourceOK, SomeWhole, Whole, Idle, TypeOK, Discovery, Profiling
  <1>5. faults' = 0 /\ w \in Runners => w \in Runners'
    BY <1>1, <1>2 DEF Runners, ThreadOK, Shape, Idle, TypeOK, Discovery, Profiling
  <1>6. IsThere /\ faults' = 0 /\ call[w].pc = "table" =>
           Whole(call[w].id) \/ (call'[w].pc = "table" /\ call'[w].id = call[w].id)
    BY <1>1, <1>2 DEF Whole, ThreadOK, TypeOK
  <1> QED  BY <1>2, <1>3, <1>4, <1>5, <1>6, ThreadGoesOn

LEMMA CheckOwnerIsSound ==
  ASSUME MetaInv, NEW w \in Workers, CheckOwner(w)
  PROVE  MetaInv'
  <1> USE DEF MetaInv, CheckOwner, Goto, End, Proceed, Raise, AfterDiscovery, AfterProfiling
  <1>1. PICK c \in Threads : call' = [call EXCEPT ![w] = c]
    <2> DEFINE c == IF IsThere THEN Moved(w, "schema") ELSE IF call[w].kind = "job" THEN Moved(w, "complete") ELSE Idle
    <2>1. c \in Threads
      BY MovedType
    <2>2. call' = [call EXCEPT ![w] = c]
      BY DEF Moved
    <2> QED  BY <2>1, <2>2
  <1>2. call' \in [Workers -> Threads] /\ call'[w] = c /\ \A v \in Workers : v # w => call'[v] = call[v]
    BY <1>1, OneCallChanges
  <1>3. /\ calls' \in 0 .. MaxCalls /\ faults' \in 0 .. MaxFaults /\ faults' >= faults
        /\ overlapped' \in BOOLEAN
    BY DEF TypeOK
  <1>4. ThreadOK(w)' /\ (source = "new" => call'[w].pc = "idle")
    BY <1>1, <1>2 DEF ThreadOK, Shape, SourceOK, SomeWhole, Whole, Idle, TypeOK, Discovery, Profiling
  <1>5. faults' = 0 /\ w \in Runners => w \in Runners'
    BY <1>1, <1>2 DEF Runners, ThreadOK, Shape, Idle, TypeOK, Discovery, Profiling
  <1>6. IsThere /\ faults' = 0 /\ call[w].pc = "table" =>
           Whole(call[w].id) \/ (call'[w].pc = "table" /\ call'[w].id = call[w].id)
    BY <1>1, <1>2 DEF Whole, ThreadOK, TypeOK
  <1> QED  BY <1>2, <1>3, <1>4, <1>5, <1>6, ThreadGoesOn

LEMMA ReadSchemaIsSound ==
  ASSUME MetaInv, NEW w \in Workers, ReadSchema(w)
  PROVE  MetaInv'
  <1> USE DEF MetaInv, ReadSchema, Goto, End, Proceed, Raise, AfterDiscovery, AfterProfiling
  <1>1. PICK c \in Threads : call' = [call EXCEPT ![w] = c]
    <2>1. CASE schemas = <<>>
      <3> DEFINE c == IF call[w].kind = "job" THEN Moved(w, "failed") ELSE Idle
      <3>1. c \in Threads
        BY MovedType
      <3>2. call' = [call EXCEPT ![w] = c]
        BY <2>1 DEF Moved
      <3> QED  BY <3>1, <3>2
    <2>2. CASE schemas # <<>>
      <3> DEFINE c == [pc |-> "number", kind |-> call[w].kind, ver |-> call[w].ver, id |-> Len(schemas),
                       todo |-> schemas[Len(schemas)].tables]
      <3>1. schemas[Len(schemas)].tables \in SUBSET Tables /\ Len(schemas) \in Nat
        BY <2>2 DEF TypeOK, Snapshots
      <3>2. c \in Threads
        BY <3>1, ThreadsType DEF Threads, JobSteps, Profiling
      <3>3. call' = [call EXCEPT ![w] = c]
        BY <2>2, ThreadsType DEF TypeOK, Threads
      <3> QED  BY <3>2, <3>3
    <2> QED  BY <2>1, <2>2
  <1>2. call' \in [Workers -> Threads] /\ call'[w] = c /\ \A v \in Workers : v # w => call'[v] = call[v]
    BY <1>1, OneCallChanges
  <1>3. /\ calls' \in 0 .. MaxCalls /\ faults' \in 0 .. MaxFaults /\ faults' >= faults
        /\ overlapped' \in BOOLEAN
    BY DEF TypeOK
  <1>4. ThreadOK(w)' /\ (source = "new" => call'[w].pc = "idle")
    BY <1>1, <1>2 DEF ThreadOK, Shape, SourceOK, SomeWhole, Whole, Idle, TypeOK, Discovery, Profiling
  <1>5. faults' = 0 /\ w \in Runners => w \in Runners'
    BY <1>1, <1>2 DEF Runners, ThreadOK, Shape, Idle, TypeOK, Discovery, Profiling
  <1>6. IsThere /\ faults' = 0 /\ call[w].pc = "table" =>
           Whole(call[w].id) \/ (call'[w].pc = "table" /\ call'[w].id = call[w].id)
    BY <1>1, <1>2 DEF Whole, ThreadOK, TypeOK
  <1> QED  BY <1>2, <1>3, <1>4, <1>5, <1>6, ThreadGoesOn

LEMMA ReadNumberIsSound ==
  ASSUME MetaInv, NEW w \in Workers, ReadNumber(w)
  PROVE  MetaInv'
  <1> USE DEF MetaInv, ReadNumber, Goto, End, Proceed, Raise, AfterDiscovery, AfterProfiling
  <1>1. PICK c \in Threads : call' = [call EXCEPT ![w] = c]
    <2> DEFINE todo == IF call[w].kind = "full" THEN call[w].todo \ Staging ELSE call[w].todo
               c == [call[w] EXCEPT !.pc = "snapshot", !.ver = Len(profiles) + 1, !.todo = todo]
    <2>1. c \in Threads
      <3>1. "snapshot" \in JobSteps /\ Len(profiles) + 1 \in Nat
        BY DEF JobSteps, Profiling, TypeOK
      <3>2. todo \in SUBSET Tables
        BY ThreadsType DEF Threads
      <3> HIDE DEF todo
      <3> QED  BY <3>1, <3>2, ThreadsType, Numbered
    <2>2. call' = [call EXCEPT ![w] = c]
      OBVIOUS
    <2> QED  BY <2>1, <2>2
  <1>2. call' \in [Workers -> Threads] /\ call'[w] = c /\ \A v \in Workers : v # w => call'[v] = call[v]
    BY <1>1, OneCallChanges
  <1>3. /\ calls' \in 0 .. MaxCalls /\ faults' \in 0 .. MaxFaults /\ faults' >= faults
        /\ overlapped' \in BOOLEAN
    BY DEF TypeOK
  <1>4. ThreadOK(w)' /\ (source = "new" => call'[w].pc = "idle")
    BY <1>1, <1>2 DEF ThreadOK, Shape, SourceOK, SomeWhole, Whole, Idle, TypeOK, Discovery, Profiling
  <1>5. faults' = 0 /\ w \in Runners => w \in Runners'
    BY <1>1, <1>2 DEF Runners, ThreadOK, Shape, Idle, TypeOK, Discovery, Profiling
  <1>6. IsThere /\ faults' = 0 /\ call[w].pc = "table" =>
           Whole(call[w].id) \/ (call'[w].pc = "table" /\ call'[w].id = call[w].id)
    BY <1>1, <1>2 DEF Whole, ThreadOK, TypeOK
  <1> QED  BY <1>2, <1>3, <1>4, <1>5, <1>6, ThreadGoesOn

LEMMA LookForJobIsSound ==
  ASSUME MetaInv, NEW w \in Workers, LookForJob(w)
  PROVE  MetaInv'
  <1> USE DEF MetaInv, LookForJob, Goto, End, Proceed, Raise, AfterDiscovery, AfterProfiling
  <1>1. PICK c \in Threads : call' = [call EXCEPT ![w] = c]
    <2> DEFINE c == IF IsThere /\ job \notin {"QUEUED", "RUNNING"} THEN Moved(w, "delete") ELSE Idle
    <2>1. c \in Threads
      BY MovedType
    <2>2. call' = [call EXCEPT ![w] = c]
      BY DEF Moved
    <2> QED  BY <2>1, <2>2
  <1>2. call' \in [Workers -> Threads] /\ call'[w] = c /\ \A v \in Workers : v # w => call'[v] = call[v]
    BY <1>1, OneCallChanges
  <1>3. /\ calls' \in 0 .. MaxCalls /\ faults' \in 0 .. MaxFaults /\ faults' >= faults
        /\ overlapped' \in BOOLEAN
    BY DEF TypeOK
  <1>4. ThreadOK(w)' /\ (source = "new" => call'[w].pc = "idle")
    BY <1>1, <1>2 DEF ThreadOK, Shape, SourceOK, SomeWhole, Whole, Idle, TypeOK, Discovery, Profiling
  <1>5. faults' = 0 /\ w \in Runners => w \in Runners'
    BY <1>1, <1>2 DEF Runners, ThreadOK, Shape, Idle, TypeOK, Discovery, Profiling
  <1>6. IsThere /\ faults' = 0 /\ call[w].pc = "table" =>
           Whole(call[w].id) \/ (call'[w].pc = "table" /\ call'[w].id = call[w].id)
    BY <1>1, <1>2 DEF Whole, ThreadOK, TypeOK
  <1> QED  BY <1>2, <1>3, <1>4, <1>5, <1>6, ThreadGoesOn

LEMMA StorageFailsIsSound ==
  ASSUME MetaInv, NEW w \in Workers, StorageFails(w)
  PROVE  MetaInv'
  <1> USE DEF MetaInv, StorageFails, Goto, End, Proceed, Raise, AfterDiscovery, AfterProfiling
  <1>1. PICK c \in Threads : call' = [call EXCEPT ![w] = c]
    <2> DEFINE c == IF call[w].pc \in Discovery \cup Profiling /\ call[w].kind = "job" THEN Moved(w, "failed") ELSE Idle
    <2>1. c \in Threads
      BY MovedType
    <2>2. call' = [call EXCEPT ![w] = c]
      BY DEF Moved
    <2> QED  BY <2>1, <2>2
  <1>2. call' \in [Workers -> Threads] /\ call'[w] = c /\ \A v \in Workers : v # w => call'[v] = call[v]
    BY <1>1, OneCallChanges
  <1>3. /\ calls' \in 0 .. MaxCalls /\ faults' \in 0 .. MaxFaults /\ faults' >= faults
        /\ overlapped' \in BOOLEAN
    BY DEF TypeOK
  <1>4. ThreadOK(w)' /\ (source = "new" => call'[w].pc = "idle")
    BY <1>1, <1>2 DEF ThreadOK, Shape, SourceOK, SomeWhole, Whole, Idle, TypeOK, Discovery, Profiling
  <1>5. faults' = 0 /\ w \in Runners => w \in Runners'
    BY <1>1, <1>2 DEF Runners, ThreadOK, Shape, Idle, TypeOK, Discovery, Profiling
  <1>6. IsThere /\ faults' = 0 /\ call[w].pc = "table" =>
           Whole(call[w].id) \/ (call'[w].pc = "table" /\ call'[w].id = call[w].id)
    BY <1>1, <1>2 DEF Whole, ThreadOK, TypeOK
  <1> QED  BY <1>2, <1>3, <1>4, <1>5, <1>6, ThreadGoesOn

-----------------------------------------------------------------------------
LEMMA CreateSourceIsSound == ASSUME MetaInv, CreateSource PROVE MetaInv'
  <1> USE DEF MetaInv, CreateSource
  <1>1. /\ \A w \in Workers : call[w].pc = "idle"
        /\ job = "none" /\ schemas = <<>> /\ profiles = <<>> /\ last = 0
    BY DEF SourceOK
  <1>2. TypeOK'
    BY DEF TypeOK
  <1>3. SourceOK' /\ \A w \in Workers : ThreadOK(w)'
    BY <1>1 DEF SourceOK, ThreadOK, Shape
  <1>4. RunningJobsAreRun' /\ CompleteJobsHaveProfiles' /\ ThinProfilesAreBeingSaved' /\ VersionsFollowInserts'
    BY <1>1 DEF RunningJobsAreRun, CompleteJobsHaveProfiles, ThinProfilesAreBeingSaved, VersionsFollowInserts
  <1> QED  BY <1>2, <1>3, <1>4

LEMMA CreateJobIsSound == ASSUME MetaInv, CreateJob PROVE MetaInv'
  <1> USE DEF MetaInv, CreateJob
  <1>1. TypeOK'
    BY DEF TypeOK, JobStatuses
  <1>2. SourceOK' /\ \A w \in Workers : ThreadOK(w)'
    BY DEF SourceOK, ThreadOK, Shape, SomeWhole, Whole
  <1>3. RunningJobsAreRun' /\ CompleteJobsHaveProfiles' /\ ThinProfilesAreBeingSaved' /\ VersionsFollowInserts'
    BY DEF RunningJobsAreRun, CompleteJobsHaveProfiles, ThinProfilesAreBeingSaved, VersionsFollowInserts
  <1> QED  BY <1>1, <1>2, <1>3

\* The job's row and nothing else: a thread that writes RUNNING is one that runs
\* it, and one that writes COMPLETE has seen a profile whole.
LEMMA UpdateJobIsSound ==
  ASSUME MetaInv, NEW w \in Workers, NEW from, NEW status \in JobStatuses, NEW to,
         UpdateJob(w, from, status, to),
         call[w].kind = "job", from \notin {"table", "idle"},
         \/ status = "RUNNING" /\ to \in {"source", "owner"}
         \/ status = "COMPLETE" /\ from = "complete" /\ to = "idle"
         \/ status = "FAILED" /\ to = "idle"
  PROVE  MetaInv'
  <1> USE DEF MetaInv
  <1> DEFINE c == IF to = "idle" THEN Idle ELSE Moved(w, to)
  <1>1. c \in Threads
    BY MovedType DEF JobSteps, Discovery, Profiling
  <1>2. call' = [call EXCEPT ![w] = c]
    BY DEF UpdateJob, Proceed, End, Goto, Moved
  <1>3. /\ call' \in [Workers -> Threads] /\ call'[w] = c
        /\ \A v \in Workers : v # w => call'[v] = call[v]
    BY <1>1, <1>2, OneCallChanges
  <1>4. /\ UNCHANGED <<source, schemas, last, profiles, calls, faults, overlapped>>
        /\ job' = IF job = "none" THEN "none" ELSE status
        /\ call[w].pc = from
    BY DEF UpdateJob
  <1>5. c.pc = to /\ (to # "idle" => c.kind = "job")
    BY ThreadsType DEF Threads, Moved, Idle
  <1> HIDE DEF c
  <1>6. TypeOK'
    <2>1. job' \in JobStatuses /\ schemas' \in Seq(Snapshots) /\ profiles' \in Seq(Profiles)
      BY <1>4 DEF TypeOK
    <2> QED  BY <2>1, <1>3, <1>4 DEF TypeOK, Threads
  <1>7. SourceOK'
    BY <1>3, <1>4, <1>5 DEF SourceOK
  <1>8. ASSUME NEW v \in Workers PROVE ThreadOK(v)'
    <2>1. CASE v = w
      BY <2>1, <1>3, <1>4, <1>5 DEF ThreadOK, Shape, c, Idle
    <2>2. CASE v # w
      BY <2>2, <1>3, <1>4 DEF ThreadOK, Shape, SomeWhole, Whole
    <2> QED  BY <2>1, <2>2
  <1>9. RunningJobsAreRun'
    <2> SUFFICES ASSUME job' = "RUNNING" PROVE Runners' # {}
      BY DEF RunningJobsAreRun
    <2>1. to \in {"source", "owner"}
      BY <1>4
    <2> QED  BY <2>1, <1>3, <1>5 DEF Runners
  <1>10. CompleteJobsHaveProfiles'
    <2> SUFFICES ASSUME job' = "COMPLETE" PROVE \E i \in DOMAIN profiles : Whole(i)
      BY <1>4 DEF CompleteJobsHaveProfiles, Whole
    <2>1. from = "complete" /\ IsThere
      BY <1>4 DEF SourceOK
    <2> QED  BY <2>1, <1>4 DEF ThreadOK, SomeWhole
  <1>11. ThinProfilesAreBeingSaved'
    BY <1>3, <1>4 DEF ThinProfilesAreBeingSaved
  <1>12. VersionsFollowInserts'
    BY <1>4 DEF VersionsFollowInserts
  <1> QED  BY <1>6, <1>7, <1>8, <1>9, <1>10, <1>11, <1>12

LEMMA MarksAreSound ==
  ASSUME MetaInv, NEW w \in Workers,
         MarkRunning(w) \/ MarkProfiling(w) \/ MarkComplete(w) \/ MarkFailed(w)
  PROVE  MetaInv'
  <1>1. call[w].kind = "job"
    BY DEF MetaInv, ThreadOK, Shape, MarkRunning, MarkProfiling, MarkComplete, MarkFailed, UpdateJob
  <1>2. {"RUNNING", "COMPLETE", "FAILED"} \subseteq JobStatuses
    BY DEF JobStatuses
  <1>3. CASE MarkRunning(w)
    BY <1>1, <1>2, <1>3, UpdateJobIsSound DEF MarkRunning
  <1>4. CASE MarkProfiling(w)
    BY <1>1, <1>2, <1>4, UpdateJobIsSound DEF MarkProfiling
  <1>5. CASE MarkComplete(w)
    BY <1>1, <1>2, <1>5, UpdateJobIsSound DEF MarkComplete
  <1>6. CASE MarkFailed(w)
    BY <1>1, <1>2, <1>6, UpdateJobIsSound DEF MarkFailed
  <1> QED  BY <1>3, <1>4, <1>5, <1>6

-----------------------------------------------------------------------------
LEMMA InsertSchemaIsSound ==
  ASSUME MetaInv, NEW w \in Workers, InsertSchema(w)
  PROVE  MetaInv'
  <1> USE DEF MetaInv
  <1>1. CASE ~IsThere \/ Taken(schemas, call[w].ver)
    <2> DEFINE c == IF call[w].kind = "job" THEN Moved(w, "failed") ELSE Idle
    <2>1. c \in Threads
      BY MovedType
    <2>2. call' = [call EXCEPT ![w] = c] /\ UNCHANGED Rows /\ UNCHANGED Counters /\ call[w].pc = "insert"
      BY <1>1 DEF InsertSchema, Raise, End, Goto, Moved
    <2>3. call' \in [Workers -> Threads] /\ call'[w] = c /\ \A v \in Workers : v # w => call'[v] = call[v]
      BY <2>1, <2>2, OneCallChanges
    <2>4. ThreadOK(w)' /\ (source = "new" => call'[w].pc = "idle")
      BY <2>2, <2>3, ThreadsType DEF ThreadOK, Shape, SourceOK, Moved, Threads, Idle
    <2>5. w \in Runners => w \in Runners'
      BY <2>3, ThreadsType DEF Runners, Moved, Threads
    <2> QED  BY <2>2, <2>3, <2>4, <2>5, ThreadGoesOn DEF TypeOK
  <1>2. CASE IsThere /\ ~Taken(schemas, call[w].ver)
    <2> DEFINE new == [version |-> call[w].ver, tables |-> call[w].todo]
               c == [call[w] EXCEPT !.pc = "point", !.id = Len(schemas) + 1]
    <2>1. /\ schemas' = Append(schemas, new) /\ call' = [call EXCEPT ![w] = c] /\ call[w].pc = "insert"
          /\ UNCHANGED <<source, job, last, profiles, calls, faults, overlapped>>
      BY <1>2 DEF InsertSchema
    <2>2. schemas \in Seq(Snapshots) /\ Len(schemas) \in Nat
      BY DEF TypeOK
    <2>3. c \in Threads
      <3>1. "point" \in JobSteps /\ Len(schemas) + 1 \in Nat
        BY <2>2 DEF JobSteps, Discovery
      <3> QED  BY <3>1, ThreadsType, Inserted
    <2>4. call' \in [Workers -> Threads] /\ call'[w] = c /\ \A v \in Workers : v # w => call'[v] = call[v]
      BY <2>1, <2>3, OneCallChanges
    <2>5. new \in Snapshots
      BY ThreadsType DEF Threads, Snapshots
    <2>6. call[w].ver = Len(schemas) + 1
      <3>1. call[w].ver \in 1 .. Len(schemas) + 1 /\ DOMAIN schemas = 1 .. Len(schemas)
        BY <1>2, <2>1, <2>2 DEF ThreadOK
      <3>2. \A i \in 1 .. Len(schemas) : schemas[i].version = i
        BY <3>1 DEF VersionsFollowInserts
      <3>3. call[w].ver \notin 1 .. Len(schemas)
        BY <1>2, <3>1, <3>2 DEF Taken
      <3> QED  BY <2>2, <3>1, <3>3
    <2>7. c.pc = "point" /\ c.kind = call[w].kind
      BY ThreadsType DEF Threads
    <2> HIDE DEF new, c
    <2>8. /\ schemas' \in Seq(Snapshots) /\ Len(schemas') = Len(schemas) + 1
          /\ \A i \in 1 .. Len(schemas) : schemas'[i] = schemas[i]
          /\ schemas'[Len(schemas) + 1] = new
      BY <2>1, <2>2, <2>5
    <2>9. TypeOK'
      BY <2>1, <2>4, <2>8 DEF TypeOK, Threads
    <2>10. SourceOK'
      BY <1>2, <2>1 DEF SourceOK
    <2>11. ASSUME NEW v \in Workers PROVE ThreadOK(v)'
      <3>1. CASE v = w
        BY <3>1, <2>1, <2>4, <2>7 DEF ThreadOK, Shape
      <3>2. CASE v # w
        <4>1. call'[v] = call[v] /\ ThreadOK(v)
          BY <3>2, <2>4
        <4> QED  BY <4>1, <2>1, <2>2, <2>8 DEF ThreadOK, Shape, SomeWhole, Whole
      <3> QED  BY <3>1, <3>2
    <2>12. RunningJobsAreRun'
      <3>1. Runners \subseteq Runners'
        BY <2>1, <2>4, <2>7 DEF Runners
      <3> QED  BY <3>1, <2>1 DEF RunningJobsAreRun
    <2>13. CompleteJobsHaveProfiles' /\ ThinProfilesAreBeingSaved'
      BY <2>1, <2>4 DEF CompleteJobsHaveProfiles, ThinProfilesAreBeingSaved
    <2>14. VersionsFollowInserts'
      BY <2>1, <2>2, <2>6, <2>8 DEF VersionsFollowInserts, new
    <2> QED  BY <2>9, <2>10, <2>11, <2>12, <2>13, <2>14
  <1> QED  BY <1>1, <1>2

LEMMA PointToSchemaIsSound ==
  ASSUME MetaInv, NEW w \in Workers, PointToSchema(w)
  PROVE  MetaInv'
  <1> USE DEF MetaInv
  <1> DEFINE c == IF call[w].kind = "job" THEN Moved(w, "profiling") ELSE Idle
  <1>1. c \in Threads
    BY MovedType
  <1>2. /\ call' = [call EXCEPT ![w] = c] /\ call[w].pc = "point"
        /\ last' = (IF IsThere THEN call[w].id ELSE last)
        /\ UNCHANGED <<source, job, schemas, profiles, calls, faults, overlapped>>
    BY DEF PointToSchema, Proceed, AfterDiscovery, End, Goto, Moved
  <1>3. call' \in [Workers -> Threads] /\ call'[w] = c /\ \A v \in Workers : v # w => call'[v] = call[v]
    BY <1>1, <1>2, OneCallChanges
  <1>4. c.pc = "idle" \/ (c.pc = "profiling" /\ c.kind = "job" /\ call[w].kind = "job")
    BY ThreadsType DEF Threads, Moved, Idle
  <1>5. last' \in Nat
    BY <1>2, ThreadsType DEF Threads, TypeOK
  <1>6. TypeOK'
    BY <1>2, <1>3, <1>5 DEF TypeOK, Threads
  <1>7. SourceOK'
    BY <1>2, <1>3, <1>4 DEF SourceOK
  <1>8. ASSUME NEW v \in Workers PROVE ThreadOK(v)'
    <2>1. CASE v = w
      BY <2>1, <1>2, <1>3, <1>4 DEF ThreadOK, Shape, Idle
    <2>2. CASE v # w
      BY <2>2, <1>2, <1>3 DEF ThreadOK, Shape, SomeWhole, Whole
    <2> QED  BY <2>1, <2>2
  <1>9. RunningJobsAreRun'
    <2>1. Runners \subseteq Runners'
      BY <1>3, ThreadsType DEF Runners, Moved, Threads
    <2> QED  BY <2>1, <1>2 DEF RunningJobsAreRun
  <1>10. CompleteJobsHaveProfiles' /\ ThinProfilesAreBeingSaved' /\ VersionsFollowInserts'
    BY <1>2, <1>3 DEF CompleteJobsHaveProfiles, ThinProfilesAreBeingSaved, VersionsFollowInserts
  <1> QED  BY <1>6, <1>7, <1>8, <1>9, <1>10

-----------------------------------------------------------------------------
LEMMA InsertProfileIsSound ==
  ASSUME MetaInv, NEW w \in Workers, InsertProfile(w)
  PROVE  MetaInv'
  <1> USE DEF MetaInv
  <1>1. CASE ~IsThere \/ Taken(profiles, call[w].ver)
    <2> DEFINE c == IF call[w].kind = "job" THEN Moved(w, "failed") ELSE Idle
    <2>1. c \in Threads
      BY MovedType
    <2>2. call' = [call EXCEPT ![w] = c] /\ UNCHANGED Rows /\ UNCHANGED Counters /\ call[w].pc = "snapshot"
      BY <1>1 DEF InsertProfile, Raise, End, Goto, Moved
    <2>3. call' \in [Workers -> Threads] /\ call'[w] = c /\ \A v \in Workers : v # w => call'[v] = call[v]
      BY <2>1, <2>2, OneCallChanges
    <2>4. ThreadOK(w)' /\ (source = "new" => call'[w].pc = "idle")
      BY <2>2, <2>3, ThreadsType DEF ThreadOK, Shape, SourceOK, Moved, Threads, Idle
    <2>5. w \in Runners => w \in Runners'
      BY <2>3, ThreadsType DEF Runners, Moved, Threads
    <2> QED  BY <2>2, <2>3, <2>4, <2>5, ThreadGoesOn DEF TypeOK
  <1>2. CASE IsThere /\ ~Taken(profiles, call[w].ver)
    <2> DEFINE new == [version |-> call[w].ver, schema |-> call[w].id, wants |-> call[w].todo, has |-> {}]
               c == [call[w] EXCEPT !.pc = "table", !.id = Len(profiles) + 1]
    <2>1. /\ profiles' = Append(profiles, new) /\ call' = [call EXCEPT ![w] = c] /\ call[w].pc = "snapshot"
          /\ UNCHANGED <<source, job, last, schemas, calls, faults, overlapped>>
      BY <1>2 DEF InsertProfile
    <2>2. profiles \in Seq(Profiles) /\ Len(profiles) \in Nat
      BY DEF TypeOK
    <2>3. c \in Threads
      <3>1. "table" \in JobSteps /\ Len(profiles) + 1 \in Nat
        BY <2>2 DEF JobSteps, Profiling
      <3> QED  BY <3>1, ThreadsType, Inserted
    <2>4. call' \in [Workers -> Threads] /\ call'[w] = c /\ \A v \in Workers : v # w => call'[v] = call[v]
      BY <2>1, <2>3, OneCallChanges
    <2>5. new \in Profiles
      BY ThreadsType DEF Threads, Profiles
    <2>6. call[w].ver = Len(profiles) + 1
      <3>1. call[w].ver \in 1 .. Len(profiles) + 1 /\ DOMAIN profiles = 1 .. Len(profiles)
        BY <1>2, <2>1, <2>2 DEF ThreadOK
      <3>2. \A i \in 1 .. Len(profiles) : profiles[i].version = i
        BY <3>1 DEF VersionsFollowInserts
      <3>3. call[w].ver \notin 1 .. Len(profiles)
        BY <1>2, <3>1, <3>2 DEF Taken
      <3> QED  BY <2>2, <3>1, <3>3
    <2>7. c.pc = "table" /\ c.kind = call[w].kind /\ c.id = Len(profiles) + 1 /\ c.todo = call[w].todo
      BY ThreadsType DEF Threads
    <2>8. new.version = Len(profiles) + 1 /\ new.wants = call[w].todo /\ new.has = {}
      BY <2>6
    <2> HIDE DEF new, c
    <2>9. /\ profiles' \in Seq(Profiles) /\ Len(profiles') = Len(profiles) + 1
          /\ \A i \in 1 .. Len(profiles) : profiles'[i] = profiles[i]
          /\ profiles'[Len(profiles) + 1] = new
          /\ DOMAIN profiles' = 1 .. Len(profiles) + 1 /\ DOMAIN profiles = 1 .. Len(profiles)
      BY <2>1, <2>2, <2>5
    <2>10. TypeOK'
      BY <2>1, <2>4, <2>9 DEF TypeOK, Threads
    <2>11. SourceOK'
      BY <1>2, <2>1 DEF SourceOK
    <2>12. SomeWhole => SomeWhole'
      BY <2>2, <2>9 DEF SomeWhole, Whole
    <2>13. ASSUME NEW v \in Workers PROVE ThreadOK(v)'
      <3>1. CASE v = w
        BY <3>1, <2>1, <2>2, <2>4, <2>7, <2>8, <2>9 DEF ThreadOK, Shape
      <3>2. CASE v # w
        <4>1. call'[v] = call[v] /\ ThreadOK(v)
          BY <3>2, <2>4
        <4> QED  BY <4>1, <2>1, <2>2, <2>9, <2>12 DEF ThreadOK, Shape
      <3> QED  BY <3>1, <3>2
    <2>14. RunningJobsAreRun'
      <3>1. Runners \subseteq Runners'
        BY <2>1, <2>4, <2>7 DEF Runners
      <3> QED  BY <3>1, <2>1 DEF RunningJobsAreRun
    <2>15. CompleteJobsHaveProfiles'
      BY <2>1, <2>12 DEF CompleteJobsHaveProfiles, SomeWhole, Whole
    <2>16. ThinProfilesAreBeingSaved'
      <3> SUFFICES ASSUME faults = 0, NEW i \in DOMAIN profiles', profiles'[i].has # profiles'[i].wants
                   PROVE  \E v \in Workers : call'[v].pc = "table" /\ call'[v].id = i
        BY <2>1 DEF ThinProfilesAreBeingSaved
      <3>1. CASE i = Len(profiles) + 1
        BY <3>1, <2>4, <2>7
      <3>2. CASE i \in DOMAIN profiles
        <4>1. PICK v \in Workers : call[v].pc = "table" /\ call[v].id = i
          BY <3>2, <2>9 DEF ThinProfilesAreBeingSaved
        <4>2. v # w
          BY <4>1, <2>1
        <4> QED  BY <4>1, <4>2, <2>4
      <3> QED  BY <3>1, <3>2, <2>2, <2>9
    <2>17. VersionsFollowInserts'
      BY <2>1, <2>2, <2>8, <2>9 DEF VersionsFollowInserts
    <2> QED  BY <2>10, <2>11, <2>13, <2>14, <2>15, <2>16, <2>17
  <1> QED  BY <1>1, <1>2

LEMMA InsertTableIsSound ==
  ASSUME MetaInv, NEW w \in Workers, InsertTable(w)
  PROVE  MetaInv'
  <1> USE DEF MetaInv
  <1>1. CASE call[w].todo = {} \/ ~IsThere
    <2> DEFINE c == IF call[w].kind = "job"
                      THEN Moved(w, IF call[w].todo = {} THEN "complete" ELSE "failed") ELSE Idle
    <2>1. c \in Threads
      BY MovedType
    <2>2. call' = [call EXCEPT ![w] = c] /\ UNCHANGED Rows /\ UNCHANGED Counters /\ call[w].pc = "table"
      BY <1>1 DEF InsertTable, Raise, End, Goto, Moved, Proceed, AfterProfiling
    <2>3. call' \in [Workers -> Threads] /\ call'[w] = c /\ \A v \in Workers : v # w => call'[v] = call[v]
      BY <2>1, <2>2, OneCallChanges
    <2>4. IsThere => call[w].id \in DOMAIN profiles /\ Whole(call[w].id)
      BY <1>1, <2>2 DEF ThreadOK, Whole
    <2>5. c.pc \in {"idle", "complete", "failed"} /\ (c.pc # "idle" => c.kind = "job" /\ call[w].kind = "job")
      BY ThreadsType DEF Threads, Moved, Idle
    <2>6. ThreadOK(w)'
      <3>1. Shape(w)'
        BY <2>3, <2>5 DEF Shape, Idle
      <3> QED  BY <2>2, <2>3, <2>4, <2>5, <3>1 DEF ThreadOK, SomeWhole, Whole
    <2>7. source = "new" => call'[w].pc = "idle"
      BY <2>2 DEF SourceOK
    <2>8. w \in Runners => w \in Runners'
      BY <2>3, ThreadsType DEF Runners, Moved, Threads
    <2> QED  BY <2>2, <2>3, <2>4, <2>6, <2>7, <2>8, ThreadGoesOn DEF TypeOK
  <1>2. CASE call[w].todo # {} /\ IsThere
    <2> DEFINE t == CHOOSE t \in call[w].todo : TRUE
               i == call[w].id
               c == [call[w] EXCEPT !.todo = @ \ {t}]
    <2>1. /\ profiles' = [profiles EXCEPT ![i].has = @ \cup {t}] /\ call' = [call EXCEPT ![w] = c]
          /\ call[w].pc = "table"
          /\ UNCHANGED <<source, job, last, schemas, calls, faults, overlapped>>
      BY <1>2 DEF InsertTable
    <2>2. t \in call[w].todo /\ t \in Tables
      BY <1>2, ThreadsType DEF Threads
    <2>3. i \in DOMAIN profiles /\ profiles[i].wants = profiles[i].has \cup call[w].todo
      BY <1>2, <2>1 DEF ThreadOK
    <2>4. c \in Threads /\ c.pc = "table" /\ c.id = i /\ c.kind = call[w].kind /\ c.todo = call[w].todo \ {t}
      BY <2>1, ThreadsType DEF Threads
    <2> HIDE DEF t, c
    <2>5. call' \in [Workers -> Threads] /\ call'[w] = c /\ \A v \in Workers : v # w => call'[v] = call[v]
      BY <2>1, <2>4, OneCallChanges
    <2>6. profiles \in Seq(Profiles) /\ profiles[i] \in Profiles /\ i \in 1 .. Len(profiles) /\ Len(profiles) \in Nat
      BY <2>3 DEF TypeOK
    <2>7. [profiles[i] EXCEPT !.has = @ \cup {t}] \in Profiles
      BY <2>2, <2>6 DEF Profiles
    <2>8. /\ profiles' \in Seq(Profiles) /\ DOMAIN profiles' = DOMAIN profiles /\ Len(profiles') = Len(profiles)
          /\ \A j \in DOMAIN profiles : j # i => profiles'[j] = profiles[j]
          /\ profiles'[i] = [profiles[i] EXCEPT !.has = @ \cup {t}]
      <3> DEFINE r == [profiles[i] EXCEPT !.has = @ \cup {t}]
      <3>1. profiles' = [profiles EXCEPT ![i] = r]
        BY <2>1
      <3> HIDE DEF r
      <3>2. r \in Profiles
        BY <2>7 DEF r
      <3>3. /\ profiles' \in Seq(Profiles) /\ DOMAIN profiles' = DOMAIN profiles /\ Len(profiles') = Len(profiles)
            /\ \A j \in DOMAIN profiles : profiles'[j] = IF j = i THEN r ELSE profiles[j]
        BY <2>3, <2>6, <3>1, <3>2, OneRowChanges
      <3> QED  BY <2>3, <3>3 DEF r
    <2>9. /\ profiles'[i].has = profiles[i].has \cup {t} /\ profiles'[i].wants = profiles[i].wants
          /\ profiles'[i].version = profiles[i].version
      BY <2>6, <2>8 DEF Profiles
    <2>10. TypeOK'
      BY <2>1, <2>5, <2>8 DEF TypeOK, Threads
    <2>11. SourceOK'
      BY <1>2, <2>1 DEF SourceOK
    <2>12. \A j \in DOMAIN profiles : Whole(j) => Whole(j)'
      BY <2>2, <2>3, <2>8, <2>9 DEF Whole
    <2>13. SomeWhole => SomeWhole'
      BY <2>8, <2>12 DEF SomeWhole
    <2>14. ASSUME NEW v \in Workers PROVE ThreadOK(v)'
      <3>1. CASE v = w
        <4>1. Shape(v)
          BY DEF ThreadOK
        <4>2. profiles'[i].wants = profiles'[i].has \cup c.todo
          BY <2>2, <2>3, <2>4, <2>9
        <4> QED  BY <3>1, <4>1, <4>2, <2>1, <2>3, <2>4, <2>5, <2>8 DEF ThreadOK, Shape
      <3>2. CASE v # w
        <4>1. call'[v] = call[v] /\ ThreadOK(v)
          BY <3>2, <2>5
        <4>2. IsThere /\ call[v].pc = "table" =>
                profiles'[call[v].id].wants = profiles'[call[v].id].has \cup call[v].todo
          <5>1. CASE call[v].id = i
            BY <4>1, <5>1, <2>2, <2>3, <2>9 DEF ThreadOK
          <5>2. CASE call[v].id # i
            BY <4>1, <5>2, <2>8 DEF ThreadOK
          <5> QED  BY <5>1, <5>2
        <4> QED  BY <4>1, <4>2, <2>1, <2>8, <2>13 DEF ThreadOK, Shape
      <3> QED  BY <3>1, <3>2
    <2>15. RunningJobsAreRun'
      <3>1. Runners \subseteq Runners'
        BY <2>1, <2>4, <2>5 DEF Runners
      <3> QED  BY <3>1, <2>1 DEF RunningJobsAreRun
    <2>16. CompleteJobsHaveProfiles'
      BY <2>1, <2>13 DEF CompleteJobsHaveProfiles, SomeWhole, Whole
    <2>17. ThinProfilesAreBeingSaved'
      <3> SUFFICES ASSUME faults = 0, NEW j \in DOMAIN profiles, ~Whole(j)'
                   PROVE  \E v \in Workers : call'[v].pc = "table" /\ call'[v].id = j
        BY <2>1, <2>8 DEF ThinProfilesAreBeingSaved, Whole
      <3>1. PICK v \in Workers : call[v].pc = "table" /\ call[v].id = j
        BY <2>12 DEF ThinProfilesAreBeingSaved, Whole
      <3> QED  BY <3>1, <2>4, <2>5
    <2>18. VersionsFollowInserts'
      BY <2>1, <2>8, <2>9 DEF VersionsFollowInserts
    <2> QED  BY <2>10, <2>11, <2>14, <2>15, <2>16, <2>17, <2>18
  <1> QED  BY <1>1, <1>2

-----------------------------------------------------------------------------
LEMMA DeleteSourceIsSound ==
  ASSUME MetaInv, NEW w \in Workers, DeleteSource(w)
  PROVE  MetaInv'
  <1> USE DEF MetaInv
  <1>1. /\ source' = "gone" /\ job' = "none" /\ schemas' = <<>> /\ last' = 0 /\ profiles' = <<>>
        /\ call' = [call EXCEPT ![w] = Idle] /\ UNCHANGED Counters
    BY DEF DeleteSource, End
  <1>2. call' \in [Workers -> Threads] /\ call'[w] = Idle /\ \A v \in Workers : v # w => call'[v] = call[v]
    BY <1>1, MovedType, OneCallChanges
  <1>3. TypeOK'
    BY <1>1, <1>2 DEF TypeOK, Threads, JobStatuses
  <1>4. SourceOK' /\ \A v \in Workers : ThreadOK(v)'
    BY <1>1, <1>2 DEF SourceOK, ThreadOK, Shape, Idle
  <1>5. RunningJobsAreRun' /\ CompleteJobsHaveProfiles' /\ ThinProfilesAreBeingSaved' /\ VersionsFollowInserts'
    BY <1>1 DEF RunningJobsAreRun, CompleteJobsHaveProfiles, ThinProfilesAreBeingSaved, VersionsFollowInserts
  <1> QED  BY <1>3, <1>4, <1>5

\* The server stops, or a request about rules begins or fails: no row changes, and
\* the threads of MetadataJobs stand still or are all gone.
LEMMA OthersAreSound ==
  ASSUME MetaInv, UNCHANGED Rows, overlapped' = overlapped,
         calls' \in 0 .. MaxCalls, faults' \in 0 .. MaxFaults,
         \/ call' = call /\ faults' >= faults
         \/ call' = [w \in Workers |-> Idle] /\ faults' > faults
  PROVE  MetaInv'
  <1> USE DEF MetaInv
  <1>1. CASE call' = call /\ faults' >= faults
    <2>1. TypeOK'
      BY <1>1 DEF TypeOK
    <2>2. SourceOK' /\ \A v \in Workers : ThreadOK(v)'
      BY <1>1 DEF SourceOK, ThreadOK, Shape, SomeWhole, Whole
    <2>3. faults' = 0 => faults = 0
      BY <1>1 DEF TypeOK
    <2>4. RunningJobsAreRun' /\ CompleteJobsHaveProfiles' /\ ThinProfilesAreBeingSaved' /\ VersionsFollowInserts'
      BY <1>1, <2>3 DEF RunningJobsAreRun, CompleteJobsHaveProfiles, ThinProfilesAreBeingSaved,
                        VersionsFollowInserts, Runners
    <2> QED  BY <2>1, <2>2, <2>4
  <1>2. CASE call' = [w \in Workers |-> Idle] /\ faults' > faults
    <2>1. call' \in [Workers -> Threads]
      BY <1>2 DEF Threads, Idle, Kinds
    <2>2. TypeOK'
      <3>1. job' \in JobStatuses /\ schemas' \in Seq(Snapshots) /\ profiles' \in Seq(Profiles)
        BY DEF TypeOK
      <3> QED  BY <2>1, <3>1 DEF TypeOK, Threads
    <2>3. SourceOK' /\ \A v \in Workers : ThreadOK(v)'
      BY <1>2 DEF SourceOK, ThreadOK, Shape, Idle
    <2>4. faults' # 0
      BY <1>2 DEF TypeOK
    <2>5. RunningJobsAreRun' /\ CompleteJobsHaveProfiles' /\ ThinProfilesAreBeingSaved' /\ VersionsFollowInserts'
      BY <2>4 DEF RunningJobsAreRun, CompleteJobsHaveProfiles, ThinProfilesAreBeingSaved, VersionsFollowInserts
    <2> QED  BY <2>2, <2>3, <2>5
  <1> QED  BY <1>1, <1>2

-----------------------------------------------------------------------------
(***************************************************************************)
(* A step of DictionarySpec, as MetadataJobs sees it: one of its own, or   *)
(* one that changes none of its rows.                                      *)
(***************************************************************************)
OwnStep(w) == Step(w) \/ ConnectorFails(w) \/ StorageFails(w)

OthersStep ==
  /\ UNCHANGED Rows /\ overlapped' = overlapped
  /\ calls' \in 0 .. MaxCalls /\ faults' \in 0 .. MaxFaults
  /\ \/ call' = call /\ faults' >= faults
     \/ call' = [w \in Workers |-> Idle] /\ faults' > faults

LEMMA RuleStepsAreOthers ==
  ASSUME TypeOK, NEW w \in Workers,
         \/ RuleStep(w) \/ CheckDictionary(w) \/ ReadNewest(w) \/ SaveDictionary(w) \/ ApproveEntry(w)
  PROVE  UNCHANGED metaVars
  BY DEF RuleStep, CheckDictionary, ReadNewest, SaveDictionary, ApproveEntry,
         ReadSnapshot, ReadTables, ReadRules, WriteAssignments, ReadUnknown, WriteSuggestions, CheckRule,
         CheckFiner, DecideRule, DecideFiner, ReadApproved, ReadMatches, WriteFiner, ReadFiner, WritePromoted

LEMMA MetadataView ==
  ASSUME TypeOK, [DictionaryNext]_<<vars, dictVars>>
  PROVE  \/ CreateSource \/ CreateJob \/ OthersStep
         \/ \E w \in Workers : OwnStep(w) \/ \E kind \in Kinds : Request(w, kind)
  <1>1. ASSUME UNCHANGED metaVars PROVE OthersStep
    BY <1>1 DEF OthersStep, metaVars, TypeOK
  <1>2. CASE UNCHANGED <<vars, dictVars>>
    BY <1>1, <1>2 DEF vars
  <1>3. CASE MetaStep
    BY <1>3 DEF MetaStep, OwnStep, Step, DeletionStep
  <1>4. CASE CrashAll
    BY <1>4 DEF CrashAll, OthersStep, TypeOK
  <1>5. ASSUME NEW w \in Workers, NEW kind \in Kinds, MetaRequest(w, kind)
        PROVE  Request(w, kind)
    BY <1>5 DEF MetaRequest
  <1>6. ASSUME NEW w \in Workers,
               \/ RuleStep(w) \/ CheckDictionary(w) \/ ReadNewest(w) \/ SaveDictionary(w) \/ ApproveEntry(w)
        PROVE  OthersStep
    BY <1>1, <1>6, RuleStepsAreOthers
  <1>7. ASSUME NEW w \in Workers, RuleStorageFails(w) PROVE OthersStep
    BY <1>7 DEF RuleStorageFails, OthersStep, TypeOK
  <1>8. ASSUME NEW w \in Workers, DeleteWithDictionary(w) PROVE OwnStep(w)
    BY <1>8 DEF DeleteWithDictionary, DeleteWithRules, OwnStep, Step, DeletionStep
  <1>9. ASSUME NEW w \in Workers, NEW kind, NEW id, RuleRequest(w, kind, id) PROVE OthersStep
    BY <1>9 DEF RuleRequest, OthersStep, TypeOK
  <1>10. ASSUME NEW w \in Workers, DictionaryRequest(w) PROVE OthersStep
    BY <1>9, <1>10 DEF DictionaryRequest
  <1> QED  BY <1>2, <1>3, <1>4, <1>5, <1>6, <1>7, <1>8, <1>9, <1>10 DEF DictionaryNext

LEMMA MetaInvStep == MetaInv /\ [DictionaryNext]_<<vars, dictVars>> => MetaInv'
  <1> SUFFICES ASSUME MetaInv, [DictionaryNext]_<<vars, dictVars>> PROVE MetaInv'
    OBVIOUS
  <1>1. CASE CreateSource \/ CreateJob
    BY <1>1, CreateSourceIsSound, CreateJobIsSound
  <1>2. CASE OthersStep
    BY <1>2, OthersAreSound DEF OthersStep
  <1>3. ASSUME NEW w \in Workers, NEW kind \in Kinds, Request(w, kind) PROVE MetaInv'
    BY <1>3, RequestIsSound
  <1>4. ASSUME NEW w \in Workers, OwnStep(w) PROVE MetaInv'
    <2>1. CASE ConnectorFails(w) \/ StorageFails(w)
      BY <2>1, ConnectorFailsIsSound, StorageFailsIsSound
    <2>2. CASE JobStep(w)
      BY <2>2, LoadJobIsSound, MarksAreSound DEF JobStep
    <2>3. CASE DiscoveryStep(w)
      BY <2>3, CheckSourceIsSound, ReadVersionIsSound, InsertSchemaIsSound, PointToSchemaIsSound DEF DiscoveryStep
    <2>4. CASE ProfilingStep(w)
      BY <2>4, CheckOwnerIsSound, ReadSchemaIsSound, ReadNumberIsSound, InsertProfileIsSound, InsertTableIsSound
         DEF ProfilingStep
    <2>5. CASE DeletionStep(w)
      BY <2>5, LookForJobIsSound, DeleteSourceIsSound DEF DeletionStep
    <2> QED  BY <1>4, <2>1, <2>2, <2>3, <2>4, <2>5 DEF OwnStep, Step
  <1> QED  BY <1>1, <1>2, <1>3, <1>4, MetadataView DEF MetaInv

LEMMA MetaInvInit == DictionaryInit => MetaInv
  <1> SUFFICES ASSUME DictionaryInit PROVE MetaInv
    OBVIOUS
  <1>1. Idle \in Threads /\ (call = [w \in Workers |-> Idle]) /\ faults = 0 /\ overlapped = FALSE
    BY DEF DictionaryInit, LearnedInit, Init, Profiled, Threads, Idle, Kinds
  <1>0. overlapped \in BOOLEAN /\ call \in [Workers -> Threads] /\ faults \in 0 .. MaxFaults
    <2>1. overlapped \in BOOLEAN
      BY <1>1
    <2>2. call \in [Workers -> Threads]
      BY <1>1
    <2>3. faults \in 0 .. MaxFaults
      BY <1>1
    <2> QED  BY <2>1, <2>2, <2>3
  <1>2. CASE Init
    <2>1. TypeOK
      BY <1>0, <1>2 DEF TypeOK, Init, Threads, JobStatuses
    <2>2. SourceOK /\ \A w \in Workers : ThreadOK(w)
      BY <1>1, <1>2 DEF SourceOK, ThreadOK, Shape, Idle, Init
    <2>3. RunningJobsAreRun /\ CompleteJobsHaveProfiles /\ ThinProfilesAreBeingSaved /\ VersionsFollowInserts
      BY <1>2 DEF Init, RunningJobsAreRun, CompleteJobsHaveProfiles, ThinProfilesAreBeingSaved,
                  VersionsFollowInserts
    <2> QED  BY <2>1, <2>2, <2>3 DEF MetaInv
  <1>3. CASE Profiled
    <2>1. /\ schemas \in Seq(Snapshots) /\ Len(schemas) = 1 /\ schemas[1].version = 1
          /\ profiles \in Seq(Profiles) /\ Len(profiles) = 1 /\ profiles[1].version = 1 /\ Whole(1)
      BY <1>3 DEF Profiled, Snapshots, Profiles, Whole
    <2>2. TypeOK
      BY <1>0, <1>3, <2>1 DEF TypeOK, Profiled, Threads, JobStatuses
    <2>3. SourceOK /\ \A w \in Workers : ThreadOK(w)
      BY <1>1, <1>3 DEF SourceOK, ThreadOK, Shape, Idle, Profiled
    <2>4. DOMAIN profiles = {1} /\ DOMAIN schemas = {1}
      BY <2>1
    <2>5. RunningJobsAreRun /\ CompleteJobsHaveProfiles /\ ThinProfilesAreBeingSaved /\ VersionsFollowInserts
      BY <1>3, <2>1, <2>4 DEF Profiled, RunningJobsAreRun, CompleteJobsHaveProfiles, ThinProfilesAreBeingSaved,
                  VersionsFollowInserts, Whole
    <2> QED  BY <2>2, <2>3, <2>5 DEF MetaInv
  <1> QED  BY <1>2, <1>3 DEF DictionaryInit, LearnedInit

\* Rows, threads and counters have their types.
THEOREM TypeCorrect == DictionarySpec => []TypeOK
  BY MetaInvInit, MetaInvStep, PTL DEF DictionarySpec, MetaInv

\* A job that says RUNNING is being run, one that says COMPLETE left a whole
\* profile, and a profile without all its tables is being saved, for any number
\* of overlapping runs.
THEOREM JobsAreTrue == DictionarySpec => []JobsTellTheTruth
  <1>1. MetaInv => JobsTellTheTruth
    BY DEF MetaInv, JobsTellTheTruth
  <1> QED  BY <1>1, MetaInvInit, MetaInvStep, PTL DEF DictionarySpec

-----------------------------------------------------------------------------
LEMMA OnlyOneIsServed ==
  ASSUME OrderInv, ~overlapped, NEW w \in Workers, call[w].pc # "idle"
  PROVE  \A v \in Workers : v # w => call[v].pc = "idle"
  BY DEF OrderInv

\* A step of the only thread that works, which leaves the rows alone.
LEMMA TheOnlyOneGoesOn ==
  ASSUME MetaInv, OrderInv, ~overlapped, NEW w \in Workers, call[w].pc # "idle",
         UNCHANGED <<source, schemas, last, profiles>>, faults' \in Nat, faults' >= faults,
         \A v \in Workers : v # w => call'[v] = call[v],
         IsThere /\ call'[w].pc \in {"point", "number", "snapshot"} => call'[w].id = Len(schemas),
         call[w].pc = "point" => faults' > 0
  PROVE  OrderInv'
  <1>1. \A v \in Workers : v # w => call'[v].pc = "idle"
    BY OnlyOneIsServed
  <1>2. last = Len(schemas) \/ faults' > 0
    <2>1. last = Len(schemas) \/ (\E v \in Workers : call[v].pc = "point") \/ faults > 0
      BY DEF OrderInv, NewestIsOfNewest
    <2>2. ASSUME NEW v \in Workers, call[v].pc = "point" PROVE faults' > 0
      BY <2>2, OnlyOneIsServed
    <2> QED  BY <2>1, <2>2 DEF MetaInv, TypeOK
  <1>3. NewestIsOfNewest'
    BY <1>2 DEF OrderInv, NewestIsOfNewest
  <1>4. \A u, v \in Workers : call'[u].pc # "idle" /\ call'[v].pc # "idle" => u = v
    BY <1>1
  <1>5. IsThere => \A v \in Workers : call'[v].pc \in {"point", "number", "snapshot"} =>
                                       call'[v].id = Len(schemas)
    BY <1>1
  <1> QED  BY <1>3, <1>4, <1>5 DEF OrderInv

LEMMA RequestInOrder ==
  ASSUME MetaInv, OrderInv, ~overlapped', NEW w \in Workers, NEW kind \in Kinds, Request(w, kind)
  PROVE  OrderInv'
  <1> USE DEF Request
  <1>1. ~overlapped /\ \A v \in Workers : call[v].pc = "idle"
    OBVIOUS
  <1>2. /\ \A v \in Workers : v # w => call'[v] = call[v]
        /\ call'[w].pc \in {"load", "source", "look", "owner"}
    BY DEF MetaInv, TypeOK, Idle
  <1>3. last = Len(schemas) \/ faults > 0
    BY <1>1 DEF OrderInv, NewestIsOfNewest
  <1>4. NewestIsOfNewest'
    BY <1>1, <1>3 DEF OrderInv, NewestIsOfNewest
  <1>5. \A u, v \in Workers : call'[u].pc # "idle" /\ call'[v].pc # "idle" => u = v
    BY <1>1, <1>2
  <1>6. \A v \in Workers : call'[v].pc \notin {"point", "number", "snapshot"}
    BY <1>1, <1>2
  <1> QED  BY <1>1, <1>4, <1>5, <1>6 DEF OrderInv

LEMMA QuietStepsInOrder ==
  ASSUME MetaInv, OrderInv, ~overlapped, NEW w \in Workers,
         \/ LoadJob(w) \/ CheckSource(w) \/ ReadVersion(w) \/ ConnectorFails(w) \/ CheckOwner(w)
         \/ ReadSchema(w) \/ ReadNumber(w) \/ LookForJob(w) \/ StorageFails(w)
  PROVE  OrderInv'
  <1> USE DEF Goto, End, Proceed, Raise, AfterDiscovery, AfterProfiling
  <1> DEFINE Fits == /\ \A v \in Workers : v # w => call'[v] = call[v]
                     /\ IsThere /\ call'[w].pc \in {"point", "number", "snapshot"} => call'[w].id = Len(schemas)
  <1>0. IsThere /\ call[w].pc \in {"point", "number", "snapshot"} => call[w].id = Len(schemas)
    BY DEF OrderInv
  <1>1. CASE LoadJob(w)
    <2>1. UNCHANGED Rows /\ faults' \in Nat /\ faults' >= faults /\ call[w].pc # "idle" /\ (call[w].pc = "point" => faults' > 0)
      BY <1>1 DEF LoadJob, MetaInv, TypeOK
    <2>2. Fits
      BY <1>0, <1>1 DEF LoadJob, MetaInv, TypeOK, Idle
    <2> QED  BY <2>1, <2>2, TheOnlyOneGoesOn
  <1>2. CASE CheckSource(w)
    <2>1. UNCHANGED Rows /\ faults' \in Nat /\ faults' >= faults /\ call[w].pc # "idle" /\ (call[w].pc = "point" => faults' > 0)
      BY <1>2 DEF CheckSource, MetaInv, TypeOK
    <2>2. Fits
      BY <1>0, <1>2 DEF CheckSource, MetaInv, TypeOK, Idle
    <2> QED  BY <2>1, <2>2, TheOnlyOneGoesOn
  <1>3. CASE ReadVersion(w)
    <2>1. UNCHANGED Rows /\ faults' = faults /\ call[w].pc = "version"
      BY <1>3 DEF ReadVersion
    <2>2. faults \in Nat /\ call \in [Workers -> Threads]
      BY ThreadsType DEF MetaInv, TypeOK
    <2>3. PICK found \in Found : call' = [call EXCEPT ![w].pc = "insert", ![w].todo = found,
                                                      ![w].ver = Len(schemas) + 1]
      BY <1>3 DEF ReadVersion
    <2>4. call'[w].pc = "insert"
      BY <2>2, <2>3 DEF Threads
    <2>5. \A v \in Workers : v # w => call'[v] = call[v]
      BY <2>2, <2>3
    <2>6. faults' \in Nat /\ faults' >= faults
      BY <2>1, <2>2
    <2>7. UNCHANGED <<source, schemas, last, profiles>>
      BY <2>1
    <2>8. call'[w].pc \notin {"point", "number", "snapshot"} /\ call[w].pc \notin {"idle", "point"}
      BY <2>1, <2>4
    <2> QED  BY <2>5, <2>6, <2>7, <2>8, TheOnlyOneGoesOn
  <1>4. CASE ConnectorFails(w)
    <2>1. UNCHANGED Rows /\ faults' \in Nat /\ faults' >= faults /\ call[w].pc # "idle" /\ (call[w].pc = "point" => faults' > 0)
      BY <1>4 DEF ConnectorFails, MetaInv, TypeOK
    <2>2. Fits
      BY <1>0, <1>4 DEF ConnectorFails, MetaInv, TypeOK, Idle
    <2> QED  BY <2>1, <2>2, TheOnlyOneGoesOn
  <1>5. CASE CheckOwner(w)
    <2>1. UNCHANGED Rows /\ faults' \in Nat /\ faults' >= faults /\ call[w].pc # "idle" /\ (call[w].pc = "point" => faults' > 0)
      BY <1>5 DEF CheckOwner, MetaInv, TypeOK
    <2>2. Fits
      BY <1>0, <1>5 DEF CheckOwner, MetaInv, TypeOK, Idle
    <2> QED  BY <2>1, <2>2, TheOnlyOneGoesOn
  <1>6. CASE ReadSchema(w)
    <2>1. UNCHANGED Rows /\ faults' \in Nat /\ faults' >= faults /\ call[w].pc # "idle" /\ (call[w].pc = "point" => faults' > 0)
      BY <1>6 DEF ReadSchema, MetaInv, TypeOK
    <2>2. Fits
      BY <1>0, <1>6 DEF ReadSchema, MetaInv, TypeOK, Idle
    <2> QED  BY <2>1, <2>2, TheOnlyOneGoesOn
  <1>7. CASE ReadNumber(w)
    <2>1. UNCHANGED Rows /\ faults' \in Nat /\ faults' >= faults /\ call[w].pc # "idle" /\ (call[w].pc = "point" => faults' > 0)
      BY <1>7 DEF ReadNumber, MetaInv, TypeOK
    <2>2. Fits
      BY <1>0, <1>7 DEF ReadNumber, MetaInv, TypeOK, Idle
    <2> QED  BY <2>1, <2>2, TheOnlyOneGoesOn
  <1>8. CASE LookForJob(w)
    <2>1. UNCHANGED Rows /\ faults' \in Nat /\ faults' >= faults /\ call[w].pc # "idle" /\ (call[w].pc = "point" => faults' > 0)
      BY <1>8 DEF LookForJob, MetaInv, TypeOK
    <2>2. Fits
      BY <1>0, <1>8 DEF LookForJob, MetaInv, TypeOK, Idle
    <2> QED  BY <2>1, <2>2, TheOnlyOneGoesOn
  <1>9. CASE StorageFails(w)
    <2>1. UNCHANGED Rows /\ faults' \in Nat /\ faults' >= faults /\ call[w].pc # "idle" /\ (call[w].pc = "point" => faults' > 0)
      BY <1>9 DEF StorageFails, MetaInv, TypeOK
    <2>2. Fits
      BY <1>0, <1>9 DEF StorageFails, MetaInv, TypeOK, Idle
    <2> QED  BY <2>1, <2>2, TheOnlyOneGoesOn
  <1> QED  BY <1>1, <1>2, <1>3, <1>4, <1>5, <1>6, <1>7, <1>8, <1>9

LEMMA UpdateJobInOrder ==
  ASSUME MetaInv, OrderInv, ~overlapped, NEW w \in Workers,
         MarkRunning(w) \/ MarkProfiling(w) \/ MarkComplete(w) \/ MarkFailed(w)
  PROVE  OrderInv'
  <1> USE DEF MarkRunning, MarkProfiling, MarkComplete, MarkFailed, UpdateJob
  <1>1. /\ UNCHANGED <<source, schemas, last, profiles, faults>> /\ faults \in Nat
        /\ call[w].pc \notin {"idle", "point"}
    BY DEF MetaInv, TypeOK
  <1>2. /\ \A v \in Workers : v # w => call'[v] = call[v]
        /\ call'[w].pc \notin {"point", "number", "snapshot"}
    BY DEF MetaInv, TypeOK, Proceed, End, Goto, Idle
  <1> QED  BY <1>1, <1>2, TheOnlyOneGoesOn

LEMMA InsertSchemaInOrder ==
  ASSUME MetaInv, OrderInv, ~overlapped, NEW w \in Workers, InsertSchema(w)
  PROVE  OrderInv'
  <1>0. call[w].pc = "insert"
    BY DEF InsertSchema
  <1>1. CASE ~IsThere \/ Taken(schemas, call[w].ver)
    <2>1. UNCHANGED Rows /\ faults' = faults /\ faults \in Nat
      BY <1>1 DEF InsertSchema, MetaInv, TypeOK
    <2>2. (\A v \in Workers : v # w => call'[v] = call[v]) /\ call'[w].pc \in {"failed", "idle"}
      BY <1>1 DEF InsertSchema, Raise, End, Goto, MetaInv, TypeOK, Idle
    <2> QED  BY <1>0, <2>1, <2>2, TheOnlyOneGoesOn
  <1>2. CASE IsThere /\ ~Taken(schemas, call[w].ver)
    <2>1. /\ schemas' = Append(schemas, [version |-> call[w].ver, tables |-> call[w].todo])
          /\ call' = [call EXCEPT ![w].pc = "point", ![w].id = Len(schemas) + 1]
          /\ UNCHANGED <<source, last, profiles>>
      BY <1>2 DEF InsertSchema
    <2>2. /\ \A v \in Workers : v # w => call'[v].pc = "idle"
          /\ call'[w].pc = "point" /\ call'[w].id = Len(schemas) + 1
      BY <1>0, <2>1, OnlyOneIsServed DEF MetaInv, TypeOK
    <2>3. Len(schemas') = Len(schemas) + 1 /\ Len(schemas) \in Nat
      BY <2>1 DEF MetaInv, TypeOK
    <2>4. \A i \in DOMAIN profiles : profiles[i].schema \in Nat
      <3>1. profiles \in Seq(Profiles)
        BY DEF MetaInv, TypeOK
      <3>2. \A i \in DOMAIN profiles : profiles[i] \in Profiles
        BY <3>1
      <3> QED  BY <3>2 DEF Profiles
    <2>5. \A i \in DOMAIN profiles : profiles[i].schema <= Len(schemas')
      BY <2>3, <2>4 DEF OrderInv
    <2>6. NewestIsOfNewest'
      BY <2>1, <2>2 DEF NewestIsOfNewest, OrderInv
    <2>7. \A u, v \in Workers : call'[u].pc # "idle" /\ call'[v].pc # "idle" => u = v
      BY <2>2
    <2>8. \A v \in Workers : call'[v].pc \in {"point", "number", "snapshot"} => call'[v].id = Len(schemas')
      BY <2>2, <2>3
    <2> QED  BY <2>1, <2>5, <2>6, <2>7, <2>8 DEF OrderInv
  <1> QED  BY <1>1, <1>2

LEMMA PointToSchemaInOrder ==
  ASSUME MetaInv, OrderInv, ~overlapped, NEW w \in Workers, PointToSchema(w)
  PROVE  OrderInv'
  <1>1. /\ UNCHANGED <<source, schemas, profiles, faults>> /\ call[w].pc = "point"
        /\ last' = IF IsThere THEN call[w].id ELSE last
    BY DEF PointToSchema
  <1>2. \A v \in Workers : call'[v].pc \in {"idle", "profiling"} /\ (v # w => call'[v].pc = "idle")
    BY <1>1, OnlyOneIsServed DEF PointToSchema, Proceed, AfterDiscovery, End, Goto, Idle, MetaInv, TypeOK
  <1>3. last' = Len(schemas)
    BY <1>1 DEF OrderInv, MetaInv, SourceOK
  <1>4. NewestIsOfNewest'
    BY <1>1, <1>3 DEF NewestIsOfNewest, OrderInv
  <1> QED  BY <1>1, <1>2, <1>4 DEF OrderInv

LEMMA InsertProfileInOrder ==
  ASSUME MetaInv, OrderInv, ~overlapped, NEW w \in Workers, InsertProfile(w)
  PROVE  OrderInv'
  <1>0. call[w].pc = "snapshot"
    BY DEF InsertProfile
  <1>1. CASE ~IsThere \/ Taken(profiles, call[w].ver)
    <2>1. UNCHANGED Rows /\ faults' = faults /\ faults \in Nat
      BY <1>1 DEF InsertProfile, MetaInv, TypeOK
    <2>2. (\A v \in Workers : v # w => call'[v] = call[v]) /\ call'[w].pc \in {"failed", "idle"}
      BY <1>1 DEF InsertProfile, Raise, End, Goto, MetaInv, TypeOK, Idle
    <2> QED  BY <1>0, <2>1, <2>2, TheOnlyOneGoesOn
  <1>2. CASE IsThere /\ ~Taken(profiles, call[w].ver)
    <2> DEFINE new == [version |-> call[w].ver, schema |-> call[w].id, wants |-> call[w].todo, has |-> {}]
    <2>1. /\ profiles' = Append(profiles, new)
          /\ call' = [call EXCEPT ![w].pc = "table", ![w].id = Len(profiles) + 1]
          /\ UNCHANGED <<source, last, schemas, faults>>
      BY <1>2 DEF InsertProfile
    <2>2. \A v \in Workers : call'[v].pc \in {"idle", "table"} /\ (v # w => call'[v].pc = "idle")
      BY <1>0, <2>1, OnlyOneIsServed DEF MetaInv, TypeOK
    <2>3. new.schema = Len(schemas)
      BY <1>0, <1>2 DEF OrderInv
    <2>4. profiles \in Seq(Profiles) /\ new \in Profiles /\ Len(schemas) \in Nat
      BY ThreadsType DEF MetaInv, TypeOK, Profiles, Threads
    <2> HIDE DEF new
    <2>5. /\ DOMAIN profiles' = 1 .. Len(profiles) + 1 /\ DOMAIN profiles = 1 .. Len(profiles) /\ Len(profiles) \in Nat
          /\ profiles'[Len(profiles) + 1] = new
          /\ \A i \in DOMAIN profiles : profiles'[i] = profiles[i]
      BY <2>1, <2>4
    <2>6. \A i \in DOMAIN profiles : profiles[i].schema <= Len(schemas)
      BY DEF OrderInv
    <2>7. \A i \in DOMAIN profiles' : profiles'[i].schema <= Len(schemas)
      BY <2>3, <2>4, <2>5, <2>6
    <2>8. \A i, j \in DOMAIN profiles' : i <= j => profiles'[i].schema <= profiles'[j].schema
      <3> SUFFICES ASSUME NEW i \in DOMAIN profiles', NEW j \in DOMAIN profiles', i <= j
                   PROVE  profiles'[i].schema <= profiles'[j].schema
        OBVIOUS
      <3>1. CASE j = Len(profiles) + 1
        BY <3>1, <2>3, <2>5, <2>7
      <3>2. CASE j \in DOMAIN profiles
        <4>1. i \in DOMAIN profiles
          BY <3>2, <2>5
        <4> QED  BY <3>2, <4>1, <2>5 DEF OrderInv, NewestIsOfNewest
      <3> QED  BY <3>1, <3>2, <2>5
    <2>9. last = Len(schemas) \/ faults > 0
      BY <1>0, OnlyOneIsServed DEF OrderInv, NewestIsOfNewest
    <2>10. NewestIsOfNewest'
      BY <2>1, <2>8, <2>9 DEF NewestIsOfNewest
    <2> QED  BY <2>1, <2>2, <2>7, <2>10 DEF OrderInv
  <1> QED  BY <1>1, <1>2

LEMMA InsertTableInOrder ==
  ASSUME MetaInv, OrderInv, ~overlapped, NEW w \in Workers, InsertTable(w)
  PROVE  OrderInv'
  <1>1. call[w].pc = "table" /\ UNCHANGED <<source, schemas, last, faults>>
    BY DEF InsertTable
  <1>2. (\A v \in Workers : v # w => call'[v].pc = "idle")
        /\ call'[w].pc \in {"idle", "table", "complete", "failed"}
    BY <1>1, OnlyOneIsServed
       DEF InsertTable, Proceed, AfterProfiling, Raise, End, Goto, Idle, MetaInv, TypeOK
  <1>3. /\ DOMAIN profiles' = DOMAIN profiles
        /\ \A i \in DOMAIN profiles : profiles'[i].schema = profiles[i].schema
    <2>1. CASE profiles' = profiles
      BY <2>1
    <2>2. CASE profiles' # profiles
      <3>1. PICK t : profiles' = [profiles EXCEPT ![call[w].id].has = @ \cup {t}]
        BY <2>2 DEF InsertTable
      <3> QED  BY <3>1 DEF MetaInv, TypeOK, Profiles
    <2> QED  BY <2>1, <2>2
  <1>4. last = Len(schemas) \/ faults > 0
    BY <1>1, OnlyOneIsServed DEF OrderInv, NewestIsOfNewest
  <1>5. NewestIsOfNewest'
    BY <1>1, <1>3, <1>4 DEF NewestIsOfNewest, OrderInv
  <1>6. \A i \in DOMAIN profiles' : profiles'[i].schema <= Len(schemas')
    BY <1>1, <1>3 DEF OrderInv
  <1>7. \A u, v \in Workers : call'[u].pc # "idle" /\ call'[v].pc # "idle" => u = v
    BY <1>2
  <1>8. \A v \in Workers : call'[v].pc \notin {"point", "number", "snapshot"}
    BY <1>2
  <1> QED  BY <1>5, <1>6, <1>7, <1>8 DEF OrderInv

LEMMA DeleteSourceInOrder ==
  ASSUME MetaInv, OrderInv, ~overlapped, NEW w \in Workers, DeleteSource(w)
  PROVE  OrderInv'
  <1>1. /\ source' = "gone" /\ schemas' = <<>> /\ last' = 0 /\ profiles' = <<>> /\ call[w].pc = "delete"
    BY DEF DeleteSource
  <1>2. \A v \in Workers : call'[v].pc = "idle"
    BY <1>1, OnlyOneIsServed DEF DeleteSource, End, Idle, MetaInv, TypeOK
  <1> QED  BY <1>1, <1>2 DEF OrderInv, NewestIsOfNewest

LEMMA OrderInvStep == MetaInv /\ OrderInv /\ [DictionaryNext]_<<vars, dictVars>> => OrderInv'
  <1> SUFFICES ASSUME MetaInv, OrderInv, [DictionaryNext]_<<vars, dictVars>>, ~overlapped' PROVE OrderInv'
    BY DEF OrderInv
  <1>1. CASE CreateSource
    <2>1. /\ \A w \in Workers : call'[w].pc = "idle"
          /\ schemas' = <<>> /\ profiles' = <<>> /\ last' = 0
      BY <1>1 DEF CreateSource, MetaInv, SourceOK
    <2> QED  BY <2>1 DEF OrderInv, NewestIsOfNewest
  <1>2. CASE CreateJob
    BY <1>2 DEF CreateJob, OrderInv, NewestIsOfNewest
  <1>3. CASE OthersStep
    <2>1. CASE call' = call /\ faults' >= faults
      <3>1. faults > 0 => faults' > 0
        BY <1>3, <2>1 DEF OthersStep, MetaInv, TypeOK
      <3>2. NewestIsOfNewest'
        BY <1>3, <2>1, <3>1 DEF OthersStep, OrderInv, NewestIsOfNewest
      <3> QED  BY <1>3, <2>1, <3>2 DEF OthersStep, OrderInv
    <2>2. CASE call' = [w \in Workers |-> Idle] /\ faults' > faults
      <3>1. faults' > 0
        BY <1>3, <2>2 DEF OthersStep, MetaInv, TypeOK
      <3>2. NewestIsOfNewest'
        BY <1>3, <3>1 DEF OthersStep, OrderInv, NewestIsOfNewest
      <3> QED  BY <1>3, <2>2, <3>2 DEF OthersStep, OrderInv, Idle
    <2> QED  BY <1>3, <2>1, <2>2 DEF OthersStep
  <1>4. ASSUME NEW w \in Workers, NEW kind \in Kinds, Request(w, kind) PROVE OrderInv'
    BY <1>4, RequestInOrder
  <1>5. ASSUME NEW w \in Workers, OwnStep(w) PROVE OrderInv'
    <2>1. ~overlapped
      BY <1>5 DEF OwnStep, Step, JobStep, DiscoveryStep, ProfilingStep, DeletionStep, ConnectorFails, StorageFails,
                  LoadJob, MarkRunning, MarkProfiling, MarkComplete, MarkFailed, UpdateJob, CheckSource, ReadVersion,
                  InsertSchema, PointToSchema, CheckOwner, ReadSchema, ReadNumber, InsertProfile, InsertTable,
                  LookForJob, DeleteSource
    <2>2. CASE ConnectorFails(w) \/ StorageFails(w)
      BY <2>1, <2>2, QuietStepsInOrder
    <2>3. CASE JobStep(w)
      BY <2>1, <2>3, QuietStepsInOrder, UpdateJobInOrder DEF JobStep
    <2>4. CASE DiscoveryStep(w)
      BY <2>1, <2>4, QuietStepsInOrder, InsertSchemaInOrder, PointToSchemaInOrder DEF DiscoveryStep
    <2>5. CASE ProfilingStep(w)
      BY <2>1, <2>5, QuietStepsInOrder, InsertProfileInOrder, InsertTableInOrder DEF ProfilingStep
    <2>6. CASE DeletionStep(w)
      BY <2>1, <2>6, QuietStepsInOrder, DeleteSourceInOrder DEF DeletionStep
    <2> QED  BY <1>5, <2>2, <2>3, <2>4, <2>5, <2>6 DEF OwnStep, Step
  <1> QED  BY <1>1, <1>2, <1>3, <1>4, <1>5, MetadataView DEF MetaInv

\* The snapshots stand in the order in which they were taken: by version always,
\* by what they are of as long as requests do not overlap.
THEOREM OrderHolds == DictionarySpec => []SnapshotsAreInOrder
  <1>1. DictionaryInit => OrderInv
    <2> SUFFICES ASSUME DictionaryInit PROVE OrderInv
      OBVIOUS
    <2>1. call = [w \in Workers |-> Idle]
      BY DEF DictionaryInit, LearnedInit, Init, Profiled
    <2>2. CASE Init
      BY <2>1, <2>2 DEF Init, OrderInv, NewestIsOfNewest, Idle
    <2>3. CASE Profiled
      <3>1. Len(schemas) = 1 /\ DOMAIN profiles = {1} /\ profiles[1].schema = 1 /\ last = 1
        BY <2>3 DEF Profiled
      <3>2. NewestIsOfNewest
        BY <3>1 DEF NewestIsOfNewest
      <3> QED  BY <2>1, <3>1, <3>2 DEF OrderInv, Idle
    <2> QED  BY <2>2, <2>3 DEF DictionaryInit, LearnedInit
  <1>2. MetaInv /\ OrderInv => SnapshotsAreInOrder
    BY DEF MetaInv, OrderInv, SnapshotsAreInOrder, NewestIsOfNewest
  <1> QED  BY <1>1, <1>2, MetaInvInit, MetaInvStep, OrderInvStep, PTL DEF DictionarySpec

(***************************************************************************)
(* What a thread at its desk relies on: what it read of the source is      *)
(* still there when it writes, if the source is.                           *)
(***************************************************************************)
IsDesk(d) == d = [pc |-> d.pc, kind |-> d.kind, id |-> d.id, tables |-> d.tables, rows |-> d.rows]

Generating(d) == d.pc \in {"tables", "rules"} \/ (d.pc = "write" /\ d.kind = "generate")
Describing(d) == d.pc = "write" /\ d.kind = "dictionary"

DeskFits(d) ==
  /\ IsDesk(d)
  /\ d.pc \in {"tables", "rules"} => d.kind = "generate"
  /\ d.pc = "newest" => d.kind = "dictionary"
  /\ d.pc = "matches" => d.kind = "analyze"
  /\ d.kind = "approveEntry" => d.id \in Items
  /\ IsThere =>
       /\ Generating(d) => d.id \in DOMAIN profiles
       /\ Generating(d) /\ d.pc # "tables" => d.tables \subseteq profiles[d.id].has
       /\ Describing(d) => d.id \in DOMAIN schemas /\ d.tables = schemas[d.id].tables

DesksOK ==
  /\ desk = [w \in Workers |-> desk[w]]
  /\ \A w \in Workers :
       /\ DeskFits(desk[w])
       /\ source = "new" \/ call[w].pc # "idle" => desk[w].pc = "away"

Meanings == {"table", "review", "id", "date", "flag", "metric", "dimension", "other"}

Entries == [snap : Nat, approved : BOOLEAN, means : Meanings]

EntryOK(i, e) ==
  /\ e \in Entries
  /\ e.snap \in DOMAIN schemas /\ i[1] \in schemas[e.snap].tables
  /\ e.approved <=> i \in signed
  /\ i[2] = "column" => (e.means = "review" <=> PiiRisk(ColumnOf[i[1]]))

\* An item has at most one row, and none once the source is gone.
RowOK(i) ==
  /\ entries[i] = {} \/ \E e \in entries[i] : entries[i] = {e} /\ EntryOK(i, e)
  /\ i \in signed => entries[i] # {}
  /\ ~IsThere => entries[i] = {}

EntriesOK == entries = [i \in Items |-> entries[i]] /\ \A i \in Items : RowOK(i)

LearnedOK == assigned = [t \in Tables |-> assigned[t]] /\ LearnedOfWhatIsThere

KnowInv == DesksOK /\ EntriesOK /\ LearnedOK

(***************************************************************************)
(* Without overlaps and faults what a generation has read is still so when *)
(* it writes, and what the last request wrote still is when it is over.    *)
(***************************************************************************)
Fresh(d) ==
  /\ Generating(d) => d.id = Len(profiles)
  /\ Generating(d) /\ d.pc # "tables" => d.tables = profiles[Len(profiles)].has
  /\ d.pc = "write" /\ d.kind = "generate" => d.rows = ActiveRules
  /\ Describing(d) => d.id = Len(schemas) /\ d.tables = schemas[Len(schemas)].tables

Calm == ~mixed /\ faults = 0

Alone ==
  \A v, w \in Workers : desk[w].pc # "away" /\ v # w => desk[v].pc = "away" /\ call[v].pc = "idle"

CurrentInv ==
  Calm => /\ Alone
          /\ IsThere => \A w \in Workers : Fresh(desk[w])
          /\ GenerationIsCurrent /\ DictionaryIsCurrent

-----------------------------------------------------------------------------
\* What a multiple EXCEPT makes of a desk (the provers take it one field at a time).
LEMMA OnlyPc ==
  ASSUME NEW e, IsDesk(e), NEW x
  PROVE  [e EXCEPT !.pc = x] = [pc |-> x, kind |-> e.kind, id |-> e.id, tables |-> e.tables, rows |-> e.rows]
  BY DEF IsDesk

LEMMA OnlyKind ==
  ASSUME NEW e, IsDesk(e), NEW x
  PROVE  [e EXCEPT !.kind = x] = [pc |-> e.pc, kind |-> x, id |-> e.id, tables |-> e.tables, rows |-> e.rows]
  BY DEF IsDesk

LEMMA OnlyId ==
  ASSUME NEW e, IsDesk(e), NEW x
  PROVE  [e EXCEPT !.id = x] = [pc |-> e.pc, kind |-> e.kind, id |-> x, tables |-> e.tables, rows |-> e.rows]
  BY DEF IsDesk

LEMMA OnlyTables ==
  ASSUME NEW e, IsDesk(e), NEW x
  PROVE  [e EXCEPT !.tables = x] = [pc |-> e.pc, kind |-> e.kind, id |-> e.id, tables |-> x, rows |-> e.rows]
  BY DEF IsDesk

LEMMA OnlyRows ==
  ASSUME NEW e, IsDesk(e), NEW x
  PROVE  [e EXCEPT !.rows = x] = [pc |-> e.pc, kind |-> e.kind, id |-> e.id, tables |-> e.tables, rows |-> x]
  BY DEF IsDesk

LEMMA PcAndId ==
  ASSUME NEW e, IsDesk(e), NEW x, NEW y
  PROVE  [e EXCEPT !.pc = x, !.id = y] = [pc |-> x, kind |-> e.kind, id |-> y, tables |-> e.tables, rows |-> e.rows]
  <1> DEFINE d == [pc |-> x, kind |-> e.kind, id |-> e.id, tables |-> e.tables, rows |-> e.rows]
  <1>1. [e EXCEPT !.pc = x] = d
    BY OnlyPc
  <1>2. [d EXCEPT !.id = y] = [pc |-> x, kind |-> e.kind, id |-> y, tables |-> e.tables, rows |-> e.rows]
    OBVIOUS
  <1> HIDE DEF d
  <1>3. [e EXCEPT !.pc = x, !.id = y] = [[e EXCEPT !.pc = x] EXCEPT !.id = y]
    OBVIOUS
  <1> QED  BY <1>1, <1>2, <1>3

LEMMA PcAndTables ==
  ASSUME NEW e, IsDesk(e), NEW x, NEW y
  PROVE  [e EXCEPT !.pc = x, !.tables = y] = [pc |-> x, kind |-> e.kind, id |-> e.id, tables |-> y, rows |-> e.rows]
  <1> DEFINE d == [pc |-> x, kind |-> e.kind, id |-> e.id, tables |-> e.tables, rows |-> e.rows]
  <1>1. [e EXCEPT !.pc = x] = d
    BY OnlyPc
  <1>2. [d EXCEPT !.tables = y] = [pc |-> x, kind |-> e.kind, id |-> e.id, tables |-> y, rows |-> e.rows]
    OBVIOUS
  <1> HIDE DEF d
  <1>3. [e EXCEPT !.pc = x, !.tables = y] = [[e EXCEPT !.pc = x] EXCEPT !.tables = y]
    OBVIOUS
  <1> QED  BY <1>1, <1>2, <1>3

LEMMA PcAndRows ==
  ASSUME NEW e, IsDesk(e), NEW x, NEW y
  PROVE  [e EXCEPT !.pc = x, !.rows = y] = [pc |-> x, kind |-> e.kind, id |-> e.id, tables |-> e.tables, rows |-> y]
  <1> DEFINE d == [pc |-> x, kind |-> e.kind, id |-> e.id, tables |-> e.tables, rows |-> e.rows]
  <1>1. [e EXCEPT !.pc = x] = d
    BY OnlyPc
  <1>2. [d EXCEPT !.rows = y] = [pc |-> x, kind |-> e.kind, id |-> e.id, tables |-> e.tables, rows |-> y]
    OBVIOUS
  <1> HIDE DEF d
  <1>3. [e EXCEPT !.pc = x, !.rows = y] = [[e EXCEPT !.pc = x] EXCEPT !.rows = y]
    OBVIOUS
  <1> QED  BY <1>1, <1>2, <1>3

LEMMA PcAndKind ==
  ASSUME NEW e, IsDesk(e), NEW x, NEW y
  PROVE  [e EXCEPT !.pc = x, !.kind = y] = [pc |-> x, kind |-> y, id |-> e.id, tables |-> e.tables, rows |-> e.rows]
  <1> DEFINE d == [pc |-> x, kind |-> e.kind, id |-> e.id, tables |-> e.tables, rows |-> e.rows]
  <1>1. [e EXCEPT !.pc = x] = d
    BY OnlyPc
  <1>2. [d EXCEPT !.kind = y] = [pc |-> x, kind |-> y, id |-> e.id, tables |-> e.tables, rows |-> e.rows]
    OBVIOUS
  <1> HIDE DEF d
  <1>3. [e EXCEPT !.pc = x, !.kind = y] = [[e EXCEPT !.pc = x] EXCEPT !.kind = y]
    OBVIOUS
  <1> QED  BY <1>1, <1>2, <1>3

LEMMA PcIdAndTables ==
  ASSUME NEW e, IsDesk(e), NEW x, NEW y, NEW z
  PROVE  [e EXCEPT !.pc = x, !.id = y, !.tables = z] = [pc |-> x, kind |-> e.kind, id |-> y, tables |-> z, rows |-> e.rows]
  <1> DEFINE d == [pc |-> x, kind |-> e.kind, id |-> y, tables |-> e.tables, rows |-> e.rows]
  <1>1. [e EXCEPT !.pc = x, !.id = y] = d
    BY PcAndId
  <1>2. [d EXCEPT !.tables = z] = [pc |-> x, kind |-> e.kind, id |-> y, tables |-> z, rows |-> e.rows]
    OBVIOUS
  <1> HIDE DEF d
  <1>3. [e EXCEPT !.pc = x, !.id = y, !.tables = z]
          = [[e EXCEPT !.pc = x, !.id = y] EXCEPT !.tables = z]
    OBVIOUS
  <1> QED  BY <1>1, <1>2, <1>3

LEMMA PcKindAndId ==
  ASSUME NEW e, IsDesk(e), NEW x, NEW y, NEW z
  PROVE  [e EXCEPT !.pc = x, !.kind = y, !.id = z] = [pc |-> x, kind |-> y, id |-> z, tables |-> e.tables, rows |-> e.rows]
  <1> DEFINE d == [pc |-> x, kind |-> y, id |-> e.id, tables |-> e.tables, rows |-> e.rows]
  <1>1. [e EXCEPT !.pc = x, !.kind = y] = d
    BY PcAndKind
  <1>2. [d EXCEPT !.id = z] = [pc |-> x, kind |-> y, id |-> z, tables |-> e.tables, rows |-> e.rows]
    OBVIOUS
  <1> HIDE DEF d
  <1>3. [e EXCEPT !.pc = x, !.kind = y, !.id = z]
          = [[e EXCEPT !.pc = x, !.kind = y] EXCEPT !.id = z]
    OBVIOUS
  <1> QED  BY <1>1, <1>2, <1>3

LEMMA NewDesk ==
  ASSUME NEW kind, NEW id
  PROVE  [Away EXCEPT !.pc = "read", !.kind = kind, !.id = id] =
           [pc |-> "read", kind |-> kind, id |-> id, tables |-> {}, rows |-> <<>>]
  <1>1. IsDesk(Away) /\ Away.tables = {} /\ Away.rows = <<>>
    BY DEF Away, IsDesk
  <1> QED  BY <1>1, PcKindAndId

\* One thread's turn, at a desk where there is one.
LEMMA TurnFits ==
  ASSUME DesksOK, UNCHANGED <<Rows, call>>, NEW w \in Workers, NEW d,
         desk' = [desk EXCEPT ![w] = d], DeskFits(d),
         source # "new" /\ call[w].pc = "idle"
  PROVE  DesksOK'
  <1>1. /\ desk' = [v \in Workers |-> desk'[v]] /\ desk'[w] = d
        /\ \A v \in Workers : v # w => desk'[v] = desk[v]
    BY DEF DesksOK
  <1>2. \A e : DeskFits(e) => DeskFits(e)'
    BY DEF DeskFits, Generating, Describing
  <1>3. ASSUME NEW v \in Workers PROVE DeskFits(desk[v])'
    BY <1>1, <1>2 DEF DesksOK, DeskFits, Generating, Describing
  <1> QED  BY <1>1, <1>3 DEF DesksOK

LEMMA AtTheDesk ==
  ASSUME DesksOK, NEW w \in Workers, desk[w].pc # "away"
  PROVE  source # "new" /\ call[w].pc = "idle" /\ DeskFits(desk[w]) /\ IsDesk(desk[w])
  BY DEF DesksOK, DeskFits

LEMMA AwayFits == DeskFits(Away)
  BY DEF DeskFits, IsDesk, Away, Generating, Describing

LEMMA LeaveFits ==
  ASSUME DesksOK, UNCHANGED <<Rows, call>>, NEW w \in Workers, desk[w].pc # "away", Leave(w)
  PROVE  DesksOK'
  BY AwayFits, AtTheDesk, TurnFits DEF Leave

\* What a read of a request leads to: its answer, if there is nothing to do, or a
\* desk that relies on no more than what was read.
NothingToDo(w) ==
  /\ desk[w].kind = "generate" => ~IsThere \/ profiles = <<>>
  /\ desk[w].kind = "dictionary" => ~IsThere \/ schemas = <<>>

ReadsOn(w) ==
  \/ Leave(w) /\ NothingToDo(w)
  \/ /\ UNCHANGED last_done
     /\ \E d : /\ d.pc # "away" /\ DeskFits(d) /\ desk' = [desk EXCEPT ![w] = d]
               /\ IsThere /\ Fresh(desk[w]) => Fresh(d)

Reads(w) ==
  \/ ReadSnapshot(w) \/ ReadTables(w) \/ ReadRules(w) \/ ReadUnknown(w) \/ CheckRule(w) \/ CheckFiner(w)
  \/ ReadApproved(w) \/ ReadMatches(w) \/ ReadFiner(w) \/ CheckDictionary(w) \/ ReadNewest(w)

LEMMA ReadsAreAtTheDesk == ASSUME NEW w \in Workers, Reads(w) PROVE desk[w].pc # "away" /\ UNCHANGED metaVars
  BY DEF Reads, Reading, ReadSnapshot, ReadTables, ReadRules, ReadUnknown, CheckRule, CheckFiner, ReadApproved,
         ReadMatches, ReadFiner, CheckDictionary, ReadNewest

LEMMA ReadsAreRelied ==
  ASSUME DesksOK, MetaInv, NEW w \in Workers, Reads(w)
  PROVE  ReadsOn(w)
  <1> DEFINE e == desk[w]
  <1> USE DEF Turn, Reading, Writing
  <1>1. DeskFits(e) /\ IsDesk(e)
    BY ReadsAreAtTheDesk, AtTheDesk
  <1>2. ASSUME Leave(w), NothingToDo(w) PROVE ReadsOn(w)
    BY <1>2 DEF ReadsOn
  <1>3. ASSUME NEW d, DeskFits(d), desk' = [desk EXCEPT ![w] = d], UNCHANGED last_done, d.pc # "away",
               IsThere /\ Fresh(e) => Fresh(d)
        PROVE  ReadsOn(w)
    BY <1>3 DEF ReadsOn
  <1> HIDE DEF e
  <1>4. CASE ReadSnapshot(w)
    <2>1. CASE IsThere /\ profiles # <<>>
      <3> DEFINE d == [pc |-> "tables", kind |-> e.kind, id |-> Len(profiles), tables |-> e.tables, rows |-> e.rows]
      <3>0. [e EXCEPT !.pc = "tables", !.id = Len(profiles)] = d
        BY <1>1, PcAndId
      <3>1. desk' = [desk EXCEPT ![w] = d] /\ UNCHANGED last_done /\ e.kind = "generate"
        BY <1>4, <2>1, <3>0 DEF ReadSnapshot, e
      <3>2. Len(profiles) \in DOMAIN profiles
        BY <2>1 DEF MetaInv, TypeOK
      <3>3. DeskFits(d) /\ Fresh(d)
        BY <3>1, <3>2 DEF DeskFits, IsDesk, Generating, Describing, Fresh
      <3> QED  BY <3>1, <3>3, <1>3
    <2>2. CASE ~IsThere \/ profiles = <<>>
      <3>1. Leave(w) /\ e.kind = "generate"
        BY <1>4, <2>2 DEF ReadSnapshot, e
      <3> QED  BY <1>2, <2>2, <3>1 DEF NothingToDo, e
    <2> QED  BY <2>1, <2>2
  <1>5. CASE ReadTables(w)
    <2> DEFINE tables == IF e.id \in DOMAIN profiles THEN profiles[e.id].has ELSE {}
               d == [pc |-> "rules", kind |-> e.kind, id |-> e.id, tables |-> tables, rows |-> e.rows]
    <2>0. [e EXCEPT !.pc = "rules", !.tables = tables] = d
      BY <1>1, PcAndTables
    <2>1. desk' = [desk EXCEPT ![w] = d] /\ UNCHANGED last_done /\ e.pc = "tables"
      BY <1>5, <2>0 DEF ReadTables, e
    <2>2. DeskFits(d)
      BY <1>1, <2>1 DEF DeskFits, IsDesk, Generating, Describing
    <2>3. IsThere /\ Fresh(e) => Fresh(d)
      BY <1>1, <2>1 DEF DeskFits, Generating, Describing, Fresh
    <2> QED  BY <2>1, <2>2, <2>3, <1>3
  <1>6. CASE ReadRules(w)
    <2> DEFINE d == [pc |-> "write", kind |-> e.kind, id |-> e.id, tables |-> e.tables, rows |-> ActiveRules]
    <2>0. [e EXCEPT !.pc = "write", !.rows = ActiveRules] = d
      BY <1>1, PcAndRows
    <2>1. desk' = [desk EXCEPT ![w] = d] /\ UNCHANGED last_done /\ e.pc = "rules"
      BY <1>6, <2>0 DEF ReadRules, e
    <2>2. DeskFits(d)
      BY <1>1, <2>1 DEF DeskFits, IsDesk, Generating, Describing
    <2>3. IsThere /\ Fresh(e) => Fresh(d)
      BY <1>1, <2>1 DEF DeskFits, Generating, Describing, Fresh
    <2> QED  BY <2>1, <2>2, <2>3, <1>3
  <1>7. CASE ReadUnknown(w) \/ ReadApproved(w) \/ ReadMatches(w) \/ ReadFiner(w)
    <2>1. e.kind \in {"suggest", "analyze", "promote"}
      BY <1>1, <1>7 DEF ReadUnknown, ReadApproved, ReadMatches, ReadFiner, e, DeskFits
    <2>2. CASE Leave(w)
      BY <2>1, <2>2, <1>2 DEF NothingToDo, e
    <2>3. CASE ~Leave(w)
      <3>1. ASSUME NEW pc, NEW rows, desk' = [desk EXCEPT ![w] = [e EXCEPT !.pc = pc, !.rows = rows]],
                   UNCHANGED last_done, pc \in {"write", "matches"}, pc = "matches" => e.kind = "analyze"
            PROVE  ReadsOn(w)
        <4> DEFINE d == [pc |-> pc, kind |-> e.kind, id |-> e.id, tables |-> e.tables, rows |-> rows]
        <4>1. desk' = [desk EXCEPT ![w] = d]
          <5>1. [e EXCEPT !.pc = pc, !.rows = rows] = d
            BY <1>1, PcAndRows
          <5> QED  BY <3>1, <5>1
        <4>2. DeskFits(d)
          BY <2>1, <3>1 DEF DeskFits, IsDesk, Generating, Describing
        <4>3. Fresh(d)
          BY <2>1, <3>1 DEF Generating, Describing, Fresh
        <4>4. d.pc # "away"
          BY <3>1
        <4> HIDE DEF d
        <4> QED  BY <3>1, <4>1, <4>2, <4>3, <4>4, <1>3
      <3> HIDE DEF Leave
      <3>2. CASE ReadUnknown(w)
        BY <2>3, <3>1, <3>2 DEF ReadUnknown, e
      <3>3. CASE ReadApproved(w)
        BY <2>3, <3>1, <3>3 DEF ReadApproved, e
      <3>4. CASE ReadMatches(w)
        BY <2>3, <3>1, <3>4 DEF ReadMatches, e
      <3>5. CASE ReadFiner(w)
        BY <2>3, <3>1, <3>5 DEF ReadFiner, e
      <3> QED  BY <1>7, <3>2, <3>3, <3>4, <3>5
    <2> QED  BY <2>2, <2>3
  <1>8. CASE CheckRule(w) \/ CheckFiner(w)
    <2>1. e.kind \in {"approve", "reject", "approveFiner", "rejectFiner"}
      BY <1>8 DEF CheckRule, CheckFiner, e
    <2> DEFINE d == [pc |-> "write", kind |-> e.kind, id |-> e.id, tables |-> e.tables, rows |-> e.rows]
    <2>2. Leave(w) \/ (UNCHANGED last_done /\ desk' = [desk EXCEPT ![w] = [e EXCEPT !.pc = "write"]])
      BY <1>8 DEF CheckRule, CheckFiner, CheckPending, e
    <2>3. Leave(w) \/ (UNCHANGED last_done /\ desk' = [desk EXCEPT ![w] = d])
      BY <1>1, <2>2, OnlyPc
    <2>4. DeskFits(d) /\ Fresh(d)
      BY <2>1 DEF DeskFits, IsDesk, Generating, Describing, Fresh
    <2>5. NothingToDo(w)
      BY <2>1 DEF NothingToDo, e
    <2>6. d.pc # "away"
      OBVIOUS
    <2> HIDE DEF d
    <2> QED  BY <2>3, <2>4, <2>5, <2>6, <1>2, <1>3
  <1>9. CASE CheckDictionary(w)
    <2> DEFINE pc == IF e.kind = "dictionary" THEN "newest" ELSE "write"
               d == [pc |-> pc, kind |-> e.kind, id |-> e.id, tables |-> e.tables, rows |-> e.rows]
    <2>1. \/ Leave(w) /\ ~IsThere
          \/ UNCHANGED last_done /\ desk' = [desk EXCEPT ![w] = [e EXCEPT !.pc = pc]]
      BY <1>9 DEF CheckDictionary, e
    <2>2. (Leave(w) /\ ~IsThere) \/ (UNCHANGED last_done /\ desk' = [desk EXCEPT ![w] = d])
      BY <1>1, <2>1, OnlyPc
    <2>3. e.kind \in {"dictionary", "approveEntry"}
      BY <1>9 DEF CheckDictionary, e
    <2>4. DeskFits(d) /\ Fresh(d) /\ d.pc # "away"
      BY <1>1, <2>3 DEF DeskFits, IsDesk, Generating, Describing, Fresh
    <2>5. ~IsThere => NothingToDo(w)
      BY DEF NothingToDo
    <2> HIDE DEF d
    <2> QED  BY <2>2, <2>4, <2>5, <1>2, <1>3
  <1>10. CASE ReadNewest(w)
    <2>1. CASE schemas # <<>>
      <3> DEFINE tables == schemas[Len(schemas)].tables
                 d == [pc |-> "write", kind |-> e.kind, id |-> Len(schemas), tables |-> tables, rows |-> e.rows]
      <3>0. [e EXCEPT !.pc = "write", !.id = Len(schemas), !.tables = tables] = d
        BY <1>1, PcIdAndTables
      <3>1. desk' = [desk EXCEPT ![w] = d] /\ UNCHANGED last_done /\ e.pc = "newest"
        BY <1>10, <2>1, <3>0 DEF ReadNewest, e
      <3>2. Len(schemas) \in DOMAIN schemas
        BY <2>1 DEF MetaInv, TypeOK
      <3>3. DeskFits(d) /\ Fresh(d)
        BY <1>1, <3>1, <3>2 DEF DeskFits, IsDesk, Generating, Describing, Fresh
      <3> QED  BY <3>1, <3>3, <1>3
    <2>2. CASE schemas = <<>>
      <3>1. Leave(w) /\ e.kind = "dictionary"
        BY <1>1, <1>10, <2>2 DEF ReadNewest, e, DeskFits
      <3> QED  BY <1>2, <2>2, <3>1 DEF NothingToDo, e
    <2> QED  BY <2>1, <2>2
  <1> QED  BY <1>4, <1>5, <1>6, <1>7, <1>8, <1>9, <1>10 DEF Reads

LEMMA ReadsStayAtTheDesk == ASSUME DesksOK, MetaInv, NEW w \in Workers, Reads(w) PROVE DesksOK'
  <1>1. ReadsOn(w)
    BY ReadsAreRelied
  <1>2. UNCHANGED <<Rows, call>> /\ desk[w].pc # "away"
    BY ReadsAreAtTheDesk DEF metaVars
  <1>3. source # "new" /\ call[w].pc = "idle"
    BY <1>2, AtTheDesk
  <1>4. CASE Leave(w)
    BY <1>2, <1>4, LeaveFits
  <1>5. ASSUME NEW d, DeskFits(d), desk' = [desk EXCEPT ![w] = d] PROVE DesksOK'
    BY <1>2, <1>3, <1>5, TurnFits
  <1> QED  BY <1>1, <1>4, <1>5 DEF ReadsOn

LEMMA WritesLeaveTheDesk ==
  ASSUME DesksOK, NEW w \in Workers,
         \/ WriteAssignments(w) \/ WriteSuggestions(w) \/ DecideRule(w) \/ DecideFiner(w) \/ WriteFiner(w)
         \/ WritePromoted(w) \/ SaveDictionary(w) \/ ApproveEntry(w)
  PROVE  DesksOK'
  <1>1. desk[w].pc = "write" /\ Leave(w) /\ UNCHANGED <<Rows, call>>
    BY DEF WriteAssignments, WriteSuggestions, DecideRule, DecideFiner, WriteFiner, WritePromoted, SaveDictionary,
           ApproveEntry, Writing, metaVars
  <1> QED  BY <1>1, LeaveFits

LEMMA RuleRequestAtTheDesk ==
  ASSUME DesksOK, NEW w \in Workers, NEW kind, NEW id, RuleRequest(w, kind, id),
         kind = "approveEntry" => id \in Items
  PROVE  DesksOK'
  <1> DEFINE d == [pc |-> "read", kind |-> kind, id |-> id, tables |-> {}, rows |-> <<>>]
  <1>1. desk' = [desk EXCEPT ![w] = d] /\ source # "new" /\ call[w].pc = "idle" /\ UNCHANGED <<Rows, call>>
    BY NewDesk DEF RuleRequest
  <1>2. DeskFits(d)
    BY DEF DeskFits, IsDesk, Generating, Describing
  <1> QED  BY <1>1, <1>2, TurnFits

-----------------------------------------------------------------------------
(***************************************************************************)
(* Seen from a desk the rows of MetadataJobs only grow, except when the    *)
(* source is deleted.                                                      *)
(***************************************************************************)
Grows ==
  /\ source' # source => source = "new" /\ source' = "there"
  /\ \A i \in DOMAIN schemas : i \in DOMAIN schemas' /\ schemas'[i] = schemas[i]
  /\ \A i \in DOMAIN profiles : i \in DOMAIN profiles' /\ profiles[i].has \subseteq profiles'[i].has

LEMMA OwnStepIsOwn ==
  ASSUME MetaInv, NEW w \in Workers, OwnStep(w)
  PROVE  call[w].pc # "idle" /\ \A v \in Workers : v # w => call'[v] = call[v]
  <1> USE DEF Goto, End, Proceed, Raise, UpdateJob
  <1>0. call \in [Workers -> Threads]
    BY DEF MetaInv, TypeOK, Threads
  <1>1. CASE JobStep(w)
    BY <1>0, <1>1 DEF JobStep, LoadJob, MarkRunning, MarkProfiling, MarkComplete, MarkFailed
  <1>2. CASE CheckSource(w) \/ InsertSchema(w) \/ PointToSchema(w)
    BY <1>0, <1>2 DEF CheckSource, InsertSchema, PointToSchema
  <1>3. CASE ReadVersion(w)
    BY <1>0, <1>3 DEF ReadVersion
  <1>4. CASE CheckOwner(w) \/ ReadSchema(w) \/ ReadNumber(w) \/ InsertProfile(w) \/ InsertTable(w)
    BY <1>0, <1>4 DEF CheckOwner, ReadSchema, ReadNumber, InsertProfile, InsertTable
  <1>5. CASE DeletionStep(w) \/ ConnectorFails(w) \/ StorageFails(w)
    BY <1>0, <1>5 DEF DeletionStep, LookForJob, DeleteSource, ConnectorFails, StorageFails
  <1> QED  BY <1>1, <1>2, <1>3, <1>4, <1>5 DEF OwnStep, Step, DiscoveryStep, ProfilingStep

LEMMA StepsGrow ==
  ASSUME MetaInv, NEW w \in Workers,
         \/ JobStep(w) \/ DiscoveryStep(w) \/ ProfilingStep(w) \/ LookForJob(w) \/ ConnectorFails(w) \/ StorageFails(w)
  PROVE  Grows
  <1>0. schemas \in Seq(Snapshots) /\ profiles \in Seq(Profiles)
    BY DEF MetaInv, TypeOK
  <1>1. CASE InsertSchema(w)
    <2>1. \/ UNCHANGED <<source, schemas, profiles>>
          \/ /\ schemas' = Append(schemas, [version |-> call[w].ver, tables |-> call[w].todo])
             /\ UNCHANGED <<source, profiles>>
      BY <1>1 DEF InsertSchema
    <2>2. [version |-> call[w].ver, tables |-> call[w].todo] \in Snapshots
      BY ThreadsType DEF Threads, Snapshots
    <2> QED  BY <1>0, <2>1, <2>2 DEF Grows
  <1>2. CASE InsertProfile(w)
    <2> DEFINE new == [version |-> call[w].ver, schema |-> call[w].id, wants |-> call[w].todo, has |-> {}]
    <2>1. \/ UNCHANGED <<source, schemas, profiles>>
          \/ /\ profiles' = Append(profiles, new)
             /\ UNCHANGED <<source, schemas>>
      BY <1>2 DEF InsertProfile
    <2>2. new \in Profiles
      BY ThreadsType DEF Threads, Profiles
    <2> HIDE DEF new
    <2> QED  BY <1>0, <2>1, <2>2 DEF Grows
  <1>3. CASE InsertTable(w)
    <2>1. CASE profiles' = profiles
      BY <1>3, <2>1 DEF InsertTable, Grows
    <2>2. CASE profiles' # profiles
      <3>1. PICK t : profiles' = [profiles EXCEPT ![call[w].id].has = @ \cup {t}]
        BY <1>3, <2>2 DEF InsertTable
      <3>2. UNCHANGED <<source, schemas>>
        BY <1>3 DEF InsertTable
      <3> QED  BY <1>0, <3>1, <3>2 DEF Grows, Profiles
    <2> QED  BY <2>1, <2>2
  <1>4. CASE JobStep(w) \/ CheckSource(w) \/ ReadVersion(w) \/ PointToSchema(w) \/ CheckOwner(w) \/ ReadSchema(w)
             \/ ReadNumber(w) \/ LookForJob(w) \/ ConnectorFails(w) \/ StorageFails(w)
    <2>1. UNCHANGED <<source, schemas, profiles>>
      BY <1>4 DEF JobStep, LoadJob, MarkRunning, MarkProfiling, MarkComplete, MarkFailed, UpdateJob, CheckSource,
                  ReadVersion, PointToSchema, CheckOwner, ReadSchema, ReadNumber, LookForJob, ConnectorFails,
                  StorageFails
    <2> QED  BY <2>1 DEF Grows
  <1> QED  BY <1>1, <1>2, <1>3, <1>4 DEF DiscoveryStep, ProfilingStep

LEMMA NothingIsLostWhenRowsGrow ==
  ASSUME KnowInv, MetaInv, Grows, UNCHANGED <<desk, entries, signed, assigned, rules, refinements>>,
         \A w \in Workers : call'[w].pc # "idle" => desk[w].pc = "away"
  PROVE  KnowInv'
  <1> USE DEF KnowInv, Grows
  <1>1. DesksOK'
    <2>1. ASSUME NEW w \in Workers PROVE DeskFits(desk[w])'
      <3>1. CASE source' = source
        BY <3>1 DEF DesksOK, DeskFits, Generating, Describing
      <3>2. CASE source' # source
        <4>1. desk[w].pc = "away" /\ DeskFits(desk[w])
          BY <3>2 DEF DesksOK
        <4> QED  BY <4>1 DEF DeskFits, Generating, Describing
      <3> QED  BY <3>1, <3>2
    <2>2. \A w \in Workers : source' = "new" \/ call'[w].pc # "idle" => desk'[w].pc = "away"
      BY DEF DesksOK
    <2> QED  BY <2>1, <2>2 DEF DesksOK
  <1>2. EntriesOK'
    <2> SUFFICES ASSUME NEW i \in Items PROVE RowOK(i)'
      BY DEF EntriesOK
    <2>1. RowOK(i)
      BY DEF EntriesOK
    <2>2. ASSUME NEW e, EntryOK(i, e) PROVE EntryOK(i, e)'
      BY <2>2 DEF EntryOK
    <2> QED  BY <2>1, <2>2 DEF RowOK, EntryOK
  <1>3. LearnedOK'
    BY DEF LearnedOK, LearnedOfWhatIsThere, AssignmentsAreOfProfiles, NothingIsLearnedOfNoSource
  <1> QED  BY <1>1, <1>2, <1>3

-----------------------------------------------------------------------------
LEMMA EntriesStay == ASSUME EntriesOK, UNCHANGED <<Rows, entries, signed>> PROVE EntriesOK'
  BY DEF EntriesOK, RowOK, EntryOK

LEMMA LearnedStays == ASSUME LearnedOK, UNCHANGED <<Rows, assigned, rules, refinements>> PROVE LearnedOK'
  BY DEF LearnedOK, LearnedOfWhatIsThere, AssignmentsAreOfProfiles, NothingIsLearnedOfNoSource

LEMMA WritesLearnOfWhatIsThere ==
  ASSUME KnowInv, NEW w \in Workers,
         \/ WriteAssignments(w) \/ WriteSuggestions(w) \/ DecideRule(w) \/ DecideFiner(w) \/ WriteFiner(w)
         \/ WritePromoted(w)
  PROVE  LearnedOK'
  <1> USE DEF LearnedOK, LearnedOfWhatIsThere
  <1>1. UNCHANGED Rows
    BY DEF WriteAssignments, WriteSuggestions, DecideRule, DecideFiner, WriteFiner, WritePromoted, metaVars
  <1>2. CASE WriteAssignments(w)
    <2>1. CASE IsThere
      <3>1. assigned' = [t \in Tables |-> IF t \in desk[w].tables
                           THEN {Assignment(desk[w].rows, t, desk[w].id)} ELSE assigned[t]]
        BY <1>2, <2>1 DEF WriteAssignments
      <3>2. Generating(desk[w]) /\ desk[w].pc # "tables" /\ DeskFits(desk[w])
        BY <1>2 DEF WriteAssignments, Writing, Generating, KnowInv, DesksOK
      <3>3. desk[w].id \in DOMAIN profiles /\ desk[w].tables \subseteq profiles[desk[w].id].has
        BY <2>1, <3>2 DEF DeskFits
      <3>4. \A t : Assignment(desk[w].rows, t, desk[w].id).snap = desk[w].id
        BY DEF Assignment
      <3>5. AssignmentsAreOfProfiles'
        BY <1>1, <3>1, <3>3, <3>4 DEF KnowInv, AssignmentsAreOfProfiles
      <3> QED  BY <1>1, <2>1, <3>1, <3>5 DEF NothingIsLearnedOfNoSource
    <2>2. CASE ~IsThere
      BY <1>1, <1>2, <2>2 DEF KnowInv, WriteAssignments, AssignmentsAreOfProfiles, NothingIsLearnedOfNoSource
    <2> QED  BY <2>1, <2>2
  <1>3. CASE ~WriteAssignments(w)
    <2>1. assigned' = assigned
      BY <1>3 DEF WriteSuggestions, DecideRule, DecideFiner, WriteFiner, WritePromoted
    <2>2. ~IsThere => rules' = <<>>
      BY <1>3 DEF KnowInv, WriteSuggestions, DecideRule, DecideFiner, WriteFiner, WritePromoted, AddRules,
                  NothingIsLearnedOfNoSource
    <2>3. ~IsThere => refinements' = <<>>
      BY <1>3 DEF KnowInv, WriteSuggestions, DecideRule, DecideFiner, WriteFiner, WritePromoted,
                  NothingIsLearnedOfNoSource
    <2> QED  BY <1>1, <2>1, <2>2, <2>3 DEF KnowInv, AssignmentsAreOfProfiles, NothingIsLearnedOfNoSource
  <1> QED  BY <1>2, <1>3

\* What is written about a column of which people should judge says so, and
\* nothing else does.
LEMMA MeaningIsRight ==
  ASSUME NEW c
  PROVE  Meaning(c) \in Meanings /\ (Meaning(c) = "review" <=> PiiRisk(c))
  <1>1. SemanticType(c) \in {"id", "date", "flag", "metric", "dimension", "other"}
    BY DEF SemanticType
  <1>2. CASE PiiRisk(c)
    BY <1>2 DEF Meaning, Meanings
  <1>3. CASE ~PiiRisk(c)
    BY <1>1, <1>3 DEF Meaning, Meanings
  <1> QED  BY <1>2, <1>3

LEMMA ANewEntry ==
  ASSUME NEW n \in Entries, NEW b \in BOOLEAN
  PROVE  /\ [n EXCEPT !.approved = b] \in Entries
         /\ [n EXCEPT !.approved = b].snap = n.snap
         /\ [n EXCEPT !.approved = b].means = n.means
         /\ [n EXCEPT !.approved = b].approved = b
  BY DEF Entries

LEMMA SaveDictionaryIsSound == ASSUME KnowInv, MetaInv, NEW w \in Workers, SaveDictionary(w) PROVE EntriesOK'
  <1> USE DEF KnowInv
  <1> DEFINE d == desk[w]
             n(i) == [snap |-> d.id, approved |-> FALSE,
                      means |-> IF i[2] = "table" THEN "table" ELSE Meaning(ColumnOf[i[1]])]
             b(i) == \E e \in entries[i] : e.approved
  <1>1. UNCHANGED Rows /\ UNCHANGED signed /\ Describing(d) /\ DeskFits(d)
    BY DEF SaveDictionary, Writing, Describing, DesksOK, metaVars
  <1>2. CASE ~IsThere
    <2>1. entries' = entries
      BY <1>2 DEF SaveDictionary
    <2> QED  BY <1>1, <2>1, EntriesStay
  <1>3. CASE IsThere
    <2>1. d.id \in DOMAIN schemas /\ d.tables = schemas[d.id].tables /\ schemas \in Seq(Snapshots)
      BY <1>1, <1>3 DEF DeskFits, MetaInv, TypeOK
    <2>2. d.id \in Nat /\ d.tables \subseteq Tables
      <3>1. d.id \in Nat
        BY <2>1
      <3>2. schemas[d.id] \in Snapshots
        BY <2>1
      <3>3. schemas[d.id].tables \subseteq Tables
        BY <3>2 DEF Snapshots
      <3> QED  BY <2>1, <3>1, <3>3
    <2>3. DOMAIN Generate(d.tables, d.id) = d.tables \X {"table", "column"}
      BY DEF Generate
    <2>4. \A i \in d.tables \X {"table", "column"} : Generate(d.tables, d.id)[i] = n(i)
      BY DEF Generate
    <2>5. /\ entries' = [i \in Items |-> entries'[i]]
          /\ \A i \in Items : entries'[i] = IF i \in d.tables \X {"table", "column"}
                                THEN {[n(i) EXCEPT !.approved = b(i)]} ELSE entries[i]
      <3>1. entries' = [i \in Items |-> IF i \in d.tables \X {"table", "column"}
                          THEN Renewed(entries[i], Generate(d.tables, d.id)[i]) ELSE entries[i]]
        BY <1>3, <2>3 DEF SaveDictionary
      <3>2. \A i \in d.tables \X {"table", "column"} :
              Renewed(entries[i], Generate(d.tables, d.id)[i]) = {[n(i) EXCEPT !.approved = b(i)]}
        <4> HIDE DEF n
        <4> QED  BY <2>4 DEF Renewed
      <3> HIDE DEF n, b
      <3> QED  BY <3>1, <3>2
    <2>6. ASSUME NEW i \in Items PROVE RowOK(i)'
      <3>0. RowOK(i)
        BY DEF EntriesOK
      <3>1. CASE i \in d.tables \X {"table", "column"}
        <4>1. n(i) \in Entries
          <5>1. Meaning(ColumnOf[i[1]]) \in Meanings
            BY MeaningIsRight
          <5>2. (IF i[2] = "table" THEN "table" ELSE Meaning(ColumnOf[i[1]])) \in Meanings
            BY <5>1 DEF Meanings
          <5>3. d.id \in Nat
            BY <2>2
          <5> HIDE DEF d
          <5> QED  BY <5>2, <5>3 DEF Entries
        <4>2. b(i) \in BOOLEAN /\ (b(i) <=> i \in signed)
          BY <3>0 DEF RowOK, EntryOK
        <4>3. n(i).snap = d.id /\ (i[2] = "column" => n(i).means = Meaning(ColumnOf[i[1]])) /\ i[1] \in d.tables
          BY <3>1
        <4> HIDE DEF n, b
        <4>4. PICK e : e = [n(i) EXCEPT !.approved = b(i)]
          OBVIOUS
        <4>5. entries'[i] = {e}
          BY <2>5, <3>1, <4>4
        <4>7. e \in Entries /\ e.snap = d.id /\ e.means = n(i).means /\ e.approved = b(i)
          BY <4>1, <4>2, <4>3, <4>4, ANewEntry
        <4>6. EntryOK(i, e)'
          <5>1. e.approved <=> i \in signed
            BY <4>2, <4>7
          <5>2. i[2] = "column" => (e.means = "review" <=> PiiRisk(ColumnOf[i[1]]))
            BY <4>3, <4>7, MeaningIsRight
          <5>3. e.snap \in DOMAIN schemas /\ i[1] \in schemas[e.snap].tables
            BY <2>1, <4>3, <4>7
          <5> QED  BY <1>1, <4>7, <5>1, <5>2, <5>3 DEF EntryOK
        <4> QED  BY <1>1, <1>3, <4>5, <4>6 DEF RowOK
      <3>2. CASE i \notin d.tables \X {"table", "column"}
        <4>1. entries'[i] = entries[i]
          BY <2>5, <3>2
        <4> QED  BY <1>1, <3>0, <4>1 DEF RowOK, EntryOK
      <3> QED  BY <3>1, <3>2
    <2> QED  BY <2>5, <2>6 DEF EntriesOK
  <1> QED  BY <1>2, <1>3

LEMMA ApproveEntryIsSound == ASSUME KnowInv, NEW w \in Workers, ApproveEntry(w) PROVE EntriesOK'
  <1> USE DEF KnowInv
  <1> DEFINE k == desk[w].id
  <1>1. UNCHANGED Rows /\ k \in Items
    BY DEF ApproveEntry, Writing, DesksOK, DeskFits, metaVars
  <1>2. /\ entries' = [entries EXCEPT ![k] = {[e EXCEPT !.approved = TRUE] : e \in entries[k]}]
        /\ signed' = IF entries[k] # {} THEN signed \cup {k} ELSE signed
    BY DEF ApproveEntry
  <1>3. entries = [i \in Items |-> entries[i]]
    BY DEF EntriesOK
  <1> HIDE DEF k
  <1>4. /\ entries' = [i \in Items |-> entries'[i]]
        /\ entries'[k] = {[e EXCEPT !.approved = TRUE] : e \in entries[k]}
        /\ \A i \in Items : i # k => entries'[i] = entries[i]
    BY <1>1, <1>2, <1>3
  <1>5. ASSUME NEW i \in Items PROVE RowOK(i)'
    <2>1. RowOK(i)
      BY DEF EntriesOK
    <2>2. CASE i # k
      <3>1. (i \in signed' <=> i \in signed) /\ entries'[i] = entries[i]
        BY <1>2, <1>4, <2>2
      <3> QED  BY <1>1, <2>1, <3>1 DEF RowOK, EntryOK
    <2>3. CASE i = k /\ entries[i] = {}
      <3>1. entries'[i] = {} /\ signed' = signed
        BY <1>2, <1>4, <2>3
      <3> QED  BY <1>1, <2>1, <2>3, <3>1 DEF RowOK
    <2>4. CASE i = k /\ entries[i] # {}
      <3>1. PICK e \in entries[i] : entries[i] = {e} /\ EntryOK(i, e)
        BY <2>1, <2>4 DEF RowOK
      <3> DEFINE f == [e EXCEPT !.approved = TRUE]
      <3>2. f \in Entries /\ f.snap = e.snap /\ f.means = e.means /\ f.approved = TRUE
        BY <3>1, ANewEntry DEF EntryOK
      <3>3. entries'[i] = {f} /\ i \in signed'
        BY <1>2, <1>4, <2>4, <3>1
      <3> HIDE DEF f
      <3>4. EntryOK(i, f)'
        BY <1>1, <3>1, <3>2, <3>3 DEF EntryOK
      <3>5. IsThere
        BY <2>1, <2>4 DEF RowOK
      <3> QED  BY <1>1, <3>3, <3>4, <3>5 DEF RowOK
    <2> QED  BY <2>2, <2>3, <2>4
  <1> QED  BY <1>4, <1>5 DEF EntriesOK

LEMMA NothingStaysOfADeletedSource ==
  ASSUME KnowInv, MetaInv, NEW w \in Workers, DeleteWithDictionary(w)
  PROVE  KnowInv'
  <1>1. /\ source' = "gone" /\ desk' = desk
        /\ entries' = [i \in Items |-> {}] /\ signed' = {}
        /\ assigned' = [t \in Tables |-> {}] /\ rules' = <<>> /\ refinements' = <<>>
    BY DEF DeleteWithDictionary, DeleteWithRules, DeleteSource
  <1>2. \A v \in Workers : call'[v].pc # "idle" => desk[v].pc = "away"
    <2>1. OwnStep(w)
      BY DEF DeleteWithDictionary, DeleteWithRules, OwnStep, Step, DeletionStep
    <2> QED  BY <2>1, OwnStepIsOwn DEF KnowInv, DesksOK
  <1>3. DesksOK'
    <2>1. ASSUME NEW v \in Workers PROVE DeskFits(desk[v])'
      BY <1>1 DEF KnowInv, DesksOK, DeskFits
    <2> QED  BY <1>1, <1>2, <2>1 DEF KnowInv, DesksOK
  <1>4. EntriesOK'
    BY <1>1 DEF EntriesOK, RowOK
  <1>5. LearnedOK'
    BY <1>1 DEF LearnedOK, LearnedOfWhatIsThere, AssignmentsAreOfProfiles, NothingIsLearnedOfNoSource
  <1> QED  BY <1>3, <1>4, <1>5 DEF KnowInv
-----------------------------------------------------------------------------
LEMMA KnowInvStep == MetaInv /\ KnowInv /\ [DictionaryNext]_<<vars, dictVars>> => KnowInv'
  <1> SUFFICES ASSUME MetaInv, KnowInv, [DictionaryNext]_<<vars, dictVars>> PROVE KnowInv'
    OBVIOUS
  <1>1. ASSUME UNCHANGED <<Rows, entries, signed, assigned, rules, refinements>>, DesksOK' PROVE KnowInv'
    BY <1>1, EntriesStay, LearnedStays DEF KnowInv
  <1>2. CASE UNCHANGED <<vars, dictVars>>
    <2>1. DesksOK'
      BY <1>2 DEF vars, metaVars, ruleVars, KnowInv, DesksOK, DeskFits, Generating, Describing
    <2> QED  BY <1>1, <1>2, <2>1 DEF vars, metaVars, ruleVars, dictVars
  <1>3. CASE MetaStep /\ UNCHANGED dictVars
    <2>0. UNCHANGED <<desk, entries, signed, assigned, rules, refinements>>
      BY <1>3 DEF MetaStep, dictVars, RuleRows
    <2>1. CASE CreateSource
      <3>1. Grows /\ UNCHANGED call
        BY <2>1 DEF CreateSource, Grows
      <3> QED  BY <2>0, <3>1, NothingIsLostWhenRowsGrow DEF KnowInv, DesksOK
    <2>2. CASE CreateJob
      <3>1. Grows /\ UNCHANGED call
        BY <2>2 DEF CreateJob, Grows
      <3> QED  BY <2>0, <3>1, NothingIsLostWhenRowsGrow DEF KnowInv, DesksOK
    <2>3. ASSUME NEW w \in Workers,
                 \/ JobStep(w) \/ DiscoveryStep(w) \/ ProfilingStep(w) \/ LookForJob(w)
                 \/ ConnectorFails(w) \/ StorageFails(w)
          PROVE  KnowInv'
      <3>1. OwnStep(w)
        BY <2>3 DEF OwnStep, Step, DeletionStep
      <3>3. \A v \in Workers : call'[v].pc # "idle" => desk[v].pc = "away"
        BY <3>1, OwnStepIsOwn DEF KnowInv, DesksOK
      <3> QED  BY <2>0, <2>3, <3>3, StepsGrow, NothingIsLostWhenRowsGrow
    <2> QED  BY <1>3, <2>1, <2>2, <2>3 DEF MetaStep
  <1>4. CASE CrashAll /\ UNCHANGED dictVars
    <2>1. /\ UNCHANGED <<Rows, entries, signed, assigned, rules, refinements>>
          /\ desk' = [w \in Workers |-> Away]
      BY <1>4 DEF CrashAll, dictVars, RuleRows
    <2>2. Away.pc = "away" /\ DeskFits(Away)'
      BY DEF DeskFits, IsDesk, Away, Generating, Describing
    <2>3. DesksOK'
      <3>1. ASSUME NEW w \in Workers PROVE DeskFits(desk[w])' /\ desk'[w].pc = "away"
        <4>1. desk'[w] = Away
          BY <2>1
        <4> QED  BY <2>2, <4>1 DEF DeskFits, Generating, Describing
      <3> QED  BY <2>1, <3>1 DEF DesksOK
    <2> QED  BY <1>1, <2>1, <2>3
  <1>5. ASSUME NEW w \in Workers, NEW kind \in Kinds, MetaRequest(w, kind), UNCHANGED dictVars PROVE KnowInv'
    <2>1. /\ UNCHANGED <<Rows, desk, entries, signed, assigned, rules, refinements>>
          /\ desk[w].pc = "away"
      BY <1>5 DEF MetaRequest, Request, dictVars, RuleRows
    <2>2. Grows
      BY <2>1 DEF Grows
    <2>3. \A v \in Workers : v # w => call'[v] = call[v]
      BY <1>5 DEF MetaRequest, Request, MetaInv, TypeOK
    <2> QED  BY <2>1, <2>2, <2>3, NothingIsLostWhenRowsGrow DEF KnowInv, DesksOK
  <1>6. ASSUME NEW w \in Workers, Reads(w), UNCHANGED <<entries, signed>> PROVE KnowInv'
    <2>1. UNCHANGED <<Rows, assigned, rules, refinements>>
      BY <1>6 DEF Reads, ReadSnapshot, ReadTables, ReadRules, ReadUnknown, CheckRule, CheckFiner, ReadApproved,
                  ReadMatches, ReadFiner, CheckDictionary, ReadNewest, metaVars, RuleRows
    <2>2. DesksOK'
      BY <1>6, ReadsStayAtTheDesk DEF KnowInv
    <2> QED  BY <1>1, <1>6, <2>1, <2>2
  <1>7. ASSUME NEW w \in Workers, UNCHANGED dictVars,
               \/ WriteAssignments(w) \/ WriteSuggestions(w) \/ DecideRule(w) \/ DecideFiner(w) \/ WriteFiner(w)
               \/ WritePromoted(w)
        PROVE  KnowInv'
    <2>1. UNCHANGED Rows
      BY <1>7 DEF WriteAssignments, WriteSuggestions, DecideRule, DecideFiner, WriteFiner, WritePromoted, metaVars
    <2>2. EntriesOK'
      BY <1>7, <2>1, EntriesStay DEF KnowInv, dictVars
    <2>3. DesksOK' /\ LearnedOK'
      BY <1>7, WritesLeaveTheDesk, WritesLearnOfWhatIsThere DEF KnowInv
    <2> QED  BY <2>2, <2>3 DEF KnowInv
  <1>8. ASSUME NEW w \in Workers, RuleStorageFails(w), UNCHANGED dictVars PROVE KnowInv'
    <2>1. /\ UNCHANGED <<Rows, call, entries, signed, assigned, rules, refinements>>
          /\ desk[w].pc # "away" /\ Leave(w)
      BY <1>8 DEF RuleStorageFails, dictVars, RuleRows
    <2> QED  BY <1>1, <2>1, LeaveFits DEF KnowInv
  <1>9. ASSUME NEW w \in Workers, NEW kind, NEW id, RuleRequest(w, kind, id), UNCHANGED <<entries, signed>>,
               kind = "approveEntry" => id \in Items
        PROVE  KnowInv'
    <2>1. UNCHANGED <<Rows, assigned, rules, refinements>>
      BY <1>9 DEF RuleRequest, RuleRows
    <2> QED  BY <1>1, <1>9, <2>1, RuleRequestAtTheDesk DEF KnowInv
  <1>10. ASSUME NEW w \in Workers, SaveDictionary(w) \/ ApproveEntry(w) PROVE KnowInv'
    <2>1. UNCHANGED <<Rows, assigned, rules, refinements>>
      BY <1>10 DEF SaveDictionary, ApproveEntry, metaVars, RuleRows
    <2>2. DesksOK' /\ EntriesOK'
      BY <1>10, WritesLeaveTheDesk, SaveDictionaryIsSound, ApproveEntryIsSound DEF KnowInv
    <2> QED  BY <2>1, <2>2, LearnedStays DEF KnowInv
  <1>11. ASSUME NEW w \in Workers, DictionaryRequest(w) PROVE KnowInv'
    <2>1. CASE RuleRequest(w, "dictionary", 0)
      BY <1>9, <1>11, <2>1 DEF DictionaryRequest
    <2>2. ASSUME NEW i \in Items, RuleRequest(w, "approveEntry", i) PROVE KnowInv'
      BY <1>9, <1>11, <2>2 DEF DictionaryRequest
    <2> QED  BY <1>11, <2>1, <2>2 DEF DictionaryRequest
  <1>12. ASSUME NEW w \in Workers, RuleStep(w), UNCHANGED dictVars PROVE KnowInv'
    BY <1>6, <1>7, <1>12 DEF RuleStep, Reads, dictVars
  <1>13. ASSUME NEW w \in Workers, CheckDictionary(w) \/ ReadNewest(w) PROVE KnowInv'
    BY <1>6, <1>13 DEF CheckDictionary, ReadNewest, Reads, dictVars
  <1>14. ASSUME NEW w \in Workers, NEW kind \in RuleKinds, NEW id, RuleRequest(w, kind, id), UNCHANGED <<entries, signed>>
         PROVE  KnowInv'
    BY <1>9, <1>14 DEF RuleKinds
  <1> QED  BY <1>2, <1>3, <1>4, <1>5, <1>8, <1>10, <1>11, <1>12, <1>13, <1>14, NothingStaysOfADeletedSource
           DEF DictionaryNext

LEMMA KnowInvInit == DictionaryInit => KnowInv
  <1> SUFFICES ASSUME DictionaryInit PROVE KnowInv
    OBVIOUS
  <1>1. desk = [w \in Workers |-> Away] /\ signed = {} /\ call = [w \in Workers |-> Idle]
    BY DEF DictionaryInit, LearnedInit, NoRequest, Init, Profiled
  <1>2. DesksOK
    <2>1. \A w \in Workers : desk[w] = Away
      BY <1>1
    <2> QED  BY <1>1, <2>1, AwayFits DEF DesksOK, Away
  <1>3. EntriesOK
    <2>1. CASE entries = [i \in Items |-> {}]
      BY <1>1, <2>1 DEF EntriesOK, RowOK
    <2>2. CASE DescribedSoFar
      <3>1. IsThere /\ schemas = <<[version |-> 1, tables |-> Tables]>>
        BY <2>2 DEF DescribedSoFar, Profiled
      <3>2. entries = [i \in Items |-> {Generate(Tables, 1)[i]}]
        BY <2>2 DEF DescribedSoFar
      <3>3. ASSUME NEW i \in Items PROVE RowOK(i)
        <4> DEFINE mean == IF i[2] = "table" THEN "table" ELSE Meaning(ColumnOf[i[1]])
                   e == [snap |-> 1, approved |-> FALSE, means |-> mean]
        <4>1. Generate(Tables, 1)[i] = e
          BY DEF Generate, Items
        <4>2. mean \in Meanings
          <5>1. Meaning(ColumnOf[i[1]]) \in Meanings
            BY MeaningIsRight
          <5> QED  BY <5>1 DEF Meanings
        <4>3. i[2] = "column" => (mean = "review" <=> PiiRisk(ColumnOf[i[1]]))
          BY MeaningIsRight
        <4> HIDE DEF mean
        <4>4. e \in Entries /\ e.snap = 1 /\ ~e.approved /\ e.means = mean
          BY <4>2 DEF Entries
        <4> HIDE DEF e
        <4>5. entries[i] = {e}
          BY <3>2, <4>1
        <4>6. 1 \in DOMAIN schemas /\ i[1] \in schemas[1].tables
          BY <3>1 DEF Items
        <4>7. EntryOK(i, e)
          BY <1>1, <4>3, <4>4, <4>6 DEF EntryOK
        <4> QED  BY <1>1, <3>1, <4>5, <4>7 DEF RowOK
      <3> QED  BY <3>2, <3>3 DEF EntriesOK
    <2> QED  BY <2>1, <2>2 DEF DictionaryInit
  <1>4. LearnedOK
    <2>1. CASE NothingLearned
      BY <2>1 DEF NothingLearned, LearnedOK, LearnedOfWhatIsThere, AssignmentsAreOfProfiles,
                  NothingIsLearnedOfNoSource
    <2>2. CASE Profiled /\ LearnedSoFar
      <3>1. PICK stage \in Stages : assigned = Generated(stage.applied)
        BY <2>2 DEF LearnedSoFar
      <3>2. assigned = [t \in Tables |-> {Assignment(stage.applied, t, 1)}]
        BY <3>1 DEF Generated
      <3>3. \A t : Assignment(stage.applied, t, 1).snap = 1
        BY DEF Assignment
      <3>4. IsThere /\ 1 \in DOMAIN profiles /\ profiles[1].has = Tables
        BY <2>2 DEF Profiled
      <3> QED  BY <3>2, <3>3, <3>4 DEF LearnedOK, LearnedOfWhatIsThere, AssignmentsAreOfProfiles,
                                       NothingIsLearnedOfNoSource
    <2> QED  BY <2>1, <2>2 DEF DictionaryInit, LearnedInit
  <1> QED  BY <1>2, <1>3, <1>4 DEF KnowInv

\* Whatever overlaps and fails: what is known of a source is of something there, an
\* entry of the dictionary says approved if and only if somebody approved it since
\* the source was made, however often it was generated anew, and a column that may
\* be about people is left to people to describe.
THEOREM KnowledgeHolds == DictionarySpec => []KnowledgeIsSound
  <1>1. KnowInv => KnowledgeIsSound
    <2> SUFFICES ASSUME KnowInv, NEW i \in Items, NEW e \in entries[i]
                 PROVE  /\ Cardinality(entries[i]) = 1 /\ IsThere
                        /\ e.snap \in DOMAIN schemas /\ i[1] \in schemas[e.snap].tables
                        /\ e.approved <=> i \in signed
                        /\ i[2] = "column" => (e.means = "review" <=> PiiRisk(ColumnOf[i[1]]))
      BY DEF KnowInv, LearnedOK, KnowledgeIsSound, DictionaryIsSound
    <2>1. entries[i] = {e} /\ EntryOK(i, e) /\ IsThere
      BY DEF KnowInv, EntriesOK, RowOK
    <2>2. Cardinality(entries[i]) = 1
      BY <2>1, FS_Singleton
    <2> QED  BY <2>1, <2>2 DEF EntryOK
  <1> QED  BY <1>1, KnowInvInit, KnowInvStep, MetaInvInit, MetaInvStep, PTL DEF DictionarySpec

-----------------------------------------------------------------------------
LEMMA AwayIsFresh == ASSUME NEW d, d.pc = "away" PROVE Fresh(d)
  BY DEF Fresh, Generating, Describing

\* The one request that is under way goes on, or is answered.
LEMMA TheOnlyDesk ==
  ASSUME NEW w \in Workers, UNCHANGED call, \A v \in Workers : v # w => desk'[v] = desk[v],
         \A v \in Workers : v # w => desk[v].pc = "away" /\ call[v].pc = "idle",
         call[w].pc = "idle", IsThere' => Fresh(desk[w])',
         desk'[w].pc = "away" => GenerationIsCurrent' /\ DictionaryIsCurrent'
  PROVE  CurrentInv'
  <1>2. Alone'
    BY DEF Alone
  <1>3. ASSUME IsThere', NEW v \in Workers PROVE Fresh(desk[v])'
    <2>1. CASE v = w
      BY <1>3, <2>1
    <2>2. CASE v # w
      BY <2>2 DEF Fresh, Generating, Describing
    <2> QED  BY <2>1, <2>2
  <1>4. desk'[w].pc # "away" => Busy'
    BY DEF Busy
  <1>5. GenerationIsCurrent' /\ DictionaryIsCurrent'
    BY <1>4 DEF GenerationIsCurrent, DictionaryIsCurrent
  <1> QED  BY <1>2, <1>3, <1>5 DEF CurrentInv

LEMMA OneDeskChanges ==
  ASSUME DesksOK, NEW w \in Workers, NEW d, desk' = [desk EXCEPT ![w] = d]
  PROVE  desk'[w] = d /\ \A v \in Workers : v # w => desk'[v] = desk[v]
  BY DEF DesksOK

\* Whoever is at a desk is alone.
LEMMA AloneAtTheDesk ==
  ASSUME DesksOK, Alone, NEW w \in Workers, desk[w].pc # "away"
  PROVE  call[w].pc = "idle" /\ \A v \in Workers : v # w => desk[v].pc = "away" /\ call[v].pc = "idle"
  BY DEF DesksOK, Alone

LEMMA ReadsStayCurrent ==
  ASSUME MetaInv, DesksOK, CurrentInv, Calm, NEW w \in Workers, Reads(w), UNCHANGED rules
  PROVE  CurrentInv'
  <1>1. ReadsOn(w) /\ desk[w].pc # "away" /\ UNCHANGED <<Rows, call>>
    BY ReadsAreRelied, ReadsAreAtTheDesk DEF metaVars
  <1>2. call[w].pc = "idle" /\ \A v \in Workers : v # w => desk[v].pc = "away" /\ call[v].pc = "idle"
    BY <1>1, AloneAtTheDesk DEF CurrentInv
  <1>3. CASE Leave(w) /\ NothingToDo(w)
    <2>1. desk' = [desk EXCEPT ![w] = Away] /\ last_done' = desk[w].kind
      BY <1>3 DEF Leave
    <2>2. GenerationIsCurrent' /\ DictionaryIsCurrent'
      BY <1>1, <1>3, <2>1 DEF NothingToDo, GenerationIsCurrent, DictionaryIsCurrent
    <2>3. desk'[w] = Away /\ \A v \in Workers : v # w => desk'[v] = desk[v]
      BY <2>1, OneDeskChanges
    <2>4. Fresh(desk[w])'
      BY <2>3 DEF Fresh, Generating, Describing, Away
    <2> QED  BY <1>1, <1>2, <2>2, <2>3, <2>4, TheOnlyDesk
  <1>4. CASE ~(Leave(w) /\ NothingToDo(w))
    <2>1. ASSUME NEW d, d.pc # "away", desk' = [desk EXCEPT ![w] = d], IsThere /\ Fresh(desk[w]) => Fresh(d)
          PROVE  CurrentInv'
      <3>1. desk'[w] = d /\ (\A v \in Workers : v # w => desk'[v] = desk[v])
        BY <2>1, OneDeskChanges
      <3>2. ASSUME IsThere' PROVE Fresh(desk[w])'
        <4>1. Fresh(d)
          BY <1>1, <2>1, <3>2 DEF CurrentInv
        <4>2. ActiveRules' = ActiveRules
          BY DEF ActiveRules
        <4> QED  BY <1>1, <3>1, <4>1, <4>2 DEF Fresh, Generating, Describing
      <3>3. desk'[w].pc # "away"
        BY <2>1, <3>1
      <3> QED  BY <1>1, <1>2, <3>1, <3>2, <3>3, TheOnlyDesk
    <2> QED  BY <1>1, <1>4, <2>1 DEF ReadsOn
  <1> QED  BY <1>1, <1>3, <1>4 DEF ReadsOn

\* A write that is over: its request was the only one.
LEMMA WritesEndCurrent ==
  ASSUME DesksOK, CurrentInv, Calm, NEW w \in Workers, desk[w].pc # "away", Leave(w), UNCHANGED <<Rows, call>>,
         GenerationIsCurrent', DictionaryIsCurrent'
  PROVE  CurrentInv'
  <1>1. call[w].pc = "idle" /\ \A v \in Workers : v # w => desk[v].pc = "away" /\ call[v].pc = "idle"
    BY AloneAtTheDesk DEF CurrentInv
  <1>2. desk'[w] = Away /\ \A v \in Workers : v # w => desk'[v] = desk[v]
    BY OneDeskChanges DEF Leave
  <1>3. Fresh(desk[w])'
    BY <1>2 DEF Fresh, Generating, Describing, Away
  <1> QED  BY <1>1, <1>2, <1>3, TheOnlyDesk

LEMMA AssignmentsAreCurrent ==
  ASSUME MetaInv, DesksOK, CurrentInv, Calm, NEW w \in Workers, WriteAssignments(w)
  PROVE  CurrentInv'
  <1>1. /\ desk[w].pc = "write" /\ desk[w].kind = "generate" /\ Leave(w) /\ UNCHANGED <<Rows, call>>
        /\ UNCHANGED rules /\ last_done' = "generate"
    BY DEF WriteAssignments, Writing, metaVars, Leave
  <1>2. ActiveRules' = ActiveRules
    BY <1>1 DEF ActiveRules
  <1>3. ASSUME IsThere, profiles # <<>>, NEW t \in profiles[Len(profiles)].has
        PROVE  assigned'[t] = {Assignment(ActiveRules, t, Len(profiles))}
    <2>1. Fresh(desk[w]) /\ Generating(desk[w])
      BY <1>1, <1>3 DEF CurrentInv, Generating
    <2>2. /\ desk[w].rows = ActiveRules /\ desk[w].id = Len(profiles)
          /\ desk[w].tables = profiles[Len(profiles)].has
      BY <1>1, <2>1 DEF Fresh
    <2>3. profiles[Len(profiles)] \in Profiles
      BY <1>3 DEF MetaInv, TypeOK
    <2>4. t \in Tables
      BY <1>3, <2>3 DEF Profiles
    <2>5. assigned' = [u \in Tables |-> IF u \in desk[w].tables
                         THEN {Assignment(desk[w].rows, u, desk[w].id)} ELSE assigned[u]]
      BY <1>3 DEF WriteAssignments
    <2>6. assigned'[t] = {Assignment(desk[w].rows, t, desk[w].id)}
      BY <1>3, <2>2, <2>4, <2>5
    <2> QED  BY <2>2, <2>6
  <1>4. GenerationIsCurrent'
    BY <1>1, <1>2, <1>3 DEF GenerationIsCurrent
  <1>5. DictionaryIsCurrent'
    BY <1>1 DEF DictionaryIsCurrent
  <1> QED  BY <1>1, <1>4, <1>5, WritesEndCurrent

LEMMA RenewedIsOfTheSnapshot ==
  ASSUME NEW old, NEW n, n = [snap |-> n.snap, approved |-> n.approved, means |-> n.means]
  PROVE  \E e \in Renewed(old, n) : e.snap = n.snap
  <1> DEFINE b == \E e \in old : e.approved
  <1>1. [n EXCEPT !.approved = b].snap = n.snap
    OBVIOUS
  <1>2. Renewed(old, n) = {[n EXCEPT !.approved = b]}
    BY DEF Renewed
  <1> HIDE DEF b
  <1> QED  BY <1>1, <1>2

LEMMA DictionaryBecomesCurrent ==
  ASSUME MetaInv, DesksOK, CurrentInv, Calm, NEW w \in Workers, SaveDictionary(w)
  PROVE  CurrentInv'
  <1>1. /\ desk[w].pc = "write" /\ desk[w].kind = "dictionary" /\ Leave(w) /\ UNCHANGED <<Rows, call>>
        /\ last_done' = "dictionary"
    BY DEF SaveDictionary, Writing, metaVars, Leave
  <1>2. ASSUME IsThere, schemas # <<>>, NEW t \in schemas[Len(schemas)].tables, NEW part \in {"table", "column"}
        PROVE  \E e \in entries'[<<t, part>>] : e.snap = Len(schemas)
    <2>1. Fresh(desk[w]) /\ Describing(desk[w])
      BY <1>1, <1>2 DEF CurrentInv, Describing
    <2>2. desk[w].id = Len(schemas) /\ desk[w].tables = schemas[Len(schemas)].tables
      BY <2>1 DEF Fresh
    <2>3. schemas[Len(schemas)] \in Snapshots
      BY <1>2 DEF MetaInv, TypeOK
    <2>4. t \in Tables
      BY <1>2, <2>3 DEF Snapshots
    <2> DEFINE g == Generate(desk[w].tables, desk[w].id)
               i == <<t, part>>
    <2>5. i \in desk[w].tables \X {"table", "column"} /\ i \in Items
      BY <1>2, <2>2, <2>4 DEF Items
    <2>6. i \in DOMAIN g /\ g[i].snap = desk[w].id
          /\ g[i] = [snap |-> g[i].snap, approved |-> g[i].approved, means |-> g[i].means]
      BY <2>5 DEF Generate
    <2>7. entries' = [k \in Items |-> IF k \in DOMAIN g THEN Renewed(entries[k], g[k]) ELSE entries[k]]
      BY <1>2 DEF SaveDictionary
    <2> HIDE DEF g, i
    <2>8. entries'[i] = Renewed(entries[i], g[i])
      BY <2>5, <2>6, <2>7
    <2>9. \E e \in entries'[i] : e.snap = desk[w].id
      BY <2>6, <2>8, RenewedIsOfTheSnapshot
    <2> QED  BY <2>2, <2>9 DEF i
  <1>3. DictionaryIsCurrent'
    BY <1>1, <1>2 DEF DictionaryIsCurrent
  <1>4. GenerationIsCurrent'
    BY <1>1 DEF GenerationIsCurrent
  <1> QED  BY <1>1, <1>3, <1>4, WritesEndCurrent

LEMMA OtherWritesStayCurrent ==
  ASSUME DesksOK, CurrentInv, Calm, NEW w \in Workers,
         \/ WriteSuggestions(w) \/ DecideRule(w) \/ DecideFiner(w) \/ WriteFiner(w) \/ WritePromoted(w)
         \/ ApproveEntry(w)
  PROVE  CurrentInv'
  <1>1. /\ desk[w].pc = "write" /\ Leave(w) /\ UNCHANGED <<Rows, call>>
        /\ desk[w].kind \notin {"generate", "dictionary"}
    BY DEF WriteSuggestions, DecideRule, DecideFiner, WriteFiner, WritePromoted, ApproveEntry, Writing, metaVars
  <1>2. last_done' \notin {"generate", "dictionary"}
    BY <1>1 DEF Leave
  <1>3. GenerationIsCurrent' /\ DictionaryIsCurrent'
    BY <1>2 DEF GenerationIsCurrent, DictionaryIsCurrent
  <1> QED  BY <1>1, <1>3, WritesEndCurrent

LEMMA RuleRequestsStayCurrent ==
  ASSUME DesksOK, Calm', NEW w \in Workers, NEW kind, NEW id, RuleRequest(w, kind, id)
  PROVE  CurrentInv'
  <1> DEFINE d == [pc |-> "read", kind |-> kind, id |-> id, tables |-> {}, rows |-> <<>>]
  <1>1. desk' = [desk EXCEPT ![w] = d] /\ UNCHANGED call /\ ~Busy
    BY NewDesk DEF RuleRequest, Calm
  <1>2. \A v \in Workers : desk[v].pc = "away" /\ call[v].pc = "idle"
    BY <1>1 DEF Busy
  <1>3. desk'[w] = d /\ \A v \in Workers : v # w => desk'[v] = desk[v]
    BY <1>1, OneDeskChanges
  <1>4. Fresh(desk[w])' /\ desk'[w].pc # "away"
    BY <1>3 DEF Fresh, Generating, Describing
  <1> HIDE DEF d
  <1> QED  BY <1>1, <1>2, <1>3, <1>4, TheOnlyDesk

\* Steps of metadata requests, and their starts: nobody is at a desk, and when the
\* last of them is over it is they that were answered last.
LEMMA NobodyAtADesk ==
  ASSUME DesksOK', UNCHANGED desk, \A w \in Workers : desk[w].pc = "away",
         Busy' \/ last_done' \notin {"generate", "dictionary"}
  PROVE  CurrentInv'
  <1>1. Alone'
    BY DEF Alone
  <1>2. \A w \in Workers : Fresh(desk[w])'
    BY DEF Fresh, Generating, Describing
  <1>3. GenerationIsCurrent' /\ DictionaryIsCurrent'
    BY DEF GenerationIsCurrent, DictionaryIsCurrent
  <1> QED  BY <1>1, <1>2, <1>3 DEF CurrentInv

LEMMA MetaStepsStayCurrent ==
  ASSUME MetaInv, DesksOK, DesksOK', CurrentInv, Calm, MetaStep, UNCHANGED dictVars
  PROVE  CurrentInv'
  <1>1. UNCHANGED <<desk, rules, assigned, entries, mixed>>
    BY DEF MetaStep, RuleRows, History, dictVars
  <1>2. CASE CreateSource
    <2>1. source = "new" /\ UNCHANGED <<schemas, profiles, call, faults>>
      BY <1>2 DEF CreateSource, Counters
    <2>2. profiles = <<>> /\ schemas = <<>> /\ \A w \in Workers : desk[w].pc = "away"
      BY <2>1 DEF MetaInv, SourceOK, DesksOK
    <2>3. Alone' /\ \A w \in Workers : Fresh(desk[w])'
      BY <1>1, <2>2 DEF Alone, Fresh, Generating, Describing
    <2>4. GenerationIsCurrent' /\ DictionaryIsCurrent'
      BY <2>1, <2>2 DEF GenerationIsCurrent, DictionaryIsCurrent
    <2> QED  BY <2>3, <2>4 DEF CurrentInv
  <1>3. CASE CreateJob
    <2>1. UNCHANGED <<source, schemas, profiles, call, faults>>
      BY <1>3 DEF CreateJob, Counters
    <2>2. UNCHANGED last_done
      BY <2>1 DEF MetaStep
    <2>3. ActiveRules' = ActiveRules /\ (Busy' <=> Busy)
      BY <1>1, <2>1 DEF ActiveRules, Busy
    <2>4. Alone'
      BY <1>1, <2>1 DEF CurrentInv, Alone
    <2>5. ASSUME IsThere', NEW w \in Workers PROVE Fresh(desk[w])'
      BY <1>1, <2>1, <2>3, <2>5 DEF CurrentInv, Fresh, Generating, Describing
    <2>6. GenerationIsCurrent'
      BY <1>1, <2>1, <2>2, <2>3 DEF CurrentInv, GenerationIsCurrent, Calm
    <2>7. DictionaryIsCurrent'
      BY <1>1, <2>1, <2>2, <2>3 DEF CurrentInv, DictionaryIsCurrent, Calm
    <2> QED  BY <2>4, <2>5, <2>6, <2>7 DEF CurrentInv
  <1>4. ASSUME NEW w \in Workers,
               \/ JobStep(w) \/ DiscoveryStep(w) \/ ProfilingStep(w) \/ LookForJob(w)
               \/ ConnectorFails(w) \/ StorageFails(w)
        PROVE  CurrentInv'
    <2>1. call[w].pc # "idle"
      BY <1>4, OwnStepIsOwn DEF OwnStep, Step, DeletionStep
    <2>2. \A v \in Workers : desk[v].pc = "away"
      BY <2>1 DEF DesksOK, CurrentInv, Alone
    <2>3. Busy' \/ last_done' = "metadata"
      BY <2>1 DEF Busy, MetaStep
    <2> QED  BY <1>1, <2>2, <2>3, NobodyAtADesk
  <1> QED  BY <1>2, <1>3, <1>4 DEF MetaStep

LEMMA CurrentInvStep ==
  MetaInv /\ KnowInv /\ KnowInv' /\ CurrentInv /\ [DictionaryNext]_<<vars, dictVars>> => CurrentInv'
  <1> SUFFICES ASSUME MetaInv, KnowInv, KnowInv', CurrentInv, [DictionaryNext]_<<vars, dictVars>>, Calm'
               PROVE  CurrentInv'
    BY DEF CurrentInv
  <1> USE DEF KnowInv
  <1>0. faults \in Nat
    BY DEF MetaInv, TypeOK, MetadataJobsAssumption
  <1>1. CASE UNCHANGED <<vars, dictVars>>
    <2>1. UNCHANGED <<metaVars, ruleVars, dictVars>>
      BY <1>1 DEF vars
    <2>2. Calm /\ (Busy' <=> Busy) /\ ActiveRules' = ActiveRules /\ (IsThere' <=> IsThere) /\ (Alone' <=> Alone)
      BY <2>1 DEF Calm, Busy, ActiveRules, metaVars, ruleVars, IsThere, Alone
    <2>3. ASSUME IsThere', NEW w \in Workers PROVE Fresh(desk[w])'
      BY <2>1, <2>2, <2>3 DEF CurrentInv, Fresh, Generating, Describing, metaVars, ruleVars
    <2>4. GenerationIsCurrent' /\ DictionaryIsCurrent'
      BY <2>1, <2>2 DEF CurrentInv, GenerationIsCurrent, DictionaryIsCurrent, metaVars, ruleVars, dictVars
    <2> QED  BY <2>2, <2>3, <2>4 DEF CurrentInv
  <1>2. CASE MetaStep /\ UNCHANGED dictVars
    <2>1. mixed' = mixed /\ faults' \in {faults, faults + 1}
      BY <1>2 DEF MetaStep, History, CreateSource, CreateJob, JobStep, DiscoveryStep, ProfilingStep, LookForJob,
           ConnectorFails, StorageFails, LoadJob, MarkRunning, MarkProfiling, MarkComplete, MarkFailed, UpdateJob,
           CheckSource, ReadVersion, InsertSchema, PointToSchema, CheckOwner, ReadSchema, ReadNumber, InsertProfile,
           InsertTable, Counters
    <2>2. Calm
      BY <1>0, <2>1 DEF Calm
    <2> QED  BY <1>2, <2>2, MetaStepsStayCurrent
  <1>3. CASE CrashAll /\ UNCHANGED dictVars
    BY <1>0, <1>3 DEF CrashAll, Calm
  <1>4. ASSUME NEW w \in Workers, NEW kind \in Kinds, MetaRequest(w, kind), UNCHANGED dictVars PROVE CurrentInv'
    <2>1. UNCHANGED desk /\ \A v \in Workers : desk[v].pc = "away"
      BY <1>4 DEF MetaRequest, Calm
    <2>2. call'[w].pc # "idle"
      BY <1>4 DEF MetaRequest, Request, MetaInv, TypeOK, Idle
    <2> QED  BY <2>1, <2>2, NobodyAtADesk DEF Busy
  <1>5. ASSUME NEW w \in Workers, Reads(w), UNCHANGED <<mixed, rules>> PROVE CurrentInv'
    <2>1. Calm
      BY <1>5, ReadsAreAtTheDesk DEF Calm, metaVars
    <2> QED  BY <1>5, <2>1, ReadsStayCurrent
  <1>6. ASSUME NEW w \in Workers,
               \/ WriteAssignments(w) \/ WriteSuggestions(w) \/ DecideRule(w) \/ DecideFiner(w) \/ WriteFiner(w)
               \/ WritePromoted(w) \/ SaveDictionary(w) \/ ApproveEntry(w)
        PROVE  CurrentInv'
    <2>1. UNCHANGED <<faults, mixed>>
      BY <1>6 DEF WriteAssignments, WriteSuggestions, DecideRule, DecideFiner, WriteFiner, WritePromoted,
                  SaveDictionary, ApproveEntry, metaVars, History
    <2>2. Calm
      BY <2>1 DEF Calm
    <2> QED  BY <1>6, <2>2, AssignmentsAreCurrent, DictionaryBecomesCurrent, OtherWritesStayCurrent
  <1>7. ASSUME NEW w \in Workers, RuleStorageFails(w) PROVE CurrentInv'
    BY <1>0, <1>7 DEF RuleStorageFails, Calm
  <1>8. ASSUME NEW w \in Workers, DeleteWithDictionary(w) PROVE CurrentInv'
    <2>1. /\ UNCHANGED <<desk, mixed, faults>> /\ last_done' = "delete" /\ call[w].pc # "idle"
      BY <1>8 DEF DeleteWithDictionary, DeleteWithRules, DeleteSource, History, Counters
    <2>2. \A v \in Workers : desk[v].pc = "away"
      BY <2>1 DEF DesksOK, CurrentInv, Alone, Calm
    <2> QED  BY <2>1, <2>2, NobodyAtADesk
  <1>9. ASSUME NEW w \in Workers, RuleStep(w) \/ CheckDictionary(w) \/ ReadNewest(w) PROVE CurrentInv'
    <2>1. Reads(w) => UNCHANGED <<mixed, rules>>
      BY <1>9 DEF Reads, ReadSnapshot, ReadTables, ReadRules, ReadUnknown, CheckRule, CheckFiner, ReadApproved,
                  ReadMatches, ReadFiner, CheckDictionary, ReadNewest, RuleRows, History
    <2> QED  BY <1>5, <1>6, <1>9, <2>1 DEF RuleStep, Reads
  <1>10. ASSUME NEW w \in Workers, NEW kind, NEW id, RuleRequest(w, kind, id) PROVE CurrentInv'
    BY <1>10, RuleRequestsStayCurrent
  <1> QED  BY <1>1, <1>2, <1>3, <1>4, <1>6, <1>7, <1>8, <1>9, <1>10 DEF DictionaryNext, DictionaryRequest

LEMMA CurrentInvInit == DictionaryInit => CurrentInv
  <1> SUFFICES ASSUME DictionaryInit PROVE CurrentInv
    OBVIOUS
  <1>1. desk = [w \in Workers |-> Away] /\ last_done = "none"
    BY DEF DictionaryInit, LearnedInit, NoRequest
  <1>2. \A w \in Workers : desk[w].pc = "away"
    BY <1>1 DEF Away
  <1>3. Alone /\ \A w \in Workers : Fresh(desk[w])
    BY <1>2, AwayIsFresh DEF Alone
  <1>4. GenerationIsCurrent /\ DictionaryIsCurrent
    BY <1>1 DEF GenerationIsCurrent, DictionaryIsCurrent
  <1> QED  BY <1>3, <1>4 DEF CurrentInv

\* Without overlaps and faults a generation leaves what the newest rows say: of the
\* latest profile every table the domain that the approved rules give it, of the
\* newest schema every table and column an entry of that snapshot.
THEOREM KnowledgeStaysCurrent == DictionarySpec => []KnowledgeIsCurrent
  <1>1. CurrentInv => KnowledgeIsCurrent
    BY DEF CurrentInv, Calm, KnowledgeIsCurrent, GenerationIsCurrent, DictionaryIsCurrent
  <1> QED  BY <1>1, CurrentInvInit, CurrentInvStep, KnowInvInit, KnowInvStep, MetaInvInit, MetaInvStep, PTL
           DEF DictionarySpec

-----------------------------------------------------------------------------
\* A function of finitely many arguments has finitely many values.
LEMMA FiniteRange ==
  ASSUME NEW f, IsFiniteSet(DOMAIN f)
  PROVE  IsFiniteSet({f[x] : x \in DOMAIN f})
  <1> DEFINE T == {f[x] : x \in DOMAIN f}
             g == [x \in DOMAIN f |-> f[x]]
  <1>1. g \in Surjection(DOMAIN f, T)
    BY DEF Surjection
  <1> HIDE DEF T, g
  <1>2. IsFiniteSet(T)
    BY <1>1, FS_Surjection
  <1> QED  BY <1>2 DEF T

\* There are finitely many domains, and at least one.
LEMMA LabelsAreFinite ==
  /\ Len(LabelOrder) \in Nat /\ DOMAIN LabelOrder = 1 .. Len(LabelOrder) /\ Len(LabelOrder) >= 1
  /\ \A i \in DOMAIN LabelOrder : LabelOrder[i] \in Labels
  /\ IsFiniteSet(Labels \cup {Unknown})
  <1>1. Labels = {LabelOrder[i] : i \in DOMAIN LabelOrder}
    BY DEF Labels, ToSet
  <1>2. Len(LabelOrder) \in Nat /\ DOMAIN LabelOrder = 1 .. Len(LabelOrder) /\ Len(LabelOrder) >= 1
    BY DomainsAssumption
  <1>3. IsFiniteSet(DOMAIN LabelOrder)
    BY <1>2, FS_Interval
  <1>4. IsFiniteSet(Labels)
    BY <1>1, <1>3, FiniteRange
  <1>5. IsFiniteSet(Labels \cup {Unknown})
    BY <1>4, FS_AddElement
  <1> QED  BY <1>1, <1>2, <1>5

\* What detect_table_domain says is a domain or nothing, and of nothing there are no rivals.
IsLabel(d) ==
  d.label \in Labels \cup {Unknown} /\ d.rivals \subseteq Labels /\ (d.label = Unknown => d.rivals = {})

LEMMA PointsAreNumbers ==
  ASSUME NEW t \in Tables, NEW l \in Labels, NEW typed
  PROVE  Points(t, l, typed) \in Nat
  <1>1. Signals[t][l] \in [named : Nat, inSchema : Nat, structure : Nat, types : Nat]
    BY DomainsAssumption
  <1> DEFINE s == Signals[t][l]
  <1>2. s.named \in Nat /\ s.inSchema \in Nat /\ s.structure \in Nat /\ s.types \in Nat
    BY <1>1
  <1> DEFINE k == IF typed THEN s.types ELSE 0
  <1>3. Points(t, l, typed) = 10 * s.named + 5 * s.inSchema + s.structure + k
    BY DEF Points
  <1>4. k \in Nat
    BY <1>2
  <1> HIDE DEF s, k
  <1> QED  BY <1>2, <1>3, <1>4

LEMMA DetectedIsALabel ==
  ASSUME NEW t \in Tables, NEW typed
  PROVE  IsLabel(Detect(t, typed))
  <1> DEFINE points == [i \in DOMAIN LabelOrder |-> Points(t, LabelOrder[i], typed)]
             Best(i) == /\ \A j \in DOMAIN points : points[j] <= points[i]
                        /\ \A j \in 1 .. i - 1 : points[j] < points[i]
             best == CHOOSE i \in DOMAIN points : Best(i)
             N == Len(LabelOrder)
  <1>1. /\ N \in Nat /\ DOMAIN points = 1 .. N /\ DOMAIN LabelOrder = 1 .. N /\ N >= 1
        /\ \A i \in 1 .. N : points[i] \in Nat
    BY LabelsAreFinite, PointsAreNumbers
  <1>2. Detect(t, typed) =
          IF points[best] < 6 THEN [label |-> Unknown, rivals |-> {}]
          ELSE [label |-> LabelOrder[best],
                rivals |-> {LabelOrder[i] : i \in {j \in DOMAIN points \ {best} : points[j] > 0}}]
    BY DEF Detect
  <1> HIDE DEF points, N
  <1>3. \E i \in 1 .. N : Best(i)
    <2>0. IsFiniteSet(1 .. N)
      BY <1>1, FS_Interval
    <2>1. 1 \in 1 .. N /\ \A i \in 1 .. N : points[i] \in Int
      BY <1>1
    <2>2. PICK g \in 1 .. N : \A j \in 1 .. N : points[j] <= points[g]
      BY <2>0, <2>1, GreatestValue
    <2> DEFINE T == {i \in 1 .. N : points[i] = points[g]}
    <2>3. T \in SUBSET Nat /\ T # {}
      BY <1>1
    <2>4. PICK i \in T : \A m \in T : i <= m
      BY <2>3, LeastNumber
    <2>5. ASSUME NEW j \in 1 .. i - 1 PROVE points[j] < points[i]
      <3>1. j \in 1 .. N /\ j \notin T
        <4>1. i \in 1 .. N /\ j \in Int /\ j < i /\ 1 <= j
          BY <1>1, <2>4
        <4>2. j \notin T
          BY <2>4, <4>1
        <4> QED  BY <1>1, <4>1, <4>2
      <3> QED  BY <1>1, <2>2, <2>4, <3>1
    <2> QED  BY <1>1, <2>2, <2>4, <2>5
  <1>4. best \in DOMAIN points
    BY <1>1, <1>3
  <1> HIDE DEF best
  <1>5. LabelOrder[best] \in Labels /\ LabelOrder[best] # Unknown
    BY <1>1, <1>4, LabelsAreFinite, LearnedRulesAssumption
  <1>6. {LabelOrder[i] : i \in {j \in DOMAIN points \ {best} : points[j] > 0}} \subseteq Labels
    BY <1>1, LabelsAreFinite
  <1> QED  BY <1>2, <1>5, <1>6 DEF IsLabel

\* The rows of rules as a generation reads them.
AreRules(rows) ==
  /\ DOMAIN rows \subseteq Nat
  /\ \A i \in DOMAIN rows : rows[i].pattern \in Patterns /\ rows[i].label \in Labels \cup {Unknown}

LEMMA ClassifiedByARule ==
  ASSUME NEW t \in Tables, NEW learned, AreRules(learned)
  PROVE  /\ IsLabel(Classify(learned, t)) /\ Classify(learned, t).by \subseteq Patterns
         /\ \A p \in Classify(learned, t).by :
              \E i \in DOMAIN learned : /\ p = learned[i].pattern /\ Classify(learned, t).label = learned[i].label
                                        /\ Matches(p, t)
  <1> DEFINE F == Fitting(learned, t)
             i == Min(F)
             d == Detect(t, TRUE)
  <1>1. F \in SUBSET Nat /\ F \subseteq DOMAIN learned
    BY DEF Fitting, AreRules
  <1>2. CASE F # {}
    <2>1. i \in F
      BY <1>1, <1>2, MinIsLeast
    <2>2. Classify(learned, t) = [label |-> learned[i].label, rivals |-> {}, by |-> {learned[i].pattern}]
      BY <1>2 DEF Classify
    <2>3. i \in DOMAIN learned /\ Matches(learned[i].pattern, t)
      BY <2>1 DEF Fitting
    <2>4. learned[i].pattern \in Patterns /\ learned[i].label \in Labels \cup {Unknown}
      BY <2>3 DEF AreRules
    <2> HIDE DEF i
    <2> QED  BY <2>2, <2>3, <2>4 DEF IsLabel
  <1>3. CASE F = {}
    <2>1. Classify(learned, t) = [label |-> d.label, rivals |-> d.rivals, by |-> {}]
      BY <1>3 DEF Classify
    <2> HIDE DEF d
    <2>2. IsLabel(d)
      BY DetectedIsALabel DEF d
    <2> QED  BY <2>1, <2>2 DEF IsLabel
  <1> QED  BY <1>2, <1>3

-----------------------------------------------------------------------------
\* What a table counts for is a finite list.
LEMMA CountedIsASequence ==
  ASSUME NEW type, NEW t \in Tables
  PROVE  type \in {"SCHEMA", "PREFIX", "SUFFIX", "TOKEN"} => IsFiniteSet(DOMAIN Counted(type, t))
  <1>0. NameOf[t] \in Seq(Words)
    BY DomainsAssumption
  <1> DEFINE name == NameOf[t]
             n == Len(name)
  <1>1. n \in Nat /\ DOMAIN name = 1 .. n
    BY <1>0
  <1> HIDE DEF name, n
  <1>2. IsFiniteSet(1 .. n) /\ IsFiniteSet(1 .. 1) /\ IsFiniteSet(1 .. 0)
    <2>1. 0 \in Int /\ 1 \in Int /\ n \in Int
      BY <1>1
    <2> QED  BY <2>1, FS_Interval, Zenon
  <1>3. DOMAIN <<>> = 1 .. 0 /\ \A x : DOMAIN <<x>> = 1 .. 1
    OBVIOUS
  <1>4. CASE type = "SCHEMA"
    <2>1. Counted(type, t) = <<SchemaOf[t]>>
      BY <1>4 DEF Counted
    <2> QED  BY <1>2, <1>3, <2>1
  <1>5. CASE type = "PREFIX"
    <2>1. Counted(type, t) = <<name[1]>> \/ Counted(type, t) = <<>>
      BY <1>5 DEF Counted, WordAt, name
    <2> QED  BY <1>2, <1>3, <2>1
  <1>6. CASE type = "SUFFIX"
    <2>1. Counted(type, t) = <<Last(name)>> \/ Counted(type, t) = <<>>
      BY <1>6 DEF Counted, name
    <2> QED  BY <1>2, <1>3, <2>1
  <1>7. CASE type = "TOKEN"
    <2>1. Counted(type, t) = name
      BY <1>7 DEF Counted, name
    <2> QED  BY <1>1, <1>2, <2>1
  <1> QED  BY <1>4, <1>5, <1>6, <1>7

\* Tables are counted for a pattern.
LEMMA SupportIsANumber ==
  ASSUME NEW p \in Patterns, NEW tables \in SUBSET Tables
  PROVE  Support(p, tables) \in Nat
  <1> DEFINE part == [t \in tables |-> {t} \X Hits(p, t)]
             parts == {{t} \X Hits(p, t) : t \in tables}
  <1>1. ASSUME NEW t \in tables PROVE IsFiniteSet({t} \X Hits(p, t))
    <2>1. p.type \in {"SCHEMA", "PREFIX", "SUFFIX", "TOKEN"}
      BY DEF Patterns
    <2>2. IsFiniteSet(DOMAIN Counted(p.type, t))
      BY <2>1, CountedIsASequence
    <2>3. Hits(p, t) \in SUBSET DOMAIN Counted(p.type, t)
      BY DEF Hits
    <2>4. IsFiniteSet(Hits(p, t))
      BY <2>2, <2>3, FS_Subset
    <2>5. IsFiniteSet({t})
      BY FS_Singleton
    <2> QED  BY <2>4, <2>5, FS_Product
  <1>2. IsFiniteSet(tables)
    BY DomainsAssumption, FS_Subset
  <1>3. IsFiniteSet({part[t] : t \in DOMAIN part})
    BY <1>2, FiniteRange
  <1>4. {part[t] : t \in DOMAIN part} = parts
    OBVIOUS
  <1>5. IsFiniteSet(UNION parts)
    <2>1. IsFiniteSet(parts) /\ \A T \in parts : IsFiniteSet(T)
      BY <1>1, <1>3, <1>4
    <2> HIDE DEF parts
    <2> QED  BY <2>1, FS_UNION
  <1> QED  BY <1>5, FS_CardinalityType DEF Support

\* There are finitely many patterns: those of the words.
LEMMA PatternsAreFinite == IsFiniteSet(Patterns)
  <1> DEFINE types == {"SCHEMA", "PREFIX", "SUFFIX", "TOKEN"}
             f == [x \in types \X Words |-> [type |-> x[1], word |-> x[2]]]
  <1>1. IsFiniteSet(types)
    <2>1. IsFiniteSet({"SCHEMA"})
      BY FS_Singleton
    <2>2. IsFiniteSet({"SCHEMA"} \cup {"PREFIX"})
      BY <2>1, FS_AddElement
    <2>3. IsFiniteSet({"SCHEMA"} \cup {"PREFIX"} \cup {"SUFFIX"})
      BY <2>2, FS_AddElement
    <2>4. IsFiniteSet({"SCHEMA"} \cup {"PREFIX"} \cup {"SUFFIX"} \cup {"TOKEN"})
      BY <2>3, FS_AddElement
    <2>5. types = {"SCHEMA"} \cup {"PREFIX"} \cup {"SUFFIX"} \cup {"TOKEN"}
      OBVIOUS
    <2> QED  BY <2>4, <2>5
  <1>2. IsFiniteSet(types \X Words)
    BY <1>1, DomainsAssumption, FS_Product
  <1>3. IsFiniteSet({f[x] : x \in DOMAIN f})
    BY <1>2, FiniteRange
  <1>4. {f[x] : x \in DOMAIN f} = Patterns
    <2>1. ASSUME NEW p \in Patterns PROVE p \in {f[x] : x \in DOMAIN f}
      <3>1. p.type \in types /\ p.word \in Words /\ p = [type |-> p.type, word |-> p.word]
        BY DEF Patterns
      <3>2. f[<<p.type, p.word>>] = p
        BY <3>1
      <3> QED  BY <3>1, <3>2
    <2>2. \A x \in DOMAIN f : f[x] \in Patterns
      BY DEF Patterns
    <2> HIDE DEF f
    <2> QED  BY <2>1, <2>2
  <1> QED  BY <1>3, <1>4

\* Of tables whose rivals were not kept no domain is inferred.
SuggestedRows == [pattern : Patterns, label : {Unknown}]

LEMMA NothingIsInferred ==
  ASSUME NEW p, NEW tables, NEW rivals, \A t \in tables : rivals[t] = {}
  PROVE  Inferred(p, tables, rivals) = Unknown
  <1>1. Support(p, {}) = 0
    BY FS_EmptySet DEF Support
  <1>2. \A l \in Labels : {t \in tables : l \in rivals[t]} = {}
    OBVIOUS
  <1> QED  BY <1>1, <1>2 DEF Inferred

\* What suggest_domain_rules finds for such tables are rows that name no domain.
LEMMA SuggestionsAreRows ==
  ASSUME NEW tables \in SUBSET Tables, NEW rivals, \A t \in tables : rivals[t] = {}
  PROVE  Suggestions(tables, rivals) \in Seq(SuggestedRows)
  <1> DEFINE enough == {p \in Patterns : Support(p, tables) >= MinSupport}
             kept == {p \in enough : p.type = "TOKEN" => [p EXCEPT !.type = "PREFIX"] \notin enough}
             key == [p \in kept |-> TypeRank[p.type] - Cardinality(DOMAIN TypeRank) * Support(p, tables)]
             order == SortedBy(kept, key)
  <1>1. Suggestions(tables, rivals) =
          [i \in DOMAIN order |-> [pattern |-> order[i], label |-> Inferred(order[i], tables, rivals)]]
    BY DEF Suggestions
  <1>2. kept \in SUBSET Patterns
    OBVIOUS
  <1>3. \A p \in kept : key[p] \in Int
    <2>1. \A p \in kept : Support(p, tables) \in Int /\ TypeRank[p.type] \in Int
      BY <1>2, SupportIsANumber DEF Patterns, TypeRank
    <2>2. Cardinality(DOMAIN TypeRank) \in Int
      <3>1. DOMAIN TypeRank = {"SCHEMA", "PREFIX", "SUFFIX", "TOKEN"}
        BY DEF TypeRank
      <3>2. IsFiniteSet({"SCHEMA"}) /\ IsFiniteSet({"PREFIX"}) /\ IsFiniteSet({"SUFFIX"}) /\ IsFiniteSet({"TOKEN"})
        BY FS_Singleton
      <3>4. IsFiniteSet({"SCHEMA"} \cup {"PREFIX"}) /\ IsFiniteSet({"SUFFIX"} \cup {"TOKEN"})
        BY <3>2, FS_Union
      <3>5. IsFiniteSet(({"SCHEMA"} \cup {"PREFIX"}) \cup ({"SUFFIX"} \cup {"TOKEN"}))
        BY <3>4, FS_Union
      <3>6. DOMAIN TypeRank = ({"SCHEMA"} \cup {"PREFIX"}) \cup ({"SUFFIX"} \cup {"TOKEN"})
        BY <3>1
      <3> QED  BY <3>5, <3>6, FS_CardinalityType
    <2> HIDE DEF kept
    <2> QED  BY <2>1, <2>2
  <1>4. IsFiniteSet(kept)
    BY <1>2, PatternsAreFinite, FS_Subset
  <1> HIDE DEF kept, key
  <1>5. order \in [1 .. Cardinality(kept) -> kept] /\ Cardinality(kept) \in Nat
    BY <1>3, <1>4, SortedByEnumerates
  <1> HIDE DEF order
  <1>6. \A i \in 1 .. Cardinality(kept) :
          [pattern |-> order[i], label |-> Inferred(order[i], tables, rivals)] \in SuggestedRows
    BY <1>2, <1>5, NothingIsInferred DEF SuggestedRows
  <1> QED  BY <1>1, <1>5, <1>6

-----------------------------------------------------------------------------
FinerRows(rows) ==
  [parent : DOMAIN rows, pattern : [type : {"TOKEN"}, word : Words], label : Labels, support : Nat]

\* A refinement is of its parent, and names a domain.
LEMMA FinerIsARow ==
  ASSUME NEW rows, NEW id \in DOMAIN rows, NEW matched \in SUBSET Tables, NEW u \in Words
  PROVE  Finer(id, rows[id], matched, u) \in SUBSET FinerRows(rows)
  <1> DEFINE group == {t \in matched : Discriminator(rows[id].pattern, t) = <<u>>}
             All == Labels \cup {Unknown}
             votes(l) == Cardinality({t \in group : Detect(t, FALSE).label = l})
             Best(l) == \A k \in All : votes(k) <= votes(l)
             top == CHOOSE l \in All : Best(l)
             c == [parent |-> id, pattern |-> [type |-> "TOKEN", word |-> u], label |-> top,
                   support |-> Cardinality(group)]
  <1>1. \/ Finer(id, rows[id], matched, u) = {}
        \/ Finer(id, rows[id], matched, u) = {c} /\ top \notin {Unknown, rows[id].label}
    BY DEF Finer
  <1>2. group \in SUBSET Tables
    OBVIOUS
  <1>3. IsFiniteSet(group) /\ Cardinality(group) \in Nat
    BY <1>2, DomainsAssumption, FS_Subset, FS_CardinalityType
  <1> HIDE DEF group
  <1>4. \A l \in All : votes(l) \in Int
    <2> TAKE l \in All
    <2>1. {t \in group : Detect(t, FALSE).label = l} \in SUBSET group
      OBVIOUS
    <2>2. IsFiniteSet({t \in group : Detect(t, FALSE).label = l})
      BY <1>3, <2>1, FS_Subset
    <2> QED  BY <2>2, FS_CardinalityType
  <1>5. IsFiniteSet(All) /\ All # {}
    BY LabelsAreFinite
  <1>6. \E l \in All : Best(l)
    <2> DEFINE f == [l \in All |-> votes(l)]
    <2>1. \A l \in All : f[l] = votes(l)
      OBVIOUS
    <2> HIDE DEF votes, All, f
    <2>2. \A l \in All : f[l] \in Int
      BY <1>4, <2>1
    <2>3. PICK l \in All : \A k \in All : f[k] <= f[l]
      BY <1>5, <2>2, GreatestValue
    <2> QED  BY <2>1, <2>3
  <1>7. top \in All
    <2> HIDE DEF votes, All, Best
    <2> QED  BY <1>6
  <1> HIDE DEF votes, top
  <1>8. top \notin {Unknown, rows[id].label} => c \in FinerRows(rows)
    BY <1>3, <1>7 DEF FinerRows
  <1> QED  BY <1>1, <1>8

\* What analyze_rule_refinement finds are rows of its table.
LEMMA RefinementsAreRows ==
  ASSUME NEW rows, IsFiniteSet(DOMAIN rows), NEW found, \A i \in DOMAIN rows : found[i] \in SUBSET Tables, NEW n
  PROVE  Refinements(rows, found, n) \in Seq(FinerRows(rows))
  <1> DEFINE flagged == {i \in DOMAIN rows : Flagged(found[i], n)}
             approved == {rows[i].pattern : i \in DOMAIN rows}
             Of(i) == UNION {Finer(i, rows[i], found[i], u) : u \in Words}
             all == UNION {UNION {Finer(i, rows[i], found[i], u) : u \in Words} : i \in flagged}
             fresh == {c \in all : c.pattern \notin approved}
             best == {c \in fresh : \A d \in fresh :
                        d.pattern = c.pattern => \/ d.support < c.support
                                                 \/ d.support = c.support /\ d.parent >= c.parent}
             key == [c \in best |-> -c.support]
  <1>1. Refinements(rows, found, n) = SortedBy(best, key)
    BY DEF Refinements
  <1>2. ASSUME NEW i \in flagged
        PROVE  IsFiniteSet(Of(i)) /\ Of(i) \in SUBSET FinerRows(rows)
    <2> DEFINE f == [u \in Words |-> Finer(i, rows[i], found[i], u)]
    <2>1. \A u \in Words : Finer(i, rows[i], found[i], u) \in SUBSET FinerRows(rows)
      BY FinerIsARow
    <2>2. \A u \in Words : IsFiniteSet(Finer(i, rows[i], found[i], u))
      <3> TAKE u \in Words
      <3>1. Finer(i, rows[i], found[i], u) = {} \/ \E c : Finer(i, rows[i], found[i], u) = {c}
        BY DEF Finer
      <3>2. CASE Finer(i, rows[i], found[i], u) = {}
        BY <3>2, FS_EmptySet
      <3>3. CASE \E c : Finer(i, rows[i], found[i], u) = {c}
        <4>1. PICK c : Finer(i, rows[i], found[i], u) = {c}
          BY <3>3
        <4>2. IsFiniteSet({c})
          BY FS_Singleton
        <4> QED  BY <4>1, <4>2
      <3> QED  BY <3>1, <3>2, <3>3
    <2>3. IsFiniteSet({f[u] : u \in DOMAIN f})
      <3>1. DOMAIN f = Words
        OBVIOUS
      <3> HIDE DEF f
      <3>2. IsFiniteSet(DOMAIN f)
        BY <3>1, DomainsAssumption
      <3> QED  BY <3>2, FiniteRange
    <2>4. {f[u] : u \in DOMAIN f} = {Finer(i, rows[i], found[i], u) : u \in Words}
      OBVIOUS
    <2>5. IsFiniteSet(Of(i))
      <3> DEFINE parts == {Finer(i, rows[i], found[i], u) : u \in Words}
      <3>1. IsFiniteSet(parts) /\ \A T \in parts : IsFiniteSet(T)
        BY <2>2, <2>3, <2>4
      <3> HIDE DEF parts
      <3>2. IsFiniteSet(UNION parts)
        BY <3>1, FS_UNION
      <3> QED  BY <3>2 DEF parts
    <2> QED  BY <2>1, <2>5
  <1>3. IsFiniteSet(all) /\ all \in SUBSET FinerRows(rows)
    <2> DEFINE f == [i \in flagged |-> Of(i)]
               parts == {Of(i) : i \in flagged}
    <2>1. IsFiniteSet(flagged)
      <3>1. flagged \in SUBSET DOMAIN rows
        OBVIOUS
      <3> QED  BY <3>1, FS_Subset
    <2>2. IsFiniteSet({f[i] : i \in DOMAIN f})
      <3> HIDE DEF flagged, Of
      <3> QED  BY <2>1, FiniteRange
    <2>3. {f[i] : i \in DOMAIN f} = parts
      OBVIOUS
    <2>4. IsFiniteSet(parts)
      BY <2>2, <2>3
    <2>7. \A T \in parts : IsFiniteSet(T)
      <3> HIDE DEF Of, flagged
      <3> QED  BY <1>2
    <2>5. all = UNION parts
      OBVIOUS
    <2>6. all \in SUBSET FinerRows(rows)
      <3> HIDE DEF Of, flagged
      <3>1. UNION parts \in SUBSET FinerRows(rows)
        BY <1>2
      <3> QED  BY <2>5, <3>1
    <2> HIDE DEF parts, all
    <2> QED  BY <2>4, <2>5, <2>6, <2>7, FS_UNION
  <1> HIDE DEF all
  <1>4. best \in SUBSET FinerRows(rows) /\ IsFiniteSet(best)
    <2>1. best \in SUBSET all
      OBVIOUS
    <2> HIDE DEF best
    <2> QED  BY <1>3, <2>1, FS_Subset
  <1> HIDE DEF best
  <1>5. \A c \in best : key[c] \in Int
    <2>1. \A c \in best : c.support \in Int
      BY <1>4 DEF FinerRows
    <2> QED  BY <2>1
  <1> HIDE DEF key
  <1>6. SortedBy(best, key) \in [1 .. Cardinality(best) -> best] /\ Cardinality(best) \in Nat
    BY <1>4, <1>5, SortedByEnumerates
  <1> QED  BY <1>1, <1>4, <1>6
-----------------------------------------------------------------------------
\* Listed gives each of the rows once.
LEMMA ListedOnce ==
  ASSUME NEW rows, NEW ids \in SUBSET Nat, IsFiniteSet(ids)
  PROVE  \E order \in Seq(ids) :
           /\ Listed(rows, ids) = [n \in 1 .. Len(order) |-> rows[order[n]]]
           /\ \A m, n \in 1 .. Len(order) : order[m] = order[n] => m = n
  <1> DEFINE key == [i \in ids |-> i]
             order == SortedBy(ids, key)
  <1>1. \A i \in ids : key[i] \in Int
    OBVIOUS
  <1>2. Listed(rows, ids) = [n \in DOMAIN order |-> rows[order[n]]]
    BY DEF Listed
  <1> HIDE DEF key
  <1>3. /\ order \in [1 .. Cardinality(ids) -> ids] /\ Cardinality(ids) \in Nat
        /\ \A m, n \in 1 .. Cardinality(ids) : order[m] = order[n] => m = n
    BY <1>1, SortedByEnumerates
  <1> HIDE DEF order
  <1>4. order \in Seq(ids) /\ Len(order) = Cardinality(ids) /\ DOMAIN order = 1 .. Len(order)
    BY <1>3
  <1> QED  BY <1>2, <1>3, <1>4

\* A list of rows behind which those of new with ids in added were put, each once.
Behind(all, rows, new, added) ==
  /\ \A k \in DOMAIN rows : k \in DOMAIN all /\ all[k] = rows[k]
  /\ \E place \in [DOMAIN all \ DOMAIN rows -> added] :
        /\ \A k \in DOMAIN all \ DOMAIN rows : all[k] = new[place[k]]
        /\ \A j, k \in DOMAIN all \ DOMAIN rows : place[j] = place[k] => j = k

\* Rows put behind others: those before stay, the others are of new.
LEMMA PutBehind ==
  ASSUME NEW S, NEW rows \in Seq(S), NEW new, NEW added \in SUBSET Nat, IsFiniteSet(added),
         \A i \in added : new[i] \in S
  PROVE  rows \o Listed(new, added) \in Seq(S) /\ Behind(rows \o Listed(new, added), rows, new, added)
  <1>1. PICK order \in Seq(added) :
           /\ Listed(new, added) = [n \in 1 .. Len(order) |-> new[order[n]]]
           /\ \A m, n \in 1 .. Len(order) : order[m] = order[n] => m = n
    BY ListedOnce
  <1> DEFINE all == rows \o Listed(new, added)
             L == Listed(new, added)
             a == Len(rows)
             b == Len(order)
  <1>2. a \in Nat /\ b \in Nat /\ DOMAIN rows = 1 .. a /\ \A n \in 1 .. b : order[n] \in added
    OBVIOUS
  <1>3. L = [n \in 1 .. b |-> new[order[n]]]
    BY <1>1
  <1>4. L \in Seq(S) /\ Len(L) = b
    <2> HIDE DEF L, b, all
    <2>1. \A n \in 1 .. b : new[order[n]] \in S
      BY <1>2
    <2> QED  BY <1>2, <1>3, <2>1
  <1>11. all = rows \o L
    OBVIOUS
  <1> HIDE DEF L, all
  <1>5. /\ all \in Seq(S) /\ Len(all) = a + b /\ DOMAIN all = 1 .. a + b
        /\ \A k \in 1 .. a : all[k] = rows[k]
        /\ \A k \in 1 .. b : all[a + k] = L[k]
    <2>1. all \in Seq(S) /\ Len(all) = Len(rows) + Len(L)
      <3>1. rows \in Seq(S) /\ L \in Seq(S) /\ all = rows \o L
        BY <1>4, <1>11
      <3> HIDE DEF a, b
      <3> QED  BY <3>1
    <2>2. Len(all) = a + b /\ DOMAIN all = 1 .. a + b
      BY <1>4, <2>1
    <2>3. ASSUME NEW k \in 1 .. Len(rows) PROVE all[k] = rows[k]
      BY <1>4, <1>11
    <2>4. ASSUME NEW k \in 1 .. Len(L) PROVE all[Len(rows) + k] = L[k]
      BY <1>4, <1>11
    <2> QED  BY <1>4, <2>1, <2>2, <2>3, <2>4
  <1> HIDE DEF a, b
  <1>6. DOMAIN all \ DOMAIN rows = a + 1 .. a + b
    BY <1>2, <1>5
  <1> DEFINE place == [k \in a + 1 .. a + b |-> order[k - a]]
  <1>7. place \in [a + 1 .. a + b -> added]
    BY <1>2
  <1>8. \A k \in a + 1 .. a + b : all[k] = new[place[k]]
    <2> TAKE k \in a + 1 .. a + b
    <2>1. k - a \in 1 .. b /\ a + (k - a) = k
      BY <1>2
    <2>2. all[k] = L[k - a]
      BY <1>5, <2>1
    <2>3. L[k - a] = new[order[k - a]]
      BY <1>3, <2>1
    <2> QED  BY <2>2, <2>3
  <1>9. ASSUME NEW j \in a + 1 .. a + b, NEW k \in a + 1 .. a + b, place[j] = place[k] PROVE j = k
    <2>1. j - a \in 1 .. b /\ k - a \in 1 .. b /\ order[j - a] = order[k - a]
      BY <1>2, <1>9
    <2>2. j - a = k - a
      BY <1>1, <2>1 DEF b
    <2> QED  BY <1>2, <2>2
  <1> HIDE DEF place
  <1> DEFINE D == DOMAIN all \ DOMAIN rows
  <1>12. /\ place \in [D -> added] /\ \A k \in D : all[k] = new[place[k]]
         /\ \A j, k \in D : place[j] = place[k] => j = k
    BY <1>6, <1>7, <1>8, <1>9
  <1>10. /\ all \in Seq(S)
         /\ \A k \in DOMAIN rows : k \in DOMAIN all /\ all[k] = rows[k]
    BY <1>2, <1>5
  <1> QED  BY <1>10, <1>12 DEF Behind, all

-----------------------------------------------------------------------------
(***************************************************************************)
(* What was learned: rows that are sound, and threads that hold nothing    *)
(* but what was approved, or will not be taken for it.  As long as no two  *)
(* decisions about one row are under way at once, a decision finds its row *)
(* PENDING.                                                                *)
(***************************************************************************)
RowsOK ==
  /\ rules \in Seq(LearningRules) /\ refinements \in Seq(RefinementSuggestions)
  /\ \A i \in DOMAIN refinements : refinements[i].parent \in DOMAIN rules
  /\ \A i \in DOMAIN rules :
       rules[i].status = "APPROVED" => <<rules[i].pattern, rules[i].label>> \in approvals
  /\ \A i \in DOMAIN refinements :
       refinements[i].status = "APPROVED" => <<refinements[i].pattern, refinements[i].label>> \in approvals
  /\ OneRulePerPattern /\ SuggestionsNameNothing /\ PromotionsWereApproved

LabelOK(t, a) ==
  /\ IsLabel(a) /\ a.by \subseteq Patterns
  /\ \A p \in a.by : <<p, a.label>> \in approvals /\ Matches(p, t)

LabelsOK ==
  \A t \in Tables : /\ \A a, b \in assigned[t] : a = b
                    /\ \A a \in assigned[t] : LabelOK(t, a)

WereApproved(rows) ==
  /\ IsFiniteSet(DOMAIN rows) /\ DOMAIN rows \subseteq Nat \ {0}
  /\ \A i \in DOMAIN rows : /\ rows[i].pattern \in Patterns /\ rows[i].label \in Labels \cup {Unknown}
                            /\ <<rows[i].pattern, rows[i].label>> \in approvals

FoundRows == [parent : DOMAIN rules, pattern : Patterns, label : Labels, support : Nat]

PapersOK(d) ==
  /\ d.pc = "write" /\ d.kind \in {"generate", "promote"} => WereApproved(d.rows)
  /\ d.pc = "write" /\ d.kind = "suggest" => d.rows \in Seq(SuggestedRows)
  /\ d.pc = "matches" /\ IsThere => IsFiniteSet(DOMAIN d.rows) /\ DOMAIN d.rows \subseteq DOMAIN rules
  /\ d.pc = "write" /\ d.kind = "analyze" /\ IsThere => d.rows \in Seq(FoundRows)

DecidesRule(d)  == d.pc = "write" /\ d.kind \in {"approve", "reject"}
DecidesFiner(d) == d.pc = "write" /\ d.kind \in {"approveFiner", "rejectFiner"}

IsPending(rows, i) == i \in DOMAIN rows /\ rows[i].status = "PENDING"

Undecided(d) ==
  IsThere => /\ DecidesRule(d) => IsPending(rules, d.id)
             /\ DecidesFiner(d) => IsPending(refinements, d.id)

Together(d, e) ==
  /\ (DecidesRule(d) /\ DecidesRule(e)) \/ (DecidesFiner(d) /\ DecidesFiner(e))
  /\ d.id = e.id

DecisionsOK ==
  ~clash => \A w \in Workers : /\ Undecided(desk[w])
                               /\ \A v \in Workers : Together(desk[v], desk[w]) => v = w

LearnInv == RowsOK /\ LabelsOK /\ (\A w \in Workers : PapersOK(desk[w])) /\ DecisionsOK
-----------------------------------------------------------------------------
\* Rows whose patterns had no rule, each pattern once, leave one rule per pattern.
LEMMA AddedOnce ==
  ASSUME rules \in Seq(LearningRules), OneRulePerPattern, IsThere,
         NEW new, IsFiniteSet(DOMAIN new), DOMAIN new \subseteq Nat,
         \A i \in DOMAIN new : new[i] \in LearningRules, AddRules(new)
  PROVE  /\ rules' \in Seq(LearningRules) /\ OneRulePerPattern'
         /\ \A k \in DOMAIN rules : k \in DOMAIN rules' /\ rules'[k] = rules[k]
         /\ \A k \in DOMAIN rules' \ DOMAIN rules : \E i \in DOMAIN new : rules'[k] = new[i]
  <1> DEFINE First(i) == \A j \in DOMAIN new : new[j].pattern = new[i].pattern => i <= j
             added == {i \in DOMAIN new : ~Has(rules, new[i].pattern) /\ First(i)}
  <1>1. rules' = rules \o Listed(new, added)
    BY DEF AddRules
  <1>2. added \in SUBSET DOMAIN new /\ added \in SUBSET Nat
    OBVIOUS
  <1>3. IsFiniteSet(added)
    BY <1>2, FS_Subset
  <1>4. \A i \in added : /\ new[i] \in LearningRules /\ ~Has(rules, new[i].pattern)
                         /\ \A j \in added : new[j].pattern = new[i].pattern => i = j
    OBVIOUS
  <1> HIDE DEF added
  <1>5. /\ rules' \in Seq(LearningRules)
        /\ \A k \in DOMAIN rules : k \in DOMAIN rules' /\ rules'[k] = rules[k]
        /\ \E place \in [DOMAIN rules' \ DOMAIN rules -> added] :
              /\ \A k \in DOMAIN rules' \ DOMAIN rules : rules'[k] = new[place[k]]
              /\ \A j, k \in DOMAIN rules' \ DOMAIN rules : place[j] = place[k] => j = k
    <2>1. (\A i \in added : new[i] \in LearningRules) /\ rules \in Seq(LearningRules) /\ added \in SUBSET Nat
      BY <1>2, <1>4
    <2>2. rules \o Listed(new, added) \in Seq(LearningRules) /\ Behind(rules \o Listed(new, added), rules, new, added)
      BY <1>3, <2>1, PutBehind
    <2>3. rules' \in Seq(LearningRules) /\ Behind(rules', rules, new, added)
      BY <1>1, <2>2, Zenon
    <2> QED  BY <2>3 DEF Behind
  <1> DEFINE D == DOMAIN rules' \ DOMAIN rules
  <1>6. PICK place \in [D -> added] : /\ \A k \in D : rules'[k] = new[place[k]]
                                      /\ \A j, k \in D : place[j] = place[k] => j = k
    BY <1>5
  <1> HIDE DEF D
  <1>7. ASSUME NEW j \in DOMAIN rules', NEW k \in DOMAIN rules', rules'[j].pattern = rules'[k].pattern
        PROVE  j = k
    <2>1. CASE j \in D /\ k \in D
      BY <1>4, <1>6, <1>7, <2>1
    <2>2. CASE j \notin D /\ k \notin D
      BY <1>5, <1>7, <2>2 DEF D, OneRulePerPattern
    <2>3. ASSUME NEW m \in DOMAIN rules, NEW n \in D, rules'[m].pattern = rules'[n].pattern PROVE FALSE
      <3>1. rules'[m] = rules[m] /\ rules'[n] = new[place[n]] /\ place[n] \in added
        BY <1>5, <1>6
      <3>2. ~Has(rules, new[place[n]].pattern)
        BY <1>4, <3>1
      <3> QED  BY <2>3, <3>1, <3>2 DEF Has
    <2>4. CASE j \in D /\ k \notin D
      BY <1>7, <2>3, <2>4 DEF D
    <2>5. CASE j \notin D /\ k \in D
      BY <1>7, <2>3, <2>5 DEF D
    <2> QED  BY <2>1, <2>2, <2>4, <2>5
  <1>8. \A k \in D : \E i \in DOMAIN new : rules'[k] = new[i]
    BY <1>2, <1>6
  <1> QED  BY <1>5, <1>7, <1>8 DEF D, OneRulePerPattern

\* Seen from a desk: the rows it relies on are still there, and its own decision
\* is still to be made.
LEMMA PapersStay ==
  ASSUME NEW d, PapersOK(d), source' = source, DOMAIN rules \subseteq DOMAIN rules', approvals \subseteq approvals'
  PROVE  PapersOK(d)'
  <1>1. ASSUME d.rows \in Seq(FoundRows) PROVE d.rows \in Seq(FoundRows')
    <2>1. FoundRows \subseteq FoundRows'
      BY DEF FoundRows
    <2> HIDE DEF FoundRows
    <2> QED  BY <1>1, <2>1
  <1> QED  BY <1>1 DEF PapersOK, WereApproved

\* A desk is left, and nothing changes under the others that they rely on.
LEMMA OneLeaves ==
  ASSUME DesksOK, \A w \in Workers : PapersOK(desk[w]), DecisionsOK, NEW w \in Workers,
         desk' = [desk EXCEPT ![w] = Away], UNCHANGED <<source, clash>>,
         DOMAIN rules \subseteq DOMAIN rules', DOMAIN refinements \subseteq DOMAIN refinements',
         approvals \subseteq approvals',
         \A v \in Workers : ~clash /\ IsThere /\ v # w /\ DecidesRule(desk[v]) =>
                               rules'[desk[v].id] = rules[desk[v].id],
         \A v \in Workers : ~clash /\ IsThere /\ v # w /\ DecidesFiner(desk[v]) =>
                               refinements'[desk[v].id] = refinements[desk[v].id]
  PROVE  (\A v \in Workers : PapersOK(desk[v])') /\ DecisionsOK'
  <1>1. desk'[w] = Away /\ \A v \in Workers : v # w => desk'[v] = desk[v]
    BY DEF DesksOK
  <1>2. Away.pc = "away"
    BY DEF Away
  <1>3. ASSUME NEW v \in Workers PROVE PapersOK(desk[v])'
    <2>1. CASE v = w
      BY <1>1, <1>2, <2>1 DEF PapersOK
    <2>2. CASE v # w
      <3>1. PapersOK(desk[v])
        OBVIOUS
      <3>2. desk'[v] = desk[v]
        BY <1>1, <2>2
      <3>3. \A e : PapersOK(e) => PapersOK(e)'
        BY PapersStay
      <3> QED  BY <3>1, <3>2, <3>3 DEF PapersOK, WereApproved, FoundRows
    <2> QED  BY <2>1, <2>2
  <1>4. DecisionsOK'
    <2> SUFFICES ASSUME ~clash, NEW v \in Workers
                 PROVE  /\ Undecided(desk[v])'
                        /\ \A u \in Workers : Together(desk'[u], desk'[v]) => u = v
      BY DEF DecisionsOK
    <2>1. Undecided(desk[v])'
      <3>1. CASE v = w
        BY <1>1, <1>2, <3>1 DEF Undecided, DecidesRule, DecidesFiner
      <3>2. CASE v # w
        BY <1>1, <3>2 DEF DecisionsOK, Undecided, IsPending, DecidesRule, DecidesFiner
      <3> QED  BY <3>1, <3>2
    <2>2. ASSUME NEW u \in Workers, Together(desk'[u], desk'[v]) PROVE u = v
      BY <1>1, <1>2, <2>2 DEF DecisionsOK, Together, DecidesRule, DecidesFiner
    <2> QED  BY <2>1, <2>2
  <1> QED  BY <1>3, <1>4

\* A desk goes on, and decides nothing.
LEMMA OneTurns ==
  ASSUME DesksOK, \A w \in Workers : PapersOK(desk[w]), DecisionsOK, NEW w \in Workers, NEW d,
         desk' = [desk EXCEPT ![w] = d], PapersOK(d), ~DecidesRule(d), ~DecidesFiner(d),
         UNCHANGED <<source, clash, rules, refinements, approvals>>
  PROVE  (\A v \in Workers : PapersOK(desk[v])') /\ DecisionsOK'
  <1>1. desk'[w] = d /\ \A v \in Workers : v # w => desk'[v] = desk[v]
    BY DEF DesksOK
  <1>2. \A e : PapersOK(e) => PapersOK(e)'
    BY DEF PapersOK, WereApproved, FoundRows
  <1>3. \A v \in Workers : PapersOK(desk[v])'
    BY <1>1, <1>2 DEF PapersOK, WereApproved, FoundRows
  <1>4. DecisionsOK'
    BY <1>1 DEF DecisionsOK, Undecided, Together, IsPending, DecidesRule, DecidesFiner
  <1> QED  BY <1>3, <1>4

-----------------------------------------------------------------------------
\* Nothing is learned or given up.
LEMMA RowsStay ==
  ASSUME RowsOK, LabelsOK, UNCHANGED <<assigned, rules, refinements, approvals>>
  PROVE  RowsOK' /\ LabelsOK'
  BY DEF RowsOK, LabelsOK, LabelOK, OneRulePerPattern, SuggestionsNameNothing, PromotionsWereApproved

\* The approved rows, and those of them that match, were approved.
LEMMA ApprovedRowsWereApproved ==
  ASSUME RowsOK
  PROVE  /\ WereApproved(ApprovedOf(rules)) /\ DOMAIN ApprovedOf(rules) \subseteq DOMAIN rules
         /\ WereApproved(ApprovedOf(refinements))
  <1>1. ASSUME NEW S, NEW rows \in Seq(S),
               \A i \in DOMAIN rows : rows[i].pattern \in Patterns /\ rows[i].label \in Labels \cup {Unknown},
               \A i \in DOMAIN rows : rows[i].status = "APPROVED" => <<rows[i].pattern, rows[i].label>> \in approvals
        PROVE  WereApproved(ApprovedOf(rows)) /\ DOMAIN ApprovedOf(rows) \subseteq DOMAIN rows
    <2> DEFINE T == {i \in DOMAIN rows : rows[i].status = "APPROVED"}
    <2>1. ApprovedOf(rows) = [i \in T |-> rows[i]]
      BY DEF ApprovedOf, Restrict
    <2>2. T \in SUBSET DOMAIN rows /\ DOMAIN rows \subseteq Nat \ {0}
      BY <1>1
    <2>3. IsFiniteSet(T)
      <3> HIDE DEF T
      <3>1. Len(rows) \in Int /\ 1 \in Int /\ DOMAIN rows = 1 .. Len(rows)
        BY <1>1
      <3>2. IsFiniteSet(DOMAIN rows)
        BY <3>1, FS_Interval
      <3> QED  BY <2>2, <3>2, FS_Subset
    <2>4. \A i \in T : /\ rows[i].pattern \in Patterns /\ rows[i].label \in Labels \cup {Unknown}
                       /\ <<rows[i].pattern, rows[i].label>> \in approvals
      BY <1>1
    <2> HIDE DEF T
    <2>5. DOMAIN ApprovedOf(rows) = T /\ \A i \in T : ApprovedOf(rows)[i] = rows[i]
      BY <2>1
    <2> QED  BY <2>2, <2>3, <2>4, <2>5 DEF WereApproved
  <1>2. rules \in Seq(LearningRules) /\ refinements \in Seq(RefinementSuggestions)
    BY DEF RowsOK
  <1>3. \A i \in DOMAIN rules : rules[i].pattern \in Patterns /\ rules[i].label \in Labels \cup {Unknown}
    <2> TAKE i \in DOMAIN rules
    <2>1. rules[i] \in LearningRules
      BY <1>2
    <2> QED  BY <2>1 DEF LearningRules
  <1>4. \A i \in DOMAIN refinements : refinements[i].pattern \in Patterns /\ refinements[i].label \in Labels \cup {Unknown}
    <2> TAKE i \in DOMAIN refinements
    <2>1. refinements[i] \in RefinementSuggestions
      BY <1>2
    <2> QED  BY <2>1 DEF RefinementSuggestions
  <1>5. WereApproved(ApprovedOf(rules)) /\ DOMAIN ApprovedOf(rules) \subseteq DOMAIN rules
    BY <1>1, <1>2, <1>3 DEF RowsOK
  <1>6. WereApproved(ApprovedOf(refinements))
    BY <1>1, <1>2, <1>4 DEF RowsOK
  <1> QED  BY <1>5, <1>6

LEMMA UnknownTablesHaveNoRivals ==
  ASSUME LabelsOK, NEW t \in Tables, NEW a \in assigned[t], a.label = Unknown
  PROVE  UNION {b.rivals : b \in assigned[t]} = {}
  <1>1. \A b \in assigned[t] : b = a
    BY DEF LabelsOK
  <1>2. a.rivals = {}
    BY DEF LabelsOK, LabelOK, IsLabel
  <1> QED  BY <1>1, <1>2

\* A turn to a desk that decides nothing.
LEMMA ReadingKeepsRows ==
  ASSUME DesksOK, LearnInv, NEW w \in Workers, UNCHANGED <<source, assigned, rules, refinements, History>>,
         \/ Leave(w)
         \/ \E d : /\ desk' = [desk EXCEPT ![w] = d] /\ PapersOK(d)
                   /\ ~DecidesRule(d) /\ ~DecidesFiner(d)
  PROVE  LearnInv'
  <1> USE DEF LearnInv
  <1>0. UNCHANGED <<approvals, clash>>
    BY DEF History
  <1>1. RowsOK' /\ LabelsOK'
    BY <1>0, RowsStay
  <1>2. CASE Leave(w)
    BY <1>0, <1>1, <1>2, OneLeaves DEF Leave
  <1>3. ASSUME NEW d, desk' = [desk EXCEPT ![w] = d], PapersOK(d), ~DecidesRule(d), ~DecidesFiner(d)
        PROVE  LearnInv'
    BY <1>0, <1>1, <1>3, OneTurns
  <1> QED  BY <1>2, <1>3

\* Reading learns nothing.
LEMMA ReadsLearnNothing ==
  ASSUME MetaInv, DesksOK, LearnInv, NEW w \in Workers, Reads(w), ~CheckRule(w), ~CheckFiner(w)
  PROVE  LearnInv'
  <1> DEFINE e == desk[w]
  <1> USE DEF Turn, Reading
  <1>1. DeskFits(e) /\ IsDesk(e)
    BY ReadsAreAtTheDesk, AtTheDesk
  <1>2. UNCHANGED <<source, assigned, rules, refinements, History>>
    BY DEF Reads, ReadSnapshot, ReadTables, ReadRules, ReadUnknown, ReadApproved, ReadMatches, ReadFiner,
           CheckDictionary, ReadNewest, RuleRows, metaVars
  <1>3. ASSUME Leave(w) PROVE LearnInv'
    BY <1>2, <1>3, ReadingKeepsRows
  <1>4. ASSUME NEW d, desk' = [desk EXCEPT ![w] = d], PapersOK(d), ~DecidesRule(d), ~DecidesFiner(d)
        PROVE  LearnInv'
    BY <1>2, <1>4, ReadingKeepsRows
  <1> HIDE DEF e
  <1>6. CASE ReadSnapshot(w)
    <2>1. Leave(w) \/ desk' = [desk EXCEPT ![w] = [e EXCEPT !.pc = "tables", !.id = Len(profiles)]]
      BY <1>6 DEF ReadSnapshot, e
    <2> DEFINE d == [pc |-> "tables", kind |-> e.kind, id |-> Len(profiles), tables |-> e.tables, rows |-> e.rows]
    <2>2. [e EXCEPT !.pc = "tables", !.id = Len(profiles)] = d
      BY <1>1, PcAndId
    <2>8. PapersOK(d) /\ ~DecidesRule(d) /\ ~DecidesFiner(d)
      BY <2>1, <2>2 DEF PapersOK, DecidesRule, DecidesFiner
    <2> HIDE DEF d
    <2> QED  BY <1>3, <1>4, <2>1, <2>2, <2>8
  <1>7. CASE ReadTables(w)
    <2>1. PICK T : desk' = [desk EXCEPT ![w] = [e EXCEPT !.pc = "rules", !.tables = T]]
      BY <1>7 DEF ReadTables, e
    <2> DEFINE d == [pc |-> "rules", kind |-> e.kind, id |-> e.id, tables |-> T, rows |-> e.rows]
    <2>2. [e EXCEPT !.pc = "rules", !.tables = T] = d
      BY <1>1, PcAndTables
    <2>8. PapersOK(d) /\ ~DecidesRule(d) /\ ~DecidesFiner(d)
      BY <2>1, <2>2 DEF PapersOK, DecidesRule, DecidesFiner
    <2> HIDE DEF d
    <2> QED  BY <1>4, <2>1, <2>2, <2>8
  <1>8. CASE ReadRules(w)
    <2>1. desk' = [desk EXCEPT ![w] = [e EXCEPT !.pc = "write", !.rows = ActiveRules]] /\ e.kind = "generate"
      BY <1>1, <1>8 DEF ReadRules, e, DeskFits
    <2> DEFINE d == [pc |-> "write", kind |-> e.kind, id |-> e.id, tables |-> e.tables, rows |-> ActiveRules]
    <2>2. [e EXCEPT !.pc = "write", !.rows = ActiveRules] = d
      BY <1>1, PcAndRows
    <2>3. WereApproved(ActiveRules)
      BY ApprovedRowsWereApproved DEF LearnInv, ActiveRules
    <2>8. PapersOK(d) /\ ~DecidesRule(d) /\ ~DecidesFiner(d)
      BY <2>1, <2>2, <2>3 DEF PapersOK, DecidesRule, DecidesFiner
    <2> HIDE DEF d
    <2> QED  BY <1>4, <2>1, <2>2, <2>3, <2>8
  <1>9. CASE ReadUnknown(w)
    <2> DEFINE unknown == {t \in Tables : \E a \in assigned[t] : a.label = Unknown}
               rivals == [t \in unknown |-> UNION {a.rivals : a \in assigned[t]}]
               rows == Suggestions(unknown, rivals)
    <2>1. /\ Leave(w) \/ desk' = [desk EXCEPT ![w] = [e EXCEPT !.pc = "write", !.rows = rows]]
          /\ e.kind = "suggest"
      BY <1>9 DEF ReadUnknown, e
    <2>2. rows \in Seq(SuggestedRows)
      <3>1. unknown \in SUBSET Tables /\ \A t \in unknown : rivals[t] = {}
        BY UnknownTablesHaveNoRivals DEF LearnInv
      <3> HIDE DEF unknown, rivals
      <3> QED  BY <3>1, SuggestionsAreRows
    <2> HIDE DEF rows
    <2> DEFINE d == [pc |-> "write", kind |-> e.kind, id |-> e.id, tables |-> e.tables, rows |-> rows]
    <2>3. [e EXCEPT !.pc = "write", !.rows = rows] = d
      BY <1>1, PcAndRows
    <2>8. PapersOK(d) /\ ~DecidesRule(d) /\ ~DecidesFiner(d)
      BY <2>1, <2>2, <2>3 DEF PapersOK, DecidesRule, DecidesFiner
    <2> HIDE DEF d
    <2> QED  BY <1>3, <1>4, <2>1, <2>2, <2>3, <2>8
  <1>10. CASE ReadApproved(w)
    <2>1. /\ Leave(w) \/ desk' = [desk EXCEPT ![w] = [e EXCEPT !.pc = "matches", !.rows = ActiveRules]]
          /\ e.kind = "analyze"
      BY <1>10 DEF ReadApproved, e
    <2> DEFINE d == [pc |-> "matches", kind |-> e.kind, id |-> e.id, tables |-> e.tables, rows |-> ActiveRules]
    <2>2. [e EXCEPT !.pc = "matches", !.rows = ActiveRules] = d
      BY <1>1, PcAndRows
    <2>3. IsFiniteSet(DOMAIN ActiveRules) /\ DOMAIN ActiveRules \subseteq DOMAIN rules
      BY ApprovedRowsWereApproved DEF LearnInv, ActiveRules, WereApproved
    <2>8. PapersOK(d) /\ ~DecidesRule(d) /\ ~DecidesFiner(d)
      BY <2>1, <2>2, <2>3 DEF PapersOK, DecidesRule, DecidesFiner
    <2> HIDE DEF d
    <2> QED  BY <1>3, <1>4, <2>1, <2>2, <2>3, <2>8
  <1>11. CASE ReadMatches(w)
    <2> DEFINE broad == e.rows
               known == IF profiles = <<>> THEN {} ELSE profiles[Len(profiles)].has
               found == [i \in DOMAIN broad |-> {t \in known : \E a \in assigned[t] : a.by = {broad[i].pattern}}]
               labelled == Cardinality({t \in Tables : \E a \in assigned[t] : a.label # Unknown})
               rows == Refinements(broad, found, labelled)
    <2>1. desk' = [desk EXCEPT ![w] = [e EXCEPT !.pc = "write", !.rows = rows]] /\ e.kind = "analyze" /\ e.pc = "matches"
      BY <1>1, <1>11 DEF ReadMatches, e, DeskFits
    <2>2. ASSUME IsThere PROVE rows \in Seq(FoundRows)
      <3>1. IsFiniteSet(DOMAIN broad) /\ DOMAIN broad \subseteq DOMAIN rules
        BY <2>1, <2>2 DEF LearnInv, PapersOK, e
      <3>2. known \in SUBSET Tables
        <4>1. profiles \in Seq(Profiles)
          BY DEF MetaInv, TypeOK
        <4>2. CASE profiles # <<>>
          <5>1. profiles[Len(profiles)] \in Profiles
            BY <4>1, <4>2
          <5> QED  BY <4>2, <5>1 DEF Profiles
        <4> QED  BY <4>2
      <3>3. \A i \in DOMAIN broad : found[i] \in SUBSET Tables
        BY <3>2
      <3> HIDE DEF broad, found, labelled
      <3>4. rows \in Seq(FinerRows(broad))
        BY <3>1, <3>3, RefinementsAreRows
      <3>5. FinerRows(broad) \subseteq FoundRows
        BY <3>1 DEF FinerRows, FoundRows, Patterns
      <3> HIDE DEF rows
      <3> QED  BY <3>4, <3>5
    <2> HIDE DEF rows
    <2> DEFINE d == [pc |-> "write", kind |-> e.kind, id |-> e.id, tables |-> e.tables, rows |-> rows]
    <2>3. [e EXCEPT !.pc = "write", !.rows = rows] = d
      BY <1>1, PcAndRows
    <2>8. PapersOK(d) /\ ~DecidesRule(d) /\ ~DecidesFiner(d)
      BY <2>1, <2>2, <2>3 DEF PapersOK, DecidesRule, DecidesFiner
    <2> HIDE DEF d
    <2> QED  BY <1>4, <2>1, <2>2, <2>3, <2>8
  <1>12. CASE ReadFiner(w)
    <2>1. /\ Leave(w) \/ desk' = [desk EXCEPT ![w] = [e EXCEPT !.pc = "write", !.rows = ApprovedFiner]]
          /\ e.kind = "promote"
      BY <1>12 DEF ReadFiner, e
    <2> DEFINE d == [pc |-> "write", kind |-> e.kind, id |-> e.id, tables |-> e.tables, rows |-> ApprovedFiner]
    <2>2. [e EXCEPT !.pc = "write", !.rows = ApprovedFiner] = d
      BY <1>1, PcAndRows
    <2>3. WereApproved(ApprovedFiner)
      BY ApprovedRowsWereApproved DEF LearnInv, ApprovedFiner
    <2>8. PapersOK(d) /\ ~DecidesRule(d) /\ ~DecidesFiner(d)
      BY <2>1, <2>2, <2>3 DEF PapersOK, DecidesRule, DecidesFiner
    <2> HIDE DEF d
    <2> QED  BY <1>3, <1>4, <2>1, <2>2, <2>3, <2>8
  <1>13. CASE CheckDictionary(w)
    <2> DEFINE pc == IF e.kind = "dictionary" THEN "newest" ELSE "write"
    <2>2. Leave(w) \/ (desk' = [desk EXCEPT ![w] = [e EXCEPT !.pc = pc]] /\ pc \in {"newest", "write"})
      BY <1>13 DEF CheckDictionary, e
    <2> DEFINE d == [pc |-> pc, kind |-> e.kind, id |-> e.id, tables |-> e.tables, rows |-> e.rows]
    <2>3. [e EXCEPT !.pc = pc] = d
      BY <1>1, OnlyPc
    <2>4. e.kind \in {"dictionary", "approveEntry"}
      BY <1>13 DEF CheckDictionary, e
    <2>8. PapersOK(d) /\ ~DecidesRule(d) /\ ~DecidesFiner(d)
      BY <2>2, <2>3, <2>4 DEF PapersOK, DecidesRule, DecidesFiner
    <2> HIDE DEF d
    <2> QED  BY <1>3, <1>4, <2>2, <2>3, <2>4, <2>8
  <1>14. CASE ReadNewest(w)
    <2> DEFINE T == schemas[Len(schemas)].tables
    <2>1. /\ Leave(w) \/ desk' = [desk EXCEPT ![w] = [e EXCEPT !.pc = "write", !.id = Len(schemas), !.tables = T]]
          /\ e.kind = "dictionary"
      BY <1>1, <1>14 DEF ReadNewest, e, DeskFits
    <2> DEFINE d == [pc |-> "write", kind |-> e.kind, id |-> Len(schemas), tables |-> T, rows |-> e.rows]
    <2>2. [e EXCEPT !.pc = "write", !.id = Len(schemas), !.tables = T] = d
      BY <1>1, PcIdAndTables
    <2> HIDE DEF T
    <2>8. PapersOK(d) /\ ~DecidesRule(d) /\ ~DecidesFiner(d)
      BY <2>1, <2>2 DEF PapersOK, DecidesRule, DecidesFiner
    <2> HIDE DEF d
    <2> QED  BY <1>3, <1>4, <2>1, <2>2, <2>8
  <1> QED  BY <1>6, <1>7, <1>8, <1>9, <1>10, <1>11, <1>12, <1>13, <1>14 DEF Reads

-----------------------------------------------------------------------------
DecisionsKept ==
  ~clash => /\ \A i \in DOMAIN rules \cap DOMAIN rules' :
                 rules[i].status # "PENDING" => rules'[i] = rules[i]
            /\ \A i \in DOMAIN refinements \cap DOMAIN refinements' :
                 refinements[i].status # "PENDING" => refinements'[i] = refinements[i]

\* A check finds a row PENDING, or leaves; two of one row make a clash.
LEMMA ChecksLearnNothing ==
  ASSUME DesksOK, LearnInv, NEW w \in Workers, CheckRule(w) \/ CheckFiner(w)
  PROVE  LearnInv'
  <1> DEFINE e == desk[w]
             d == [pc |-> "write", kind |-> e.kind, id |-> e.id, tables |-> e.tables, rows |-> e.rows]
  <1>1. desk[w].pc # "away" /\ IsDesk(e)
    BY ReadsAreAtTheDesk, AtTheDesk DEF Reads
  <1>2. UNCHANGED <<source, assigned, rules, refinements, approvals>>
    BY DEF CheckRule, CheckFiner, RuleRows, metaVars
  <1>3. CASE Leave(w) /\ UNCHANGED clash
    BY <1>2, <1>3, ReadingKeepsRows DEF LearnInv, History, CheckRule, CheckFiner
  <1>4. CASE ~(Leave(w) /\ UNCHANGED clash)
    <2>1. [e EXCEPT !.pc = "write"] = d
      BY <1>1, OnlyPc
    <2>2. /\ desk' = [desk EXCEPT ![w] = d] /\ clash' = (clash \/ AlsoDeciding(w))
          /\ \/ e.kind \in {"approve", "reject"} /\ IsPending(rules, e.id)
             \/ e.kind \in {"approveFiner", "rejectFiner"} /\ IsPending(refinements, e.id)
      BY <1>4, <2>1 DEF CheckRule, CheckFiner, CheckPending, Turn, Reading, IsPending
    <2>3. d.pc = "write" /\ d.kind = e.kind /\ d.id = e.id /\ d.rows = e.rows
      OBVIOUS
    <2> HIDE DEF d
    <2>4. desk'[w] = d /\ \A v \in Workers : v # w => desk'[v] = desk[v]
      BY <2>2 DEF DesksOK
    <2>5. RowsOK' /\ LabelsOK'
      BY <1>2, RowsStay DEF LearnInv
    <2>6. ASSUME NEW v \in Workers PROVE PapersOK(desk[v])'
      <3>1. CASE v = w
        BY <2>2, <2>3, <2>4, <3>1 DEF PapersOK
      <3>2. CASE v # w
        BY <1>2, <2>4, <3>2 DEF LearnInv, PapersOK, WereApproved, FoundRows
      <3> QED  BY <3>1, <3>2
    <2>7. DecisionsOK'
      <3> SUFFICES ASSUME ~clash' PROVE \A v \in Workers :
                     /\ Undecided(desk[v])'
                     /\ \A u \in Workers : Together(desk'[u], desk'[v]) => u = v
        BY DEF DecisionsOK
      <3>1. ~clash /\ ~AlsoDeciding(w)
        BY <2>2
      <3>2. Undecided(desk[w])'
        BY <1>2, <2>2, <2>3, <2>4 DEF Undecided, DecidesRule, DecidesFiner, IsPending
      <3>3. ASSUME NEW v \in Workers, v # w PROVE ~Together(desk[v], d) /\ ~Together(d, desk[v])
        BY <2>2, <2>3, <3>1, <3>3 DEF AlsoDeciding, Together, DecidesRule, DecidesFiner
      <3>4. ASSUME NEW v \in Workers, v # w PROVE Undecided(desk[v])'
        BY <1>2, <2>4, <3>1, <3>4 DEF LearnInv, DecisionsOK, Undecided, IsPending
      <3>5. ASSUME NEW u \in Workers, NEW v \in Workers, Together(desk'[u], desk'[v]) PROVE u = v
        <4>1. CASE u # w /\ v # w
          BY <2>4, <3>1, <3>5, <4>1 DEF LearnInv, DecisionsOK
        <4>2. CASE u = w /\ v # w
          BY <2>4, <3>3, <3>5, <4>2
        <4>3. CASE u # w /\ v = w
          BY <2>4, <3>3, <3>5, <4>3
        <4> QED  BY <4>1, <4>2, <4>3
      <3> QED  BY <3>2, <3>4, <3>5
    <2> QED  BY <2>5, <2>6, <2>7 DEF LearnInv
  <1> QED  BY <1>3, <1>4

\* What a generation assigns is of rules that were approved and fit.
LEMMA AssignmentsWereApproved ==
  ASSUME NEW t \in Tables, NEW rows, NEW snap, WereApproved(rows)
  PROVE  LabelOK(t, Assignment(rows, t, snap))
  <1> DEFINE c == Classify(rows, t)
  <1>1. AreRules(rows)
    BY DEF WereApproved, AreRules
  <1>2. /\ IsLabel(c) /\ c.by \subseteq Patterns
        /\ \A p \in c.by : \E i \in DOMAIN rows : p = rows[i].pattern /\ c.label = rows[i].label /\ Matches(p, t)
    BY <1>1, ClassifiedByARule
  <1>3. Assignment(rows, t, snap) = [label |-> c.label, rivals |-> c.rivals, by |-> c.by, snap |-> snap]
    BY DEF Assignment
  <1> HIDE DEF c
  <1>4. \A p \in c.by : <<p, c.label>> \in approvals /\ Matches(p, t)
    BY <1>2 DEF WereApproved
  <1> QED  BY <1>2, <1>3, <1>4 DEF LabelOK, IsLabel

LEMMA WriteAssignmentsIsSound ==
  ASSUME DesksOK, LearnInv, NEW w \in Workers, WriteAssignments(w)
  PROVE  LearnInv'
  <1>1. UNCHANGED <<source, rules, refinements, approvals, clash>> /\ Leave(w)
    BY DEF WriteAssignments, metaVars, History
  <1>2. RowsOK'
    BY <1>1 DEF LearnInv, RowsOK, OneRulePerPattern, SuggestionsNameNothing, PromotionsWereApproved
  <1>3. LabelsOK'
    <2>1. CASE assigned' = assigned
      BY <1>1, <2>1 DEF LearnInv, LabelsOK, LabelOK
    <2>2. CASE assigned' # assigned
      <3> DEFINE Row(t) == Assignment(desk[w].rows, t, desk[w].id)
      <3>1. \A t \in Tables : assigned'[t] = IF t \in desk[w].tables THEN {Row(t)} ELSE assigned[t]
        BY <2>2 DEF WriteAssignments
      <3>2. WereApproved(desk[w].rows)
        BY DEF WriteAssignments, Writing, LearnInv, PapersOK
      <3>3. \A t \in Tables : LabelOK(t, Row(t))
        BY <3>2, AssignmentsWereApproved
      <3> HIDE DEF Row
      <3>4. \A t \in Tables : (\A a, b \in assigned'[t] : a = b) /\ \A a \in assigned'[t] : LabelOK(t, a)
        <4> TAKE t \in Tables
        <4>1. CASE t \in desk[w].tables
          <5>1. assigned'[t] = {Row(t)}
            BY <3>1, <4>1
          <5> QED  BY <3>3, <5>1
        <4>2. CASE t \notin desk[w].tables
          <5>1. assigned'[t] = assigned[t]
            BY <3>1, <4>2
          <5> QED  BY <5>1 DEF LearnInv, LabelsOK
        <4> QED  BY <4>1, <4>2
      <3> QED  BY <1>1, <3>4 DEF LabelsOK, LabelOK
    <2> QED  BY <2>1, <2>2
  <1>4. (\A v \in Workers : PapersOK(desk[v])') /\ DecisionsOK'
    BY <1>1, OneLeaves DEF LearnInv, Leave
  <1> QED  BY <1>2, <1>3, <1>4 DEF LearnInv

\* Adding rules that were approved, or suggest nothing, under new patterns.
LEMMA AddRulesIsSound ==
  ASSUME DesksOK, LearnInv, LearnedOK, NEW w \in Workers,
         UNCHANGED <<source, assigned, refinements, approvals, clash>>, Leave(w),
         NEW new, IsFiniteSet(DOMAIN new), DOMAIN new \subseteq Nat,
         \A i \in DOMAIN new :
           /\ new[i] \in LearningRules
           /\ new[i].from = 0 => new[i].label = Unknown
           /\ new[i].from # 0 \/ new[i].status = "APPROVED" => <<new[i].pattern, new[i].label>> \in approvals,
         AddRules(new)
  PROVE  LearnInv' /\ DecisionsKept
  <1>0. RowsOK /\ LabelsOK
    BY DEF LearnInv
  <1>1. /\ rules' \in Seq(LearningRules) /\ OneRulePerPattern'
        /\ \A k \in DOMAIN rules : k \in DOMAIN rules' /\ rules'[k] = rules[k]
        /\ \A k \in DOMAIN rules' \ DOMAIN rules : \E i \in DOMAIN new : rules'[k] = new[i]
    <2>1. CASE IsThere
      BY <1>0, <2>1, AddedOnce DEF RowsOK
    <2>2. CASE ~IsThere
      <3>1. rules' = rules
        BY <2>2 DEF AddRules
      <3> QED  BY <1>0, <3>1 DEF RowsOK, OneRulePerPattern
    <2> QED  BY <2>1, <2>2
  <1>2. \A k \in DOMAIN rules' :
          /\ rules'[k].from = 0 => rules'[k].label = Unknown
          /\ rules'[k].from # 0 \/ rules'[k].status = "APPROVED" => <<rules'[k].pattern, rules'[k].label>> \in approvals
    <2> TAKE k \in DOMAIN rules'
    <2>1. CASE k \in DOMAIN rules
      <3>1. rules'[k] = rules[k]
        BY <1>1, <2>1
      <3> QED  BY <1>0, <2>1, <3>1 DEF RowsOK, SuggestionsNameNothing, PromotionsWereApproved
    <2>2. CASE k \notin DOMAIN rules
      BY <1>1, <2>2
    <2> QED  BY <2>1, <2>2
  <1>3. RowsOK'
    BY <1>0, <1>1, <1>2 DEF RowsOK, SuggestionsNameNothing, PromotionsWereApproved
  <1>4. LabelsOK'
    BY <1>0 DEF LabelsOK, LabelOK
  <1>5. (\A v \in Workers : PapersOK(desk[v])') /\ DecisionsOK'
    <2>1. \A v \in Workers : ~clash /\ IsThere /\ v # w /\ DecidesRule(desk[v]) =>
                               rules'[desk[v].id] = rules[desk[v].id]
      BY <1>1 DEF LearnInv, DecisionsOK, Undecided, IsPending
    <2> QED  BY <1>1, <2>1, OneLeaves DEF LearnInv, Leave
  <1>6. DecisionsKept
    BY <1>1 DEF DecisionsKept
  <1> QED  BY <1>3, <1>4, <1>5, <1>6 DEF LearnInv

LEMMA WriteSuggestionsIsSound ==
  ASSUME DesksOK, LearnInv, LearnedOK, NEW w \in Workers, WriteSuggestions(w)
  PROVE  LearnInv' /\ DecisionsKept
  <1> DEFINE rows == desk[w].rows
             new == [i \in DOMAIN rows |-> [pattern |-> rows[i].pattern, label |-> rows[i].label,
                                            status |-> "PENDING", from |-> 0]]
  <1>1. AddRules(new) /\ Leave(w) /\ UNCHANGED <<source, assigned, refinements, approvals, clash>>
    BY DEF WriteSuggestions, History, metaVars
  <1>2. rows \in Seq(SuggestedRows)
    BY DEF WriteSuggestions, Writing, LearnInv, PapersOK
  <1> HIDE DEF rows
  <1>3. IsFiniteSet(DOMAIN rows) /\ DOMAIN rows \subseteq Nat
    <2>1. Len(rows) \in Int /\ 1 \in Int /\ DOMAIN rows = 1 .. Len(rows) /\ DOMAIN rows \subseteq Nat
      BY <1>2
    <2> QED  BY <2>1, FS_Interval
  <1>4. ASSUME NEW i \in DOMAIN new
        PROVE  /\ new[i] \in LearningRules
               /\ new[i].from = 0 => new[i].label = Unknown
               /\ new[i].from # 0 \/ new[i].status = "APPROVED" => <<new[i].pattern, new[i].label>> \in approvals
    <2>1. rows[i] \in SuggestedRows
      BY <1>2
    <2> QED  BY <2>1 DEF SuggestedRows, LearningRules, Statuses
  <1>5. DOMAIN new = DOMAIN rows
    OBVIOUS
  <1> HIDE DEF new
  <1> QED  BY <1>1, <1>3, <1>4, <1>5, AddRulesIsSound

LEMMA WritePromotedIsSound ==
  ASSUME DesksOK, LearnInv, LearnedOK, NEW w \in Workers, WritePromoted(w)
  PROVE  LearnInv' /\ DecisionsKept
  <1> DEFINE rows == desk[w].rows
             new == [i \in DOMAIN rows |-> [pattern |-> rows[i].pattern, label |-> rows[i].label,
                                            status |-> "APPROVED", from |-> i]]
  <1>1. AddRules(new) /\ Leave(w) /\ UNCHANGED <<source, assigned, refinements, approvals, clash>>
    BY DEF WritePromoted, History, metaVars
  <1>2. WereApproved(rows)
    BY DEF WritePromoted, Writing, LearnInv, PapersOK
  <1> HIDE DEF rows
  <1>3. IsFiniteSet(DOMAIN rows) /\ DOMAIN rows \subseteq Nat
    BY <1>2 DEF WereApproved
  <1>4. ASSUME NEW i \in DOMAIN new
        PROVE  /\ new[i] \in LearningRules
               /\ new[i].from = 0 => new[i].label = Unknown
               /\ new[i].from # 0 \/ new[i].status = "APPROVED" => <<new[i].pattern, new[i].label>> \in approvals
    BY <1>2 DEF WereApproved, LearningRules, Statuses
  <1>5. DOMAIN new = DOMAIN rows
    OBVIOUS
  <1> HIDE DEF new
  <1> QED  BY <1>1, <1>3, <1>4, <1>5, AddRulesIsSound

LEMMA DecideRuleIsSound ==
  ASSUME DesksOK, LearnInv, LearnedOK, NEW w \in Workers, DecideRule(w)
  PROVE  LearnInv' /\ DecisionsKept
  <1> DEFINE status == IF desk[w].kind = "approve" THEN "APPROVED" ELSE "REJECTED"
             i == desk[w].id
             r == [rules[i] EXCEPT !.status = status]
  <1>0. RowsOK /\ LabelsOK /\ DecidesRule(desk[w])
    BY DEF LearnInv, DecideRule, Writing, DecidesRule
  <1>1. UNCHANGED <<source, assigned, refinements, clash>> /\ Leave(w)
    BY DEF DecideRule, metaVars
  <1>2. CASE i \notin DOMAIN rules
    <2>1. UNCHANGED <<source, assigned, rules, refinements, approvals, clash>>
      BY <1>1, <1>2 DEF DecideRule
    <2> QED  BY <1>0, <1>1, <2>1, RowsStay, OneLeaves DEF LearnInv, Leave, DecisionsKept
  <1>3. CASE i \in DOMAIN rules
    <2>1. /\ rules' = [rules EXCEPT ![i] = r] /\ status \in {"APPROVED", "REJECTED"}
          /\ approvals' = IF status = "APPROVED" THEN approvals \cup {<<rules[i].pattern, rules[i].label>>} ELSE approvals
      BY <1>3 DEF DecideRule
    <2>2. rules \in Seq(LearningRules) /\ rules[i] \in LearningRules
      BY <1>0, <1>3 DEF RowsOK
    <2>3. /\ r \in LearningRules /\ r.pattern = rules[i].pattern /\ r.label = rules[i].label /\ r.status = status
          /\ r.from = rules[i].from
      BY <2>1, <2>2 DEF LearningRules, Statuses
    <2> HIDE DEF r, status
    <2>4. /\ rules' \in Seq(LearningRules) /\ DOMAIN rules' = DOMAIN rules
          /\ \A j \in DOMAIN rules : rules'[j] = IF j = i THEN r ELSE rules[j]
      BY <1>3, <2>1, <2>2, <2>3, OneRowChanges
    <2>5. approvals \subseteq approvals' /\ (status = "APPROVED" => <<rules[i].pattern, rules[i].label>> \in approvals')
      BY <2>1
    <2>6. \A j \in DOMAIN rules : /\ rules'[j].pattern = rules[j].pattern /\ rules'[j].label = rules[j].label
                                  /\ rules'[j].from = rules[j].from
                                  /\ rules'[j].status = IF j = i THEN status ELSE rules[j].status
      BY <2>3, <2>4
    <2>7. RowsOK'
      <3>1. \A j \in DOMAIN rules' :
              rules'[j].status = "APPROVED" => <<rules'[j].pattern, rules'[j].label>> \in approvals'
        <4> TAKE j \in DOMAIN rules'
        <4>1. j \in DOMAIN rules
          BY <2>4
        <4> QED  BY <1>0, <2>5, <2>6, <4>1 DEF RowsOK
      <3>2. \A j \in DOMAIN refinements : /\ refinements[j].parent \in DOMAIN rules'
                                          /\ refinements[j].status = "APPROVED" =>
                                               <<refinements[j].pattern, refinements[j].label>> \in approvals'
        BY <1>0, <2>4, <2>5 DEF RowsOK
      <3>3. OneRulePerPattern' /\ SuggestionsNameNothing' /\ PromotionsWereApproved'
        BY <1>0, <2>4, <2>5, <2>6 DEF RowsOK, OneRulePerPattern, SuggestionsNameNothing, PromotionsWereApproved
      <3> QED  BY <1>0, <1>1, <2>4, <3>1, <3>2, <3>3 DEF RowsOK
    <2>8. LabelsOK'
      BY <1>0, <1>1, <2>5 DEF LabelsOK, LabelOK
    <2>9. ASSUME NEW v \in Workers, ~clash, IsThere, v # w, DecidesRule(desk[v])
          PROVE  rules'[desk[v].id] = rules[desk[v].id]
      <3>1. ~Together(desk[v], desk[w]) /\ Undecided(desk[v])
        BY <2>9 DEF LearnInv, DecisionsOK
      <3>2. desk[v].id # i
        BY <1>0, <2>9, <3>1 DEF Together
      <3>3. desk[v].id \in DOMAIN rules
        BY <2>9, <3>1 DEF Undecided, IsPending
      <3> QED  BY <2>4, <3>2, <3>3
    <2>10. (\A v \in Workers : PapersOK(desk[v])') /\ DecisionsOK'
      BY <1>1, <2>4, <2>5, <2>9, OneLeaves DEF LearnInv, Leave
    <2>11. DecisionsKept
      <3>1. IsThere
        BY <1>3 DEF LearnedOK, LearnedOfWhatIsThere, NothingIsLearnedOfNoSource
      <3>2. ~clash => rules[i].status = "PENDING"
        BY <1>0, <3>1 DEF LearnInv, DecisionsOK, Undecided, IsPending
      <3> QED  BY <1>1, <2>4, <3>2 DEF DecisionsKept
    <2> QED  BY <2>7, <2>8, <2>10, <2>11 DEF LearnInv
  <1> QED  BY <1>2, <1>3

LEMMA DecideFinerIsSound ==
  ASSUME DesksOK, LearnInv, LearnedOK, NEW w \in Workers, DecideFiner(w)
  PROVE  LearnInv' /\ DecisionsKept
  <1> DEFINE status == IF desk[w].kind = "approveFiner" THEN "APPROVED" ELSE "REJECTED"
             i == desk[w].id
             r == [refinements[i] EXCEPT !.status = status]
  <1>0. RowsOK /\ LabelsOK /\ DecidesFiner(desk[w])
    BY DEF LearnInv, DecideFiner, Writing, DecidesFiner
  <1>1. UNCHANGED <<source, assigned, rules, clash>> /\ Leave(w)
    BY DEF DecideFiner, metaVars
  <1>2. CASE i \notin DOMAIN refinements
    <2>1. UNCHANGED <<source, assigned, rules, refinements, approvals, clash>>
      BY <1>1, <1>2 DEF DecideFiner
    <2> QED  BY <1>0, <1>1, <2>1, RowsStay, OneLeaves DEF LearnInv, Leave, DecisionsKept
  <1>3. CASE i \in DOMAIN refinements
    <2>1. /\ refinements' = [refinements EXCEPT ![i] = r] /\ status \in {"APPROVED", "REJECTED"}
          /\ approvals' = IF status = "APPROVED"
               THEN approvals \cup {<<refinements[i].pattern, refinements[i].label>>} ELSE approvals
      BY <1>3 DEF DecideFiner
    <2>2. refinements \in Seq(RefinementSuggestions) /\ refinements[i] \in RefinementSuggestions
      BY <1>0, <1>3 DEF RowsOK
    <2>3. /\ r \in RefinementSuggestions /\ r.pattern = refinements[i].pattern /\ r.label = refinements[i].label
          /\ r.status = status /\ r.parent = refinements[i].parent
      BY <2>1, <2>2 DEF RefinementSuggestions, Statuses
    <2> HIDE DEF r, status
    <2>4. /\ refinements' \in Seq(RefinementSuggestions) /\ DOMAIN refinements' = DOMAIN refinements
          /\ \A j \in DOMAIN refinements : refinements'[j] = IF j = i THEN r ELSE refinements[j]
      BY <1>3, <2>1, <2>2, <2>3, OneRowChanges
    <2>5. /\ approvals \subseteq approvals'
          /\ status = "APPROVED" => <<refinements[i].pattern, refinements[i].label>> \in approvals'
      BY <2>1
    <2>6. \A j \in DOMAIN refinements :
            /\ refinements'[j].pattern = refinements[j].pattern /\ refinements'[j].label = refinements[j].label
            /\ refinements'[j].parent = refinements[j].parent
            /\ refinements'[j].status = IF j = i THEN status ELSE refinements[j].status
      BY <2>3, <2>4
    <2>7. RowsOK'
      <3>1. \A j \in DOMAIN refinements' :
              /\ refinements'[j].parent \in DOMAIN rules
              /\ refinements'[j].status = "APPROVED" => <<refinements'[j].pattern, refinements'[j].label>> \in approvals'
        <4> TAKE j \in DOMAIN refinements'
        <4>1. j \in DOMAIN refinements
          BY <2>4
        <4> QED  BY <1>0, <2>5, <2>6, <4>1 DEF RowsOK
      <3>2. \A j \in DOMAIN rules : rules[j].status = "APPROVED" => <<rules[j].pattern, rules[j].label>> \in approvals'
        BY <1>0, <2>5 DEF RowsOK
      <3>3. OneRulePerPattern' /\ SuggestionsNameNothing' /\ PromotionsWereApproved'
        BY <1>0, <1>1, <2>5 DEF RowsOK, OneRulePerPattern, SuggestionsNameNothing, PromotionsWereApproved
      <3> QED  BY <1>0, <1>1, <2>4, <3>1, <3>2, <3>3 DEF RowsOK
    <2>8. LabelsOK'
      BY <1>0, <1>1, <2>5 DEF LabelsOK, LabelOK
    <2>9. ASSUME NEW v \in Workers, ~clash, IsThere, v # w, DecidesFiner(desk[v])
          PROVE  refinements'[desk[v].id] = refinements[desk[v].id]
      <3>1. ~Together(desk[v], desk[w]) /\ Undecided(desk[v])
        BY <2>9 DEF LearnInv, DecisionsOK
      <3>2. desk[v].id # i
        BY <1>0, <2>9, <3>1 DEF Together
      <3>3. desk[v].id \in DOMAIN refinements
        BY <2>9, <3>1 DEF Undecided, IsPending
      <3> QED  BY <2>4, <3>2, <3>3
    <2>10. (\A v \in Workers : PapersOK(desk[v])') /\ DecisionsOK'
      BY <1>1, <2>4, <2>5, <2>9, OneLeaves DEF LearnInv, Leave
    <2>11. DecisionsKept
      <3>1. IsThere
        BY <1>3 DEF LearnedOK, LearnedOfWhatIsThere, NothingIsLearnedOfNoSource
      <3>2. ~clash => refinements[i].status = "PENDING"
        BY <1>0, <3>1 DEF LearnInv, DecisionsOK, Undecided, IsPending
      <3> QED  BY <1>1, <2>4, <3>2 DEF DecisionsKept
    <2> QED  BY <2>7, <2>8, <2>10, <2>11 DEF LearnInv
  <1> QED  BY <1>2, <1>3

LEMMA WriteFinerIsSound ==
  ASSUME DesksOK, LearnInv, LearnedOK, NEW w \in Workers, WriteFiner(w)
  PROVE  LearnInv' /\ DecisionsKept
  <1> DEFINE rows == desk[w].rows
             new == [i \in DOMAIN rows |-> [parent |-> rows[i].parent, pattern |-> rows[i].pattern,
                                            label |-> rows[i].label, status |-> "PENDING"]]
             added == {i \in DOMAIN new : \A j \in DOMAIN refinements :
                         <<refinements[j].parent, refinements[j].pattern>> # <<new[i].parent, new[i].pattern>>}
  <1>0. RowsOK /\ LabelsOK
    BY DEF LearnInv
  <1>1. /\ refinements' = IF IsThere THEN refinements \o Listed(new, added) ELSE refinements
        /\ Leave(w) /\ UNCHANGED <<source, assigned, rules, approvals, clash>>
    BY DEF WriteFiner, History, metaVars
  <1>2. IsThere => rows \in Seq(FoundRows)
    BY DEF WriteFiner, Writing, LearnInv, PapersOK
  <1> HIDE DEF rows
  <1>3. /\ refinements' \in Seq(RefinementSuggestions)
        /\ \A k \in DOMAIN refinements : k \in DOMAIN refinements' /\ refinements'[k] = refinements[k]
        /\ \A k \in DOMAIN refinements' \ DOMAIN refinements :
             refinements'[k].parent \in DOMAIN rules /\ refinements'[k].status = "PENDING"
    <2>1. CASE IsThere
      <3>1. \A i \in DOMAIN new : /\ new[i] \in RefinementSuggestions /\ new[i].parent \in DOMAIN rules
                                  /\ new[i].status = "PENDING"
        <4> TAKE i \in DOMAIN new
        <4>1. rows[i] \in FoundRows
          BY <1>2, <2>1
        <4>2. DOMAIN rules \subseteq Nat
          BY <1>0 DEF RowsOK
        <4> QED  BY <4>1, <4>2 DEF FoundRows, RefinementSuggestions, Statuses
      <3>2. DOMAIN new = DOMAIN rows
        OBVIOUS
      <3>3. Len(rows) \in Int /\ 1 \in Int /\ DOMAIN rows = 1 .. Len(rows) /\ DOMAIN rows \subseteq Nat
        BY <1>2, <2>1
      <3>4. IsFiniteSet(DOMAIN rows)
        BY <3>3, FS_Interval
      <3>5. added \in SUBSET DOMAIN new
        OBVIOUS
      <3> HIDE DEF new, added
      <3>6. IsFiniteSet(added) /\ added \in SUBSET Nat /\ \A i \in added : new[i] \in RefinementSuggestions
        BY <3>1, <3>2, <3>3, <3>4, <3>5, FS_Subset
      <3>7. refinements \in Seq(RefinementSuggestions) /\ refinements' = refinements \o Listed(new, added)
        BY <1>0, <1>1, <2>1 DEF RowsOK
      <3>8. /\ refinements \o Listed(new, added) \in Seq(RefinementSuggestions)
            /\ Behind(refinements \o Listed(new, added), refinements, new, added)
        BY <3>6, <3>7, PutBehind
      <3>9. refinements' \in Seq(RefinementSuggestions) /\ Behind(refinements', refinements, new, added)
        BY <3>7, <3>8, Zenon
      <3>10. \A k \in DOMAIN refinements' \ DOMAIN refinements : \E i \in added : refinements'[k] = new[i]
        BY <3>9 DEF Behind
      <3> QED  BY <3>1, <3>5, <3>9, <3>10 DEF Behind
    <2>2. CASE ~IsThere
      <3>1. refinements' = refinements
        BY <1>1, <2>2
      <3> QED  BY <1>0, <3>1 DEF RowsOK
    <2> QED  BY <2>1, <2>2
  <1>4. RowsOK'
    <2>1. \A k \in DOMAIN refinements' :
            /\ refinements'[k].parent \in DOMAIN rules
            /\ refinements'[k].status = "APPROVED" => <<refinements'[k].pattern, refinements'[k].label>> \in approvals
      <3> TAKE k \in DOMAIN refinements'
      <3>1. CASE k \in DOMAIN refinements
        BY <1>0, <1>3, <3>1 DEF RowsOK
      <3>2. CASE k \notin DOMAIN refinements
        BY <1>3, <3>2
      <3> QED  BY <3>1, <3>2
    <2> QED  BY <1>0, <1>1, <1>3, <2>1 DEF RowsOK, OneRulePerPattern, SuggestionsNameNothing, PromotionsWereApproved
  <1>5. LabelsOK'
    BY <1>0, <1>1 DEF LabelsOK, LabelOK
  <1>6. (\A v \in Workers : PapersOK(desk[v])') /\ DecisionsOK'
    <2>1. \A v \in Workers : ~clash /\ IsThere /\ v # w /\ DecidesFiner(desk[v]) =>
                               refinements'[desk[v].id] = refinements[desk[v].id]
      BY <1>3 DEF LearnInv, DecisionsOK, Undecided, IsPending
    <2> QED  BY <1>1, <1>3, <2>1, OneLeaves DEF LearnInv, Leave
  <1>7. DecisionsKept
    BY <1>1, <1>3 DEF DecisionsKept
  <1> QED  BY <1>4, <1>5, <1>6, <1>7 DEF LearnInv

-----------------------------------------------------------------------------
LEMMA OneLeavesTheRows ==
  ASSUME DesksOK, LearnInv, NEW w \in Workers, UNCHANGED <<source, assigned, rules, refinements, History>>, Leave(w)
  PROVE  LearnInv' /\ DecisionsKept
  BY ReadingKeepsRows DEF DecisionsKept

\* A step beside the desks: the source is made, or nothing that they see changes.
LEMMA NothingIsLearnedBeside ==
  ASSUME DesksOK, LearnInv, UNCHANGED <<desk, assigned, rules, refinements, approvals, clash>>,
         source' # source => source = "new"
  PROVE  LearnInv' /\ DecisionsKept
  <1>1. RowsOK' /\ LabelsOK'
    BY RowsStay DEF LearnInv
  <1>2. CASE source' = source
    <2>1. \A w \in Workers : PapersOK(desk[w])'
      BY <1>2 DEF LearnInv, PapersOK, WereApproved, FoundRows
    <2>2. DecisionsOK'
      BY <1>2 DEF LearnInv, DecisionsOK, Undecided, Together, IsPending, DecidesRule, DecidesFiner
    <2> QED  BY <1>1, <2>1, <2>2 DEF LearnInv, DecisionsKept
  <1>3. CASE source' # source
    <2>1. \A w \in Workers : desk'[w].pc = "away"
      BY <1>3 DEF DesksOK
    <2>2. \A w \in Workers : PapersOK(desk[w])'
      BY <2>1 DEF PapersOK
    <2>3. DecisionsOK'
      BY <2>1 DEF DecisionsOK, Undecided, Together, DecidesRule, DecidesFiner
    <2> QED  BY <1>1, <2>2, <2>3 DEF LearnInv, DecisionsKept
  <1> QED  BY <1>2, <1>3

\* A source that is deleted takes all of it along.
LEMMA NothingIsLearnedOfTheDeleted ==
  ASSUME DesksOK, LearnInv, NEW w \in Workers, DeleteWithDictionary(w)
  PROVE  LearnInv' /\ DecisionsKept
  <1>1. /\ source' = "gone" /\ UNCHANGED <<desk, approvals, clash>>
        /\ assigned' = [t \in Tables |-> {}] /\ rules' = <<>> /\ refinements' = <<>>
    BY DEF DeleteWithDictionary, DeleteWithRules, DeleteSource, History
  <1>2. RowsOK'
    <2>1. DOMAIN rules' = {} /\ DOMAIN refinements' = {}
      BY <1>1
    <2>2. rules' \in Seq(LearningRules) /\ refinements' \in Seq(RefinementSuggestions)
      BY <1>1
    <2> QED  BY <2>1, <2>2 DEF RowsOK, OneRulePerPattern, SuggestionsNameNothing, PromotionsWereApproved
  <1>3. LabelsOK'
    BY <1>1 DEF LabelsOK
  <1>4. \A v \in Workers : PapersOK(desk[v])'
    BY <1>1 DEF LearnInv, PapersOK, WereApproved
  <1>5. DecisionsOK'
    BY <1>1 DEF LearnInv, DecisionsOK, Undecided, Together, DecidesRule, DecidesFiner
  <1>6. DecisionsKept
    BY <1>1 DEF DecisionsKept
  <1> QED  BY <1>2, <1>3, <1>4, <1>5, <1>6 DEF LearnInv

\* A request is taken to a desk.
LEMMA RuleRequestLearnsNothing ==
  ASSUME DesksOK, LearnInv, NEW w \in Workers, NEW kind, NEW id, RuleRequest(w, kind, id)
  PROVE  LearnInv' /\ DecisionsKept
  <1> DEFINE d == [pc |-> "read", kind |-> kind, id |-> id, tables |-> {}, rows |-> <<>>]
  <1>1. desk' = [desk EXCEPT ![w] = d] /\ UNCHANGED <<source, assigned, rules, refinements, approvals, clash>>
    BY NewDesk DEF RuleRequest, RuleRows
  <1>2. PapersOK(d) /\ ~DecidesRule(d) /\ ~DecidesFiner(d)
    BY DEF PapersOK, DecidesRule, DecidesFiner
  <1> HIDE DEF d
  <1>3. (\A v \in Workers : PapersOK(desk[v])') /\ DecisionsOK'
    BY <1>1, <1>2, OneTurns DEF LearnInv
  <1>4. RowsOK' /\ LabelsOK'
    BY <1>1, RowsStay DEF LearnInv
  <1> QED  BY <1>1, <1>3, <1>4 DEF LearnInv, DecisionsKept

\* Each step keeps the invariant and decided rows.
LEMMA LearnInvStep ==
  MetaInv /\ KnowInv /\ LearnInv /\ [DictionaryNext]_<<vars, dictVars>> => LearnInv' /\ DecisionsKept
  <1> SUFFICES ASSUME MetaInv, KnowInv, LearnInv, [DictionaryNext]_<<vars, dictVars>>
               PROVE  LearnInv' /\ DecisionsKept
    OBVIOUS
  <1>0. DesksOK /\ LearnedOK
    BY DEF KnowInv
  <1>1. CASE UNCHANGED <<vars, dictVars>>
    <2>1. UNCHANGED <<desk, assigned, rules, refinements, approvals, clash, source>>
      BY <1>1 DEF vars, metaVars, ruleVars
    <2> QED  BY <1>0, <2>1, NothingIsLearnedBeside
  <1>2. CASE MetaStep
    <2>0. UNCHANGED <<desk, assigned, rules, refinements, approvals, clash>>
      BY <1>2 DEF MetaStep, RuleRows, History
    <2>1. CASE CreateSource \/ CreateJob
      <3>1. source' # source => source = "new"
        BY <2>1 DEF CreateSource, CreateJob
      <3> QED  BY <1>0, <2>0, <3>1, NothingIsLearnedBeside
    <2>2. ASSUME NEW w \in Workers,
                 \/ JobStep(w) \/ DiscoveryStep(w) \/ ProfilingStep(w) \/ LookForJob(w)
                 \/ ConnectorFails(w) \/ StorageFails(w)
          PROVE  LearnInv' /\ DecisionsKept
      <3>1. source' # source => source = "new"
        BY <2>2, StepsGrow DEF Grows
      <3> QED  BY <1>0, <2>0, <3>1, NothingIsLearnedBeside
    <2> QED  BY <1>2, <2>1, <2>2 DEF MetaStep
  <1>3. CASE CrashAll
    <2>1. UNCHANGED <<source, assigned, rules, refinements, approvals, clash>> /\ desk' = [w \in Workers |-> Away]
      BY <1>3 DEF CrashAll, RuleRows, History
    <2>2. \A w \in Workers : desk'[w].pc = "away"
      BY <2>1 DEF Away
    <2>3. (\A w \in Workers : PapersOK(desk[w])') /\ DecisionsOK'
      BY <2>2 DEF PapersOK, DecisionsOK, Undecided, Together, DecidesRule, DecidesFiner
    <2>4. RowsOK' /\ LabelsOK'
      BY <2>1, RowsStay DEF LearnInv
    <2> QED  BY <2>1, <2>3, <2>4 DEF LearnInv, DecisionsKept
  <1>4. ASSUME NEW w \in Workers, NEW kind \in Kinds, MetaRequest(w, kind) PROVE LearnInv' /\ DecisionsKept
    <2>1. UNCHANGED <<desk, assigned, rules, refinements, approvals, clash, source>>
      BY <1>4 DEF MetaRequest, Request, RuleRows
    <2> QED  BY <1>0, <2>1, NothingIsLearnedBeside
  <1>5. ASSUME NEW w \in Workers, Reads(w) PROVE LearnInv' /\ DecisionsKept
    <2>1. UNCHANGED <<rules, refinements>>
      BY <1>5 DEF Reads, ReadSnapshot, ReadTables, ReadRules, ReadUnknown, CheckRule, CheckFiner, ReadApproved,
                  ReadMatches, ReadFiner, CheckDictionary, ReadNewest, RuleRows
    <2>2. LearnInv'
      BY <1>0, <1>5, ReadsLearnNothing, ChecksLearnNothing
    <2> QED  BY <2>1, <2>2 DEF DecisionsKept
  <1>6. ASSUME NEW w \in Workers, WriteAssignments(w) PROVE LearnInv' /\ DecisionsKept
    BY <1>0, <1>6, WriteAssignmentsIsSound DEF WriteAssignments, DecisionsKept
  <1>7. ASSUME NEW w \in Workers,
               \/ WriteSuggestions(w) \/ DecideRule(w) \/ DecideFiner(w) \/ WriteFiner(w) \/ WritePromoted(w)
        PROVE  LearnInv' /\ DecisionsKept
    BY <1>0, <1>7, WriteSuggestionsIsSound, DecideRuleIsSound, DecideFinerIsSound, WriteFinerIsSound,
       WritePromotedIsSound
  <1>8. ASSUME NEW w \in Workers, RuleStep(w) PROVE LearnInv' /\ DecisionsKept
    BY <1>5, <1>6, <1>7, <1>8 DEF RuleStep, Reads
  <1>9. ASSUME NEW w \in Workers, CheckDictionary(w) \/ ReadNewest(w) PROVE LearnInv' /\ DecisionsKept
    BY <1>5, <1>9 DEF Reads
  <1>10. ASSUME NEW w \in Workers, RuleStorageFails(w) \/ SaveDictionary(w) \/ ApproveEntry(w)
         PROVE  LearnInv' /\ DecisionsKept
    <2>1. UNCHANGED <<source, assigned, rules, refinements, History>> /\ Leave(w)
      BY <1>10 DEF RuleStorageFails, SaveDictionary, ApproveEntry, RuleRows, metaVars
    <2> QED  BY <1>0, <2>1, OneLeavesTheRows
  <1>11. ASSUME NEW w \in Workers, NEW kind, NEW id, RuleRequest(w, kind, id) PROVE LearnInv' /\ DecisionsKept
    BY <1>0, <1>11, RuleRequestLearnsNothing
  <1>12. ASSUME NEW w \in Workers, DictionaryRequest(w) PROVE LearnInv' /\ DecisionsKept
    BY <1>11, <1>12 DEF DictionaryRequest
  <1>13. ASSUME NEW w \in Workers, DeleteWithDictionary(w) PROVE LearnInv' /\ DecisionsKept
    BY <1>0, <1>13, NothingIsLearnedOfTheDeleted
  <1> QED  BY <1>1, <1>2, <1>3, <1>4, <1>8, <1>9, <1>10, <1>11, <1>12, <1>13 DEF DictionaryNext

LEMMA LearnInvInit == DictionaryInit => LearnInv
  <1> SUFFICES ASSUME DictionaryInit PROVE LearnInv
    OBVIOUS
  <1>1. desk = [w \in Workers |-> Away]
    BY DEF DictionaryInit, LearnedInit, NoRequest
  <1>2. \A w \in Workers : desk[w].pc = "away"
    BY <1>1 DEF Away
  <1>3. (\A w \in Workers : PapersOK(desk[w])) /\ DecisionsOK
    BY <1>2 DEF PapersOK, DecisionsOK, Undecided, Together, DecidesRule, DecidesFiner
  <1>4. RowsOK /\ LabelsOK
    <2>1. CASE NothingLearned
      <3>1. rules = <<>> /\ refinements = <<>> /\ assigned = [t \in Tables |-> {}]
        BY <2>1 DEF NothingLearned
      <3>2. DOMAIN rules = {} /\ DOMAIN refinements = {} /\ rules \in Seq(LearningRules)
            /\ refinements \in Seq(RefinementSuggestions)
        BY <3>1
      <3> QED  BY <3>1, <3>2 DEF RowsOK, LabelsOK, OneRulePerPattern, SuggestionsNameNothing, PromotionsWereApproved
    <2>2. CASE LearnedSoFar
      <3>1. PICK stage \in Stages : /\ rules = stage.rules /\ refinements = stage.refinements
                                    /\ assigned = Generated(stage.applied)
        BY <2>2 DEF LearnedSoFar
      <3>2. approvals = ApprovedIn(rules) \cup ApprovedIn(refinements)
        BY <2>2 DEF LearnedSoFar
      <3>3. IsStage(stage)
        BY StagesAssumption
      <3> DEFINE applied == stage.applied
      <3>4. /\ rules \in Seq(LearningRules) /\ refinements \in Seq(RefinementSuggestions)
            /\ \A i, j \in DOMAIN rules : rules[i].pattern = rules[j].pattern => i = j
            /\ \A i \in DOMAIN rules :
                 IF rules[i].from = 0 THEN rules[i].label = Unknown
                 ELSE <<rules[i].pattern, rules[i].label>> \in approvals
            /\ \A i \in DOMAIN refinements : refinements[i].parent \in DOMAIN rules
            /\ DOMAIN applied \subseteq Nat
            /\ \A i \in DOMAIN applied : <<applied[i].pattern, applied[i].label>> \in approvals
        BY <3>1, <3>2, <3>3 DEF IsStage
      <3> HIDE DEF applied
      <3>5. /\ \A i \in DOMAIN rules :
                 rules[i].status = "APPROVED" => <<rules[i].pattern, rules[i].label>> \in approvals
            /\ \A i \in DOMAIN refinements :
                 refinements[i].status = "APPROVED" => <<refinements[i].pattern, refinements[i].label>> \in approvals
        BY <3>2 DEF ApprovedIn
      <3>6. RowsOK
        BY <3>4, <3>5 DEF RowsOK, OneRulePerPattern, SuggestionsNameNothing, PromotionsWereApproved
      <3>7. \A p, l : <<p, l>> \in approvals => p \in Patterns /\ l \in Labels \cup {Unknown}
        <4>1. \A i \in DOMAIN rules : rules[i].pattern \in Patterns /\ rules[i].label \in Labels \cup {Unknown}
          <5> TAKE i \in DOMAIN rules
          <5>1. rules[i] \in LearningRules
            BY <3>4
          <5> QED  BY <5>1 DEF LearningRules
        <4>2. \A i \in DOMAIN refinements : /\ refinements[i].pattern \in Patterns
                                            /\ refinements[i].label \in Labels \cup {Unknown}
          <5> TAKE i \in DOMAIN refinements
          <5>1. refinements[i] \in RefinementSuggestions
            BY <3>4
          <5> QED  BY <5>1 DEF RefinementSuggestions
        <4> QED  BY <3>2, <4>1, <4>2 DEF ApprovedIn
      <3>8. AreRules(applied)
        BY <3>4, <3>7 DEF AreRules
      <3>9. ASSUME NEW t \in Tables PROVE LabelOK(t, Assignment(applied, t, 1))
        <4> DEFINE c == Classify(applied, t)
        <4>1. /\ IsLabel(c) /\ c.by \subseteq Patterns
              /\ \A p \in c.by : \E i \in DOMAIN applied : /\ p = applied[i].pattern /\ c.label = applied[i].label
                                                           /\ Matches(p, t)
          BY <3>8, ClassifiedByARule
        <4>2. Assignment(applied, t, 1) = [label |-> c.label, rivals |-> c.rivals, by |-> c.by, snap |-> 1]
          BY DEF Assignment
        <4> HIDE DEF c
        <4>3. \A p \in c.by : <<p, c.label>> \in approvals /\ Matches(p, t)
          BY <3>4, <4>1
        <4> QED  BY <4>1, <4>2, <4>3 DEF LabelOK, IsLabel
      <3>10. \A t \in Tables : assigned[t] = {Assignment(applied, t, 1)}
        BY <3>1 DEF Generated, applied
      <3> QED  BY <3>6, <3>9, <3>10 DEF LabelsOK
    <2>3. NothingLearned \/ LearnedSoFar
      BY DEF DictionaryInit, LearnedInit, DescribedSoFar
    <2> QED  BY <2>1, <2>2, <2>3
  <1> QED  BY <1>3, <1>4 DEF LearnInv

\* Nothing takes effect that nobody approved, however requests overlap and fail: neither
\* a label that a learned rule gave to a table nor a rule that was promoted; no pattern
\* has two rules; and what is suggested names no domain.
THEOREM LearnedIsApproved == DictionarySpec => []LearnedWasApproved
  <1>1. LearnInv => LearnedWasApproved
    <2> SUFFICES ASSUME LearnInv PROVE LearnedWasApproved
      OBVIOUS
    <2>1. \A t \in Tables : Cardinality(assigned[t]) <= 1
      <3> TAKE t \in Tables
      <3>1. CASE assigned[t] = {}
        <4>1. Cardinality(assigned[t]) = 0
          BY <3>1, FS_EmptySet
        <4> QED  BY <4>1
      <3>2. CASE assigned[t] # {}
        <4>1. PICK a \in assigned[t] : TRUE
          BY <3>2
        <4>2. assigned[t] = {a}
          BY <4>1 DEF LearnInv, LabelsOK
        <4>3. Cardinality({a}) = 1
          BY FS_Singleton
        <4> QED  BY <4>2, <4>3
      <3> QED  BY <3>1, <3>2
    <2>2. RulesTypeOK
      BY <2>1 DEF LearnInv, RowsOK, LabelsOK, LabelOK, IsLabel, RulesTypeOK
    <2>3. LearnedLabelsWereApproved
      BY DEF LearnInv, LabelsOK, LabelOK, LearnedLabelsWereApproved
    <2> QED  BY <2>2, <2>3 DEF LearnInv, RowsOK, LearnedWasApproved
  <1> QED  BY <1>1, LearnInvInit, LearnInvStep, KnowInvInit, KnowInvStep, MetaInvInit, MetaInvStep, PTL
           DEF DictionarySpec

\* As long as no two decisions about one row were under way at once, a rule or a
\* refinement that was approved or rejected stays as it is while it is there.
THEOREM DecisionsHold == DictionarySpec => DecisionsStand
  <1>1. DecisionsKept =>
          [~clash => /\ \A i \in DOMAIN rules \cap DOMAIN rules' :
                          rules[i].status # "PENDING" => rules'[i] = rules[i]
                     /\ \A i \in DOMAIN refinements \cap DOMAIN refinements' :
                          refinements[i].status # "PENDING" => refinements'[i] = refinements[i]]_<<rules, refinements>>
    BY DEF DecisionsKept
  <1> QED  BY <1>1, LearnInvInit, LearnInvStep, KnowInvInit, KnowInvStep, MetaInvInit, MetaInvStep, PTL
           DEF DictionarySpec, DecisionsStand
=============================================================================
