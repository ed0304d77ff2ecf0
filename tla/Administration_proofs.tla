----------------------- MODULE Administration_proofs -----------------------
(***************************************************************************)
(* Proofs about Administration, for every finite set of threads and every  *)
(* number of approval workers, accounts, tools, invites and restarts.      *)
(***************************************************************************)
EXTENDS Administration, GatedExecution_proofs

(***************************************************************************)
(* What a thread is at, as far as the proofs need it: its step; and what a *)
(* step w of a handler does with it.                                       *)
(***************************************************************************)
JobsOK ==
  /\ job = [w \in Threads |-> job[w]]
  /\ \A w \in Threads : "pc" \in DOMAIN job[w]

\* The step of w leads to one of some steps, and leaves the other threads alone.
Leads(w, steps) ==
  /\ job' = [job EXCEPT ![w] = job'[w]]
  /\ "pc" \in DOMAIN job'[w]
  /\ job'[w].pc \in steps

\* The threads that have used an invite up for an account they are yet to make.
UsingPcs   == {"admin_look", "admin_insert"}
\* The steps of the requests about one address.
AddressPcs == {"register_look", "register_insert", "register_mail", "verify_write",
               "login", "password_look", "password_write",
               "invite_look", "invite_use", "admin_look", "admin_insert"}
ToolPcs    == {"create_look", "create_insert", "edit_look", "edit_name",
               "edit_write", "approve_look", "approve_write"}
SpacePcs   == {"propose", "store", "link"}
LogPcs     == {"log_file", "log_row", "remove_rows", "remove_read", "remove_write"}
OnwardPcs  == {"register_insert", "register_mail", "password_write", "invite_use",
               "admin_look", "admin_insert"}
SignInPcs  == {"register_look", "register_insert", "register_mail", "verify_write",
               "login", "password_look", "password_write"}

\* Where a request goes on to that may still be answered 401.
Still401(w) == IF job[w].pc \in CredentialSteps THEN CredentialSteps ELSE {}

\* A step of a request that is not about accounts.
Elsewhere(w, steps) == Leads(w, steps) /\ job[w].pc \notin UsingPcs

\* A step of a request about tools leads to one, or the request is answered.
LEMMA ToolJobs ==
  ASSUME JobsOK, NEW w \in Threads, ToolStep(w) \/ ToolRequest(w)
  PROVE  Elsewhere(w, ToolPcs \cup {"rest"})
  <1> USE DEF JobsOK, Leads, Elsewhere, UsingPcs, ToolPcs, Begin, Goto, End, At, Rest
  <1>1. CASE CreateLook(w)
    BY <1>1 DEF CreateLook
  <1>2. CASE CreateInsert(w)
    BY <1>2 DEF CreateInsert
  <1>3. CASE EditLook(w)
    BY <1>3 DEF EditLook
  <1>4. CASE EditName(w)
    BY <1>4 DEF EditName
  <1>5. CASE EditWrite(w)
    BY <1>5 DEF EditWrite
  <1>6. CASE ApproveLook(w)
    BY <1>6 DEF ApproveLook
  <1>7. CASE ApproveWrite(w)
    BY <1>7 DEF ApproveWrite
  <1>8. ASSUME NEW n \in ToolNames, NEW c \in Configs, CreateTool(w, n, c)
        PROVE  Elsewhere(w, ToolPcs \cup {"rest"})
    BY <1>8 DEF CreateTool
  <1>9. ASSUME NEW t \in DOMAIN tools, ApproveTool(w, t)
        PROVE  Elsewhere(w, ToolPcs \cup {"rest"})
    BY <1>9 DEF ApproveTool
  <1>10. ASSUME NEW t \in DOMAIN tools, NEW e \in Edits, EditTool(w, t, e)
         PROVE  Elsewhere(w, ToolPcs \cup {"rest"})
    BY <1>10 DEF EditTool
  <1> QED
    BY <1>1, <1>2, <1>3, <1>4, <1>5, <1>6, <1>7, <1>8, <1>9, <1>10
       DEF ToolStep, ToolRequest

\* A failed attempt goes on to be answered 401 once it is logged.
LEMMA AuditJobs ==
  ASSUME JobsOK, NEW w \in Threads, AuditStep(w) \/ AuditRequest(w)
  PROVE  Elsewhere(w, LogPcs \cup {"rest"} \cup (Still401(w) \ AddressPcs))
  <1> USE DEF JobsOK, Leads, Elsewhere, UsingPcs, Begin, Goto, End, At, Rest, Still401
  <1>1. ASSUME NEW ok \in BOOLEAN, AppendLine(w, ok)
        PROVE  Elsewhere(w, LogPcs \cup {"rest"} \cup (Still401(w) \ AddressPcs))
    BY <1>1 DEF AppendLine, LogPcs, AddressPcs, CredentialSteps
  <1>2. ASSUME NEW ok \in BOOLEAN, InsertRow(w, ok)
        PROVE  Elsewhere(w, LogPcs \cup {"rest"} \cup (Still401(w) \ AddressPcs))
    BY <1>2 DEF InsertRow, Logging, AtSteps, LogPcs, AddressPcs, CredentialSteps
  <1>3. ASSUME RemoveRows(w)
        PROVE  Elsewhere(w, LogPcs \cup {"rest"} \cup (Still401(w) \ AddressPcs))
    BY <1>3 DEF RemoveRows, LogPcs
  <1>4. ASSUME RowsStay(w)
        PROVE  Elsewhere(w, LogPcs \cup {"rest"} \cup (Still401(w) \ AddressPcs))
    BY <1>4 DEF RowsStay, LogPcs
  <1>5. ASSUME RemoveRead(w)
        PROVE  Elsewhere(w, LogPcs \cup {"rest"} \cup (Still401(w) \ AddressPcs))
    BY <1>5 DEF RemoveRead, LogPcs
  <1>6. ASSUME RemoveWrite(w)
        PROVE  Elsewhere(w, LogPcs \cup {"rest"} \cup (Still401(w) \ AddressPcs))
    BY <1>6 DEF RemoveWrite, LogPcs
  <1>7. ASSUME RemoveFails(w)
        PROVE  Elsewhere(w, LogPcs \cup {"rest"} \cup (Still401(w) \ AddressPcs))
    BY <1>7 DEF RemoveFails, Removing, AtSteps, LogPcs
  <1>8. ASSUME NEW u \in Clients, LogEvent(w, u)
        PROVE  Elsewhere(w, LogPcs \cup {"rest"} \cup (Still401(w) \ AddressPcs))
    BY <1>8 DEF LogEvent, LogPcs
  <1>9. ASSUME NEW what \in Clients \cup {"old"}, Remove(w, what)
        PROVE  Elsewhere(w, LogPcs \cup {"rest"} \cup (Still401(w) \ AddressPcs))
    BY <1>9 DEF Remove, LogPcs
  <1> QED
    BY <1>1, <1>2, <1>3, <1>4, <1>5, <1>6, <1>7, <1>8, <1>9
       DEF AuditStep, AuditRequest

\* So with the requests about workspaces.
LEMMA SpaceJobs ==
  ASSUME JobsOK, NEW w \in Threads, SpaceStep(w) \/ SpaceRequest(w)
  PROVE  Elsewhere(w, SpacePcs \cup {"rest"})
  <1> USE DEF JobsOK, Leads, Elsewhere, UsingPcs, Begin, Goto, End, At, Rest
  <1>1. ASSUME Propose(w)
        PROVE  Elsewhere(w, SpacePcs \cup {"rest"})
    BY <1>1 DEF Propose, SpacePcs
  <1>2. ASSUME Store(w)
        PROVE  Elsewhere(w, SpacePcs \cup {"rest"})
    BY <1>2 DEF Store, SpacePcs
  <1>3. ASSUME NEW ok \in BOOLEAN, Link(w, ok)
        PROVE  Elsewhere(w, SpacePcs \cup {"rest"})
    BY <1>3 DEF Link, SpacePcs
  <1>4. ASSUME NEW i \in Intents, Compose(w, i[1], i[2])
        PROVE  Elsewhere(w, SpacePcs \cup {"rest"})
    BY <1>4 DEF Compose, SpacePcs
  <1>5. ASSUME NEW s \in DOMAIN spaces, Draft(w, s)
        PROVE  Elsewhere(w, SpacePcs \cup {"rest"})
    BY <1>5 DEF Draft, SpacePcs
  <1>6. ASSUME NEW s \in DOMAIN spaces, NEW x, Advance(w, s, x)
        PROVE  Elsewhere(w, SpacePcs \cup {"rest"})
    BY <1>6 DEF Advance, SpacePcs
  <1>7. ASSUME NEW f \in DOMAIN flows, DeleteWorkflow(w, f)
        PROVE  Elsewhere(w, SpacePcs \cup {"rest"})
    BY <1>7 DEF DeleteWorkflow, SpacePcs
  <1> QED
    BY <1>1, <1>2, <1>3, <1>4, <1>5, <1>6, <1>7
       DEF SpaceStep, SpaceRequest

\* Only what may end in a 401 before does after; requests are counted anyway.
LEMMA AccountJobs ==
  ASSUME JobsOK, NEW w \in Threads, AccountStep(w)
  PROVE  Leads(w, OnwardPcs \cup LogPcs \cup {"rest"} \cup Still401(w))
  <1> USE DEF JobsOK, Leads, Goto, End, At, Rest, OnwardPcs, LogPcs, CredentialSteps,
              Still401
  <1>1. CASE RegisterLook(w)
    BY <1>1 DEF RegisterLook
  <1>2. CASE RegisterInsert(w)
    BY <1>2 DEF RegisterInsert
  <1>3. CASE RegisterMail(w)
    BY <1>3 DEF RegisterMail
  <1>4. CASE VerifyWrite(w)
    BY <1>4 DEF VerifyWrite
  <1>5. CASE LoginCheck(w)
    BY <1>5 DEF LoginCheck
  <1>6. CASE PasswordLook(w)
    BY <1>6 DEF PasswordLook
  <1>7. CASE PasswordWrite(w)
    BY <1>7 DEF PasswordWrite
  <1>8. CASE InviteLook(w)
    BY <1>8 DEF InviteLook
  <1>9. CASE InviteUse(w)
    BY <1>9 DEF InviteUse
  <1>10. CASE AdminLook(w)
    BY <1>10 DEF AdminLook
  <1>11. CASE AdminInsert(w)
    BY <1>11 DEF AdminInsert
  <1> QED
    BY <1>1, <1>2, <1>3, <1>4, <1>5, <1>6, <1>7, <1>8, <1>9, <1>10, <1>11
       DEF AccountStep

\* What a request about accounts begins with, let in by the limiter or past it.
LEMMA AccountRequests ==
  ASSUME JobsOK, NEW w \in Threads, AccountRequest(w) \/ \E a \in Addresses : Verify(w, a)
  PROVE  Leads(w, SignInPcs \cup {"invite_look", "rest"})
  <1> USE DEF JobsOK, Leads, Begin, Rest, SignInPcs
  <1>1. ASSUME NEW a, CreateInvite(w, a) PROVE Leads(w, SignInPcs \cup {"invite_look", "rest"})
    BY <1>1 DEF CreateInvite
  <1>2. ASSUME NEW a, NEW p, Register(w, a, p)
        PROVE  Leads(w, SignInPcs \cup {"invite_look", "rest"})
    BY <1>2 DEF Register
  <1>3. ASSUME NEW a, NEW i, NEW p, RegisterAdmin(w, a, i, p)
        PROVE  Leads(w, SignInPcs \cup {"invite_look", "rest"})
    BY <1>3 DEF RegisterAdmin
  <1>4. ASSUME NEW a, NEW p, Login(w, a, p)
        PROVE  Leads(w, SignInPcs \cup {"invite_look", "rest"})
    BY <1>4 DEF Login
  <1>5. ASSUME NEW a, NEW p, NEW q, ChangePassword(w, a, p, q)
        PROVE  Leads(w, SignInPcs \cup {"invite_look", "rest"})
    BY <1>5 DEF ChangePassword
  <1>6. ASSUME NEW a, Verify(w, a) PROVE Leads(w, SignInPcs \cup {"invite_look", "rest"})
    BY <1>6 DEF Verify
  <1> QED  BY <1>1, <1>2, <1>3, <1>4, <1>5, <1>6 DEF AccountRequest

-----------------------------------------------------------------------------
(***************************************************************************)
(* The rate limiter.                                                       *)
(***************************************************************************)
LimitsInv ==
  /\ JobsOK
  /\ failures \in Nat /\ requests \in 0 .. MaxPerWindow
  /\ failures + Cardinality(AtSteps(CredentialSteps)) <= MaxFailures - 1 + Cardinality(Threads)

\* However many requests may still be answered 401, there is a thread for each.
LEMMA AFewThreads ==
  ASSUME NEW steps
  PROVE  /\ IsFiniteSet(AtSteps(steps)) /\ Cardinality(AtSteps(steps)) \in Nat
         /\ Cardinality(Threads) \in Nat
         /\ Cardinality(AtSteps(steps)) <= Cardinality(Threads)
  BY ThreadsAssumption, FS_Subset, FS_CardinalityType DEF AtSteps

\* So after a step.
LEMMA AFewThreadsAfter ==
  ASSUME NEW steps
  PROVE  /\ Cardinality(AtSteps(steps)') \in Nat
         /\ Cardinality(AtSteps(steps)') <= Cardinality(Threads)
  BY ThreadsAssumption, FS_Subset, FS_CardinalityType DEF AtSteps

\* A step that brings no thread nearer to a 401.
LEMMA NotNearer ==
  ASSUME LimitsInv, NEW w \in Threads, NEW steps,
         Leads(w, steps \cup Still401(w)), steps \cap CredentialSteps = {}
  PROVE  /\ JobsOK'
         /\ Cardinality(AtSteps(CredentialSteps)') <= Cardinality(AtSteps(CredentialSteps))
  <1>1. JobsOK'
    BY DEF LimitsInv, JobsOK, Leads
  <1>2. AtSteps(CredentialSteps)' \subseteq AtSteps(CredentialSteps)
    BY DEF LimitsInv, JobsOK, Leads, AtSteps, Still401
  <1> QED  BY <1>1, <1>2, AFewThreads, FS_Subset

\* None of the steps that are not about passwords is answered 401.
LEMMA CalmSteps ==
  /\ ToolPcs \cap CredentialSteps = {} /\ SpacePcs \cap CredentialSteps = {}
  /\ LogPcs \cap CredentialSteps = {} /\ OnwardPcs \cap CredentialSteps = {}
  /\ {"rest"} \cap CredentialSteps = {}
  BY DEF ToolPcs, SpacePcs, LogPcs, OnwardPcs, CredentialSteps

\* One more failure is one request less that may fail.
LEMMA DeniedIsCounted ==
  ASSUME LimitsInv, NEW w \in Threads, Denied(w)
  PROVE  LimitsInv'
  <1>1. AtSteps(CredentialSteps)' = AtSteps(CredentialSteps) \ {w}
    BY DEF Denied, At, End, LimitsInv, JobsOK, AtSteps, CredentialSteps, Rest
  <1>2. w \in AtSteps(CredentialSteps)
    BY DEF Denied, At, AtSteps, CredentialSteps
  <1>3. Cardinality(AtSteps(CredentialSteps)') = Cardinality(AtSteps(CredentialSteps)) - 1
    BY <1>1, <1>2, AFewThreads, FS_RemoveElement
  <1>4. JobsOK'
    BY DEF Denied, End, LimitsInv, JobsOK, Rest
  <1> QED
    BY <1>3, <1>4, AFewThreads, LimitsAssumption DEF Denied, LimitsInv

\* A request that is let in meets failures below the limit.
LEMMA AdmittedBelow ==
  ASSUME LimitsInv, NEW changes \in BOOLEAN, Admit(changes), JobsOK'
  PROVE  LimitsInv'
  <1>1. failures' \in Nat /\ failures' <= MaxFailures - 1
    BY LimitsAssumption DEF Admit, FailuresNow, LimitsInv
  <1>2. requests' \in 0 .. MaxPerWindow
    BY LimitsAssumption DEF Admit, RequestsNow, LimitsInv
  <1> QED
    BY <1>1, <1>2, AFewThreads, AFewThreadsAfter, LimitsAssumption DEF LimitsInv

\* Every step keeps the limits: a failure is counted for a thread that could fail.
LEMMA LimitsStep == LimitsInv /\ [ANext]_avars => LimitsInv'
  <1> SUFFICES ASSUME LimitsInv, [ANext]_avars PROVE LimitsInv'
    OBVIOUS
  <1> USE DEF LimitsInv
  <1>1. ASSUME UNCHANGED <<job, failures, requests>> PROVE LimitsInv'
    BY <1>1 DEF JobsOK, AtSteps
  <1>2. CASE Approvals
    BY <1>1, <1>2 DEF Approvals, limits
  <1>3. CASE UNCHANGED avars
    BY <1>1, <1>3 DEF avars, limits
  <1>4. ASSUME NEW w \in Threads, Arrive(w) PROVE LimitsInv'
    <2>1. JobsOK'
      BY <1>4, AccountRequests, ToolJobs, AuditJobs, SpaceJobs
         DEF Arrive, JobsOK, Leads, Elsewhere
    <2> QED  BY <1>4, <2>1, AdmittedBelow DEF Arrive
  <1>5. ASSUME NEW w \in Threads, Continue(w) PROVE LimitsInv'
    <2>1. CASE Denied(w)
      BY <2>1, DeniedIsCounted
    <2>2. ASSUME NEW steps, Leads(w, steps \cup Still401(w)), steps \cap CredentialSteps = {},
                 UNCHANGED limits
          PROVE  LimitsInv'
      BY <2>2, NotNearer, AFewThreads, AFewThreadsAfter, LimitsAssumption DEF limits
    <2>3. CASE UNCHANGED limits /\ AccountStep(w)
      <3>1. (OnwardPcs \cup LogPcs \cup {"rest"}) \cap CredentialSteps = {}
        BY CalmSteps
      <3> QED  BY <2>2, <2>3, <3>1, AccountJobs
    <2>4. CASE UNCHANGED limits /\ AuditStep(w)
      <3>1. (LogPcs \cup {"rest"}) \cap CredentialSteps = {}
        BY CalmSteps
      <3> QED  BY <2>2, <2>4, <3>1, AuditJobs DEF Elsewhere, Leads
    <2>5. CASE UNCHANGED limits /\ ToolStep(w)
      BY <2>2, <2>5, ToolJobs, CalmSteps DEF Leads, Elsewhere
    <2>6. CASE UNCHANGED limits /\ SpaceStep(w)
      BY <2>2, <2>6, SpaceJobs, CalmSteps DEF Leads, Elsewhere
    <2> QED  BY <1>5, <2>1, <2>3, <2>4, <2>5, <2>6 DEF Continue
  <1>6. CASE Clock
    <2>1. job' = job \/ \E i \in DOMAIN invites : Expire(i)
      BY <1>6 DEF Clock
    <2>2. failures' \in Nat /\ failures' <= failures /\ requests' = requests
      BY <1>6 DEF Clock, TurnAway, TimePasses, FailuresNow, limits
    <2>3. job' = job
      BY <2>1 DEF Expire
    <2>4. JobsOK' /\ AtSteps(CredentialSteps)' = AtSteps(CredentialSteps)
      BY <2>3 DEF JobsOK, AtSteps
    <2> QED  BY <2>2, <2>4, AFewThreads, LimitsAssumption
  <1>7. CASE Restart
    <2>1. JobsOK' /\ failures' = 0 /\ requests' = 0
      BY <1>7 DEF Restart, JobsOK, Rest
    <2> QED  BY <2>1, AFewThreads, AFewThreadsAfter, LimitsAssumption
  <1> QED  BY <1>2, <1>3, <1>4, <1>5, <1>6, <1>7 DEF ANext

\* Nothing has failed, and nothing is under way.
LEMMA LimitsAtFirst == AInit => LimitsInv
  <1> SUFFICES ASSUME AInit PROVE LimitsInv
    OBVIOUS
  <1>1. JobsOK /\ AtSteps(CredentialSteps) = {}
    BY DEF AInit, JobsOK, Rest, AtSteps, CredentialSteps
  <1> QED
    BY <1>1, AFewThreads, FS_EmptySet, LimitsAssumption DEF AInit, LimitsInit, LimitsInv

(***************************************************************************)
(* However the requests of any number of threads overlap, no window lets   *)
(* more wrong passwords pass than the limit and the threads under way.     *)
(***************************************************************************)
THEOREM LimitsAreKept == ASpec => []LimitsHold
  <1>1. LimitsInv => LimitsHold
    BY DEF LimitsInv, LimitsHold
  <1> QED  BY <1>1, LimitsAtFirst, LimitsStep, PTL DEF ASpec

-----------------------------------------------------------------------------
(***************************************************************************)
(* The approvals of engine tools, among everything else and with a server  *)
(* that may be restarted.                                                  *)
(***************************************************************************)
ApprovalsInv == TypeOK /\ HistoryInv

\* A step of an approval keeps what is known of it, and a restart only drops requests.
LEMMA ApprovalsGoOn == ApprovalsInv /\ [ANext]_avars => ApprovalsInv'
  <1> SUFFICES ASSUME ApprovalsInv, [ANext]_avars PROVE ApprovalsInv'
    OBVIOUS
  <1>1. ASSUME UNCHANGED vars PROVE ApprovalsInv'
    BY <1>1, TypeStep, HistoryStep DEF ApprovalsInv
  <1>2. CASE Approvals
    BY <1>2, TypeStep, HistoryStep DEF Approvals, ApprovalsInv
  <1>3. ASSUME NEW w \in Threads, Arrive(w) PROVE ApprovalsInv'
    <2>1. served' \in 0 .. MaxRequests
      BY <1>3, ToolApprovalAssumption DEF Arrive, ApprovalsInv, TypeOK
    <2>2. UNCHANGED <<status, trail, req, saved, visited>>
      BY <1>3 DEF Arrive
    <2> QED  BY <2>1, <2>2 DEF ApprovalsInv, TypeOK, HistoryInv, CurrentStatusVisited,
                RequestsRelyOnHistory, EveryStatusEarned, TrailNeverInvents
  <1>4. CASE Restart
    <2>1. req' \in [Workers -> Requests \cup {Idle}]
      BY <1>4 DEF Restart
    <2>2. UNCHANGED <<status, trail, served, saved, visited>>
      BY <1>4 DEF Restart
    <2>3. RequestsRelyOnHistory'
      BY <1>4 DEF Restart, RequestsRelyOnHistory, Idle
    <2> QED  BY <2>1, <2>2, <2>3 DEF ApprovalsInv, TypeOK, HistoryInv, CurrentStatusVisited,
                EveryStatusEarned, TrailNeverInvents
  <1>5. ASSUME NEW w \in Threads, Continue(w) PROVE ApprovalsInv'
    BY <1>1, <1>5 DEF Continue
  <1>6. CASE Clock
    BY <1>1, <1>6 DEF Clock
  <1>7. CASE UNCHANGED avars
    BY <1>1, <1>7 DEF avars
  <1> QED  BY <1>2, <1>3, <1>4, <1>5, <1>6, <1>7 DEF ANext

\* The approvals begin as they do alone.
LEMMA ApprovalsAtFirst == AInit => ApprovalsInv
  <1>1. Init => TypeOK
    BY ToolApprovalAssumption DEF Init, TypeOK
  <1> QED  BY <1>1, HistoryInit DEF AInit, ApprovalsInv

(***************************************************************************)
(* Wherever the server is stopped and started again: a tool only has a     *)
(* status it earned, and its trail invents nothing.                        *)
(***************************************************************************)
THEOREM RestartsKeepApprovals == ASpec => []ApprovalsAreEarned
  <1>1. ApprovalsInv => ApprovalsAreEarned
    BY DEF ApprovalsInv, HistoryInv, ApprovalsAreEarned
  <1> QED  BY <1>1, ApprovalsAtFirst, ApprovalsGoOn, PTL DEF ASpec

-----------------------------------------------------------------------------
(***************************************************************************)
(* Accounts.  A handler relies on what it looked at before it writes: that *)
(* there was an account, that the invite is to this mailbox, that it was   *)
(* used up for this request.  Nothing of this is ever taken back: accounts *)
(* keep their roles, invites their addressees, and used ones stay used.    *)
(***************************************************************************)
InviteRows == [to: {Norm(a) : a \in Addresses}, used: BOOLEAN, expired: BOOLEAN]

\* What a handler at j relies on, of accounts us and invites in.
Relies(j, us, in) ==
  /\ "pc" \in DOMAIN j
  /\ j.pc \in AddressPcs => "who" \in DOMAIN j /\ j.who \in Addresses
  /\ j.pc = "register_mail" => us[j.who].role = "user"
  /\ j.pc \in {"verify_write", "password_look", "password_write"} =>
       us[j.who].role # "none"
  /\ j.pc \in UsingPcs \cup {"invite_look", "invite_use"} =>
       "invite" \in DOMAIN j /\ j.invite \in DOMAIN in
  /\ j.pc \in UsingPcs \cup {"invite_use"} => in[j.invite].to = Norm(j.who)
  /\ j.pc \in UsingPcs => in[j.invite].used

\* Nothing is taken back.
Grows(us, in, us2, in2) ==
  /\ \A a \in Addresses : us[a].role # "none" => us2[a].role = us[a].role
  /\ \A i \in DOMAIN in :
       /\ i \in DOMAIN in2 /\ in2[i].to = in[i].to
       /\ in[i].used => in2[i].used

UsersOK ==
  /\ users = [a \in Addresses |-> users[a]]
  /\ \A a \in Addresses :
       /\ "role" \in DOMAIN users[a]
       /\ users[a].role \in {"none", "user", "admin"}
       /\ users[a].role = "none" => users[a] = NoRow

AccountsInv ==
  /\ JobsOK /\ UsersOK /\ restarts \in Nat
  /\ invites \in Seq(InviteRows)
  /\ sessions \subseteq [who: Addresses, role: {"user", "admin"}]
  /\ \A w \in Threads : Relies(job[w], users, invites)
  /\ \A s \in sessions : users[s.who].role = s.role
  /\ \A a \in Addresses :
       users[a].role = "admin" =>
         \E i \in DOMAIN invites : invites[i].used /\ invites[i].to = Norm(a)
  /\ restarts = 0 =>
       \A i \in DOMAIN invites :
         \/ ~invites[i].used
         \/ \E w \in Threads : job[w].pc \in UsingPcs /\ job[w].invite = i
         \/ \E a \in Addresses : Norm(a) = invites[i].to /\ users[a].role # "none"

\* What a handler relies on survives whatever the other handlers do.
LEMMA RelianceHolds ==
  ASSUME NEW j, NEW us, NEW in, NEW us2, NEW in2, Grows(us, in, us2, in2),
         Relies(j, us, in)
  PROVE  Relies(j, us2, in2)
  BY DEF Relies, Grows, AddressPcs, UsingPcs

\* What a step of w has to show.
LEMMA AccountsKept ==
  ASSUME AccountsInv, NEW w \in Threads,
         job' = [job EXCEPT ![w] = job'[w]], restarts' = restarts,
         UsersOK', invites' \in Seq(InviteRows), Grows(users, invites, users', invites'),
         sessions' \subseteq [who: Addresses, role: {"user", "admin"}],
         Relies(job'[w], users', invites'),
         \A s \in sessions' \ sessions : users'[s.who].role = s.role,
         \A a \in Addresses :
           users'[a].role = "admin" /\ users[a].role # "admin" =>
             \E i \in DOMAIN invites' : invites'[i].used /\ invites'[i].to = Norm(a),
         \A i \in DOMAIN invites' :
           invites'[i].used =>
             \/ i \in DOMAIN invites /\ invites[i].used
             \/ job'[w].pc \in UsingPcs /\ job'[w].invite = i,
         job[w].pc \in UsingPcs =>
           \/ job'[w].pc \in UsingPcs /\ job'[w].invite = job[w].invite
           \/ users'[job[w].who].role # "none"
  PROVE  AccountsInv'
  <1> USE DEF AccountsInv
  <1>1. JobsOK'
    BY DEF JobsOK, Relies
  <1>2. ASSUME NEW v \in Threads PROVE Relies(job'[v], users', invites')
    <2>1. CASE v = w
      BY <2>1
    <2>2. CASE v # w
      <3>1. job'[v] = job[v]
        BY <2>2 DEF JobsOK
      <3> QED  BY <3>1, RelianceHolds
    <2> QED  BY <2>1, <2>2
  <1>3. ASSUME NEW s \in sessions' PROVE users'[s.who].role = s.role
    BY DEF Grows
  <1>4. ASSUME NEW a \in Addresses, users'[a].role = "admin"
        PROVE  \E i \in DOMAIN invites' : invites'[i].used /\ invites'[i].to = Norm(a)
    <2>1. CASE users[a].role # "admin"
      BY <1>4, <2>1
    <2>2. CASE users[a].role = "admin"
      <3>1. PICK i \in DOMAIN invites : invites[i].used /\ invites[i].to = Norm(a)
        BY <2>2
      <3> QED  BY <3>1 DEF Grows
    <2> QED  BY <2>1, <2>2
  <1>5. ASSUME restarts' = 0, NEW i \in DOMAIN invites', invites'[i].used
        PROVE  \/ \E v \in Threads : job'[v].pc \in UsingPcs /\ job'[v].invite = i
               \/ \E a \in Addresses : Norm(a) = invites'[i].to /\ users'[a].role # "none"
    <2>1. CASE job'[w].pc \in UsingPcs /\ job'[w].invite = i
      BY <2>1
    <2>2. CASE i \in DOMAIN invites /\ invites[i].used
      <3>1. CASE \E a \in Addresses : Norm(a) = invites[i].to /\ users[a].role # "none"
        <4>1. PICK a \in Addresses : Norm(a) = invites[i].to /\ users[a].role # "none"
          BY <3>1
        <4> QED  BY <2>2, <4>1 DEF Grows, UsersOK
      <3>2. ASSUME NEW v \in Threads, job[v].pc \in UsingPcs, job[v].invite = i, v # w
            PROVE  job'[v].pc \in UsingPcs /\ job'[v].invite = i
        BY <3>2 DEF JobsOK
      <3>3. ASSUME job[w].pc \in UsingPcs, job[w].invite = i,
                   users'[job[w].who].role # "none"
            PROVE  \E a \in Addresses : Norm(a) = invites'[i].to /\ users'[a].role # "none"
        <4>1. Relies(job[w], users, invites)
          OBVIOUS
        <4>2. job[w].who \in Addresses /\ invites[i].to = Norm(job[w].who)
          BY <3>3, <4>1 DEF Relies, UsingPcs, AddressPcs
        <4> QED  BY <2>2, <3>3, <4>2 DEF Grows
      <3> QED  BY <1>5, <2>2, <3>1, <3>2, <3>3
    <2> QED  BY <1>5, <2>1, <2>2
  <1> QED  BY <1>1, <1>2, <1>3, <1>4, <1>5

\* The accounts are left alone, and w is not at work on one.
LEMMA AccountsElsewhere ==
  ASSUME AccountsInv, NEW w \in Threads, UNCHANGED accounts, restarts' = restarts,
         job' = [job EXCEPT ![w] = job'[w]], "pc" \in DOMAIN job'[w],
         job'[w].pc \notin AddressPcs, job[w].pc \notin UsingPcs
  PROVE  AccountsInv'
  <1>1. UsersOK' /\ Grows(users, invites, users', invites')
    BY DEF AccountsInv, UsersOK, Grows, accounts
  <1>2. Relies(job'[w], users', invites')
    BY DEF Relies, AddressPcs, UsingPcs
  <1>3. /\ invites' \in Seq(InviteRows)
        /\ sessions' \subseteq [who: Addresses, role: {"user", "admin"}]
        /\ sessions' \ sessions = {}
        /\ users' = users /\ invites' = invites
    BY DEF AccountsInv, accounts
  <1> QED  BY <1>1, <1>2, <1>3, AccountsKept

\* A step of a handler goes on from what the handler relied on.
LEMMA AccountHandlers ==
  ASSUME AccountsInv, NEW w \in Threads, AccountStep(w), restarts' = restarts
  PROVE  AccountsInv'
  <1>0. /\ Relies(job[w], users, invites) /\ "pc" \in DOMAIN job[w]
        /\ job = [v \in Threads |-> job[v]]
        /\ users = [a \in Addresses |-> users[a]]
        /\ \A a \in Addresses :
             /\ "role" \in DOMAIN users[a]
             /\ users[a].role \in {"none", "user", "admin"}
             /\ users[a].role = "none" => users[a] = NoRow
             /\ users[a] = NoRow => users[a].role = "none"
    BY DEF AccountsInv, UsersOK, JobsOK, Relies, NoRow
  \* Only the step is noted.
  <1>1. ASSUME NEW pc, Goto(w, pc), UNCHANGED accounts,
               Relies(job'[w], users, invites),
               job[w].pc \in UsingPcs => pc \in UsingPcs
        PROVE  AccountsInv'
    <2>1. /\ job' = [job EXCEPT ![w] = job'[w]]
          /\ job'[w].pc = pc
          /\ job[w].pc \in UsingPcs => job'[w].invite = job[w].invite
      BY <1>0, <1>1 DEF Goto, Relies
    <2>2. UsersOK' /\ Grows(users, invites, users', invites')
      BY <1>1 DEF AccountsInv, UsersOK, Grows, accounts
    <2>3. /\ invites' = invites /\ users' = users /\ sessions' = sessions
          /\ invites \in Seq(InviteRows)
          /\ sessions \subseteq [who: Addresses, role: {"user", "admin"}]
      BY <1>1 DEF AccountsInv, accounts
    <2> QED  BY <1>1, <2>1, <2>2, <2>3, AccountsKept
  \* The request is answered, and nothing written.
  <1>2. ASSUME End(w), UNCHANGED accounts, job[w].pc \notin UsingPcs PROVE AccountsInv'
    BY <1>0, <1>2, AccountsElsewhere DEF End, Rest, AddressPcs
  <1>3. CASE RegisterLook(w)
    <2>1. ASSUME Goto(w, "register_insert") PROVE Relies(job'[w], users, invites)
      BY <1>0, <1>3, <2>1 DEF RegisterLook, At, Goto, Relies, AddressPcs, UsingPcs
    <2>2. UNCHANGED accounts /\ job[w].pc \notin UsingPcs
      BY <1>3 DEF RegisterLook, At, UsingPcs
    <2>3. CASE End(w)
      BY <1>2, <2>2, <2>3
    <2>4. CASE Goto(w, "register_insert")
      BY <1>1, <2>1, <2>2, <2>4
    <2> QED  BY <1>3, <2>3, <2>4 DEF RegisterLook
  \* The request is answered with users, sessions and invites as shown.
  <1>4. ASSUME End(w), invites' = invites, UsersOK',
               \A a \in Addresses : users[a].role # "none" => users'[a].role = users[a].role,
               sessions' \subseteq [who: Addresses, role: {"user", "admin"}],
               \A s \in sessions' \ sessions : users'[s.who].role = s.role,
               \A a \in Addresses :
                 users'[a].role = "admin" /\ users[a].role # "admin" =>
                   \E i \in DOMAIN invites : invites[i].used /\ invites[i].to = Norm(a),
               job[w].pc \in UsingPcs => users'[job[w].who].role # "none"
        PROVE  AccountsInv'
    <2>1. /\ job' = [job EXCEPT ![w] = job'[w]]
          /\ Relies(job'[w], users', invites')
      BY <1>0, <1>4 DEF End, Rest, Relies, AddressPcs, UsingPcs
    <2>2. Grows(users, invites, users', invites') /\ invites' \in Seq(InviteRows)
      BY <1>4 DEF Grows, AccountsInv
    <2> QED  BY <1>4, <2>1, <2>2, AccountsKept
  <1>5. CASE RegisterInsert(w)
    <2> DEFINE a == job[w].who
    <2>1. /\ a \in Addresses /\ job[w].pc \notin UsingPcs
          /\ invites' = invites /\ sessions' = sessions
      BY <1>0, <1>5 DEF RegisterInsert, At, Relies, AddressPcs, UsingPcs
    <2>2. CASE users[a] # NoRow
      BY <1>2, <1>5, <2>1, <2>2 DEF RegisterInsert, accounts
    <2>3. CASE users[a] = NoRow
      <3>1. /\ users' = [users EXCEPT ![a] = Row("user", job[w].password)]
            /\ job' = [job EXCEPT ![w] = [job[w] EXCEPT !.pc = "register_mail"]]
        BY <1>5, <2>3 DEF RegisterInsert, Goto
      <3>2. Row("user", job[w].password).role = "user"
              /\ "role" \in DOMAIN Row("user", job[w].password)
        BY DEF Row
      <3>3. /\ users'[a].role = "user" /\ "role" \in DOMAIN users'[a]
            /\ \A b \in Addresses : b # a => users'[b] = users[b]
            /\ users' = [b \in Addresses |-> users'[b]]
        BY <1>0, <2>1, <3>1, <3>2
      <3>4. UsersOK' /\ Grows(users, invites, users', invites')
        BY <1>0, <2>1, <2>3, <3>3 DEF UsersOK, Grows
      <3>5. /\ "pc" \in DOMAIN job'[w] /\ job'[w].pc = "register_mail"
            /\ "who" \in DOMAIN job'[w] /\ job'[w].who = a
            /\ job' = [job EXCEPT ![w] = job'[w]]
        BY <1>0, <1>5, <3>1 DEF RegisterInsert, At, Relies, AddressPcs
      <3>6. Relies(job'[w], users', invites')
        BY <2>1, <3>3, <3>5 DEF Relies, UsingPcs
      <3>7. /\ invites' \in Seq(InviteRows) /\ sessions' \ sessions = {}
            /\ sessions' \subseteq [who: Addresses, role: {"user", "admin"}]
        BY <2>1 DEF AccountsInv
      <3> QED  BY <2>1, <3>3, <3>4, <3>5, <3>6, <3>7, AccountsKept
    <2> QED  BY <2>2, <2>3
  <1>6. CASE RegisterMail(w)
    <2> DEFINE a == job[w].who
    <2>1. /\ a \in Addresses /\ users[a].role = "user" /\ job[w].pc \notin UsingPcs
      BY <1>0, <1>6 DEF RegisterMail, At, Relies, AddressPcs, UsingPcs
    <2>2. /\ users' = [users EXCEPT ![a] = [users[a] EXCEPT !.token = "mailed"]]
          /\ sessions' = sessions \cup {[who |-> a, role |-> "user"]}
          /\ End(w) /\ invites' = invites
      BY <1>6 DEF RegisterMail, Issue
    <2>3. users'[a].role = "user" /\ "role" \in DOMAIN users'[a]
      BY <1>0, <2>1, <2>2
    <2>4. /\ \A b \in Addresses : b # a => users'[b] = users[b]
          /\ users' = [b \in Addresses |-> users'[b]]
      BY <1>0, <2>1, <2>2
    <2>5. UsersOK' /\ \A b \in Addresses : users'[b].role = users[b].role
      BY <1>0, <2>1, <2>3, <2>4 DEF UsersOK
    <2>6. /\ sessions' \subseteq [who: Addresses, role: {"user", "admin"}]
          /\ \A s \in sessions' \ sessions : users'[s.who].role = s.role
      BY <2>1, <2>2, <2>3 DEF AccountsInv
    <2> QED  BY <1>4, <2>1, <2>2, <2>5, <2>6
  <1>7. CASE VerifyWrite(w)
    <2> DEFINE a == job[w].who
    <2>1. /\ a \in Addresses /\ users[a].role # "none" /\ job[w].pc \notin UsingPcs
      BY <1>0, <1>7 DEF VerifyWrite, At, Relies, AddressPcs, UsingPcs
    <2>2. /\ users' = [users EXCEPT ![a].verified = TRUE, ![a].token = "none"]
          /\ End(w) /\ invites' = invites /\ sessions' = sessions
      BY <1>7 DEF VerifyWrite
    <2>3. users'[a].role = users[a].role /\ "role" \in DOMAIN users'[a]
      BY <1>0, <2>1, <2>2
    <2>4. /\ \A b \in Addresses : b # a => users'[b] = users[b]
          /\ users' = [b \in Addresses |-> users'[b]]
      BY <1>0, <2>1, <2>2
    <2>5. UsersOK' /\ \A b \in Addresses : users'[b].role = users[b].role
      BY <1>0, <2>1, <2>3, <2>4 DEF UsersOK
    <2>6. /\ sessions' \subseteq [who: Addresses, role: {"user", "admin"}]
          /\ sessions' \ sessions = {}
      BY <2>2 DEF AccountsInv
    <2> QED  BY <1>4, <2>1, <2>2, <2>5, <2>6
  <1>8. CASE LoginCheck(w)
    <2> DEFINE a == job[w].who
    <2>1. a \in Addresses /\ job[w].pc = "login" /\ job[w].pc \notin UsingPcs
      BY <1>0, <1>8 DEF LoginCheck, At, Relies, AddressPcs, UsingPcs
    <2>2. CASE Goto(w, "denied") /\ UNCHANGED accounts
      <3>1. Relies(job'[w], users, invites)
        BY <1>0, <2>2 DEF Goto, Relies, AddressPcs, UsingPcs
      <3> QED  BY <1>1, <2>1, <2>2, <3>1
    <2>3. CASE End(w) /\ users[a] # NoRow /\ Issue(a, users[a].role)
                 /\ UNCHANGED <<users, invites>>
      <3>1. users[a].role \in {"user", "admin"}
        BY <1>0, <2>1, <2>3
      <3>2. /\ sessions' \subseteq [who: Addresses, role: {"user", "admin"}]
            /\ \A s \in sessions' \ sessions : users'[s.who].role = s.role
        BY <2>1, <2>3, <3>1 DEF Issue, AccountsInv
      <3>3. UsersOK'
        BY <2>3 DEF AccountsInv, UsersOK
      <3> QED  BY <1>4, <2>1, <2>3, <3>2, <3>3
    <2>4. CASE End(w) /\ UNCHANGED accounts
      BY <1>2, <2>1, <2>4
    <2> QED  BY <1>8, <2>2, <2>3, <2>4 DEF LoginCheck, accounts
  <1>9. CASE PasswordLook(w)
    <2>1. UNCHANGED accounts /\ job[w].pc \notin UsingPcs
      BY <1>9 DEF PasswordLook, At, UsingPcs
    <2>2. ASSUME Goto(w, "failed_file") PROVE AccountsInv'
      <3>1. Relies(job'[w], users, invites)
        BY <1>0, <2>2 DEF Goto, Relies, AddressPcs, UsingPcs
      <3> QED  BY <1>1, <2>1, <2>2, <3>1
    <2>3. ASSUME Goto(w, "password_write") PROVE AccountsInv'
      <3>1. Relies(job'[w], users, invites)
        BY <1>0, <1>9, <2>3 DEF PasswordLook, At, Goto, Relies, AddressPcs, UsingPcs
      <3> QED  BY <1>1, <2>1, <2>3, <3>1
    <2>4. CASE End(w)
      BY <1>2, <2>1, <2>4
    <2> QED  BY <1>9, <2>2, <2>3, <2>4 DEF PasswordLook
  <1>10. CASE PasswordWrite(w)
    <2> DEFINE a == job[w].who
    <2>1. /\ a \in Addresses /\ users[a].role # "none" /\ job[w].pc \notin UsingPcs
      BY <1>0, <1>10 DEF PasswordWrite, At, Relies, AddressPcs, UsingPcs
    <2>2. /\ users' = [users EXCEPT ![a] = [users[a] EXCEPT !.password = job[w].new]]
          /\ invites' = invites /\ sessions' = sessions
          /\ job' = [job EXCEPT ![w] = [job[w] EXCEPT !.pc = "log_file"]]
      BY <1>10 DEF PasswordWrite, Goto
    <2>3. users'[a].role = users[a].role /\ "role" \in DOMAIN users'[a]
      BY <1>0, <2>1, <2>2
    <2>4. /\ \A b \in Addresses : b # a => users'[b] = users[b]
          /\ users' = [b \in Addresses |-> users'[b]]
      BY <1>0, <2>1, <2>2
    <2>5. UsersOK' /\ \A b \in Addresses : users'[b].role = users[b].role
      BY <1>0, <2>1, <2>3, <2>4 DEF UsersOK
    <2>6. Relies(job'[w], users', invites') /\ job' = [job EXCEPT ![w] = job'[w]]
      BY <1>0, <2>2 DEF Relies, AddressPcs, UsingPcs
    <2>7. /\ Grows(users, invites, users', invites') /\ invites' \in Seq(InviteRows)
          /\ sessions' \subseteq [who: Addresses, role: {"user", "admin"}]
          /\ sessions' \ sessions = {}
      BY <2>2, <2>5 DEF Grows, AccountsInv
    <2> QED  BY <2>1, <2>2, <2>5, <2>6, <2>7, AccountsKept
  <1>11. CASE InviteLook(w)
    <2>1. UNCHANGED accounts /\ job[w].pc \notin UsingPcs
      BY <1>11 DEF InviteLook, At, UsingPcs
    <2>2. CASE End(w)
      BY <1>2, <2>1, <2>2
    <2>3. CASE Goto(w, "invite_use") /\ invites[job[w].invite].to = Norm(job[w].who)
      <3>1. Relies(job'[w], users, invites)
        BY <1>0, <1>11, <2>3 DEF InviteLook, At, Goto, Relies, AddressPcs, UsingPcs
      <3> QED  BY <1>1, <2>1, <2>3, <3>1
    <2> QED  BY <1>11, <2>2, <2>3 DEF InviteLook
  <1>12. CASE InviteUse(w)
    <2> DEFINE i == job[w].invite
    <2>1. /\ i \in DOMAIN invites /\ invites[i].to = Norm(job[w].who)
          /\ job[w].who \in Addresses /\ "who" \in DOMAIN job[w]
          /\ "invite" \in DOMAIN job[w] /\ job[w].pc \notin UsingPcs
      BY <1>0, <1>12 DEF InviteUse, At, Relies, AddressPcs, UsingPcs
    <2>2. /\ invites' = [invites EXCEPT ![i].used = TRUE]
          /\ users' = users /\ sessions' = sessions
          /\ job' = [job EXCEPT ![w] = [job[w] EXCEPT !.pc = "admin_look"]]
      BY <1>12 DEF InviteUse, Goto
    <2>3. /\ invites \in [1 .. Len(invites) -> InviteRows] /\ Len(invites) \in Nat
          /\ DOMAIN invites = 1 .. Len(invites)
      BY DEF AccountsInv
    <2>4. /\ invites' \in [1 .. Len(invites) -> InviteRows]
          /\ invites'[i].used /\ invites'[i].to = invites[i].to
          /\ \A k \in DOMAIN invites : k # i => invites'[k] = invites[k]
      BY <2>1, <2>2, <2>3 DEF InviteRows
    <2>5. invites' \in Seq(InviteRows) /\ DOMAIN invites' = DOMAIN invites
      BY <2>3, <2>4
    <2>6. /\ job' = [job EXCEPT ![w] = job'[w]]
          /\ "pc" \in DOMAIN job'[w] /\ job'[w].pc = "admin_look"
          /\ "who" \in DOMAIN job'[w] /\ job'[w].who = job[w].who
          /\ "invite" \in DOMAIN job'[w] /\ job'[w].invite = i
      BY <1>0, <2>1, <2>2
    <2>7. Relies(job'[w], users', invites')
      BY <2>1, <2>4, <2>5, <2>6 DEF Relies
    <2>8. Grows(users, invites, users', invites') /\ UsersOK'
      BY <2>2, <2>4, <2>5 DEF Grows, UsersOK, AccountsInv
    <2>9. /\ sessions' \subseteq [who: Addresses, role: {"user", "admin"}]
          /\ sessions' \ sessions = {}
      BY <2>2 DEF AccountsInv
    <2>10. ASSUME NEW k \in DOMAIN invites', invites'[k].used
           PROVE  \/ k \in DOMAIN invites /\ invites[k].used
                  \/ job'[w].pc \in UsingPcs /\ job'[w].invite = k
      BY <2>4, <2>5, <2>6, <2>10 DEF UsingPcs
    <2> QED  BY <2>1, <2>2, <2>5, <2>6, <2>7, <2>8, <2>9, <2>10, AccountsKept
  <1>13. CASE AdminLook(w)
    <2> DEFINE a == job[w].who
    <2>1. UNCHANGED accounts /\ job[w].pc = "admin_look" /\ a \in Addresses
      BY <1>0, <1>13 DEF AdminLook, At, Relies, AddressPcs
    <2>2. CASE End(w) /\ users[a] # NoRow
      <3>1. users'[a].role # "none" /\ UsersOK'
        BY <1>0, <2>1, <2>2 DEF accounts, UsersOK, AccountsInv
      <3>2. /\ sessions' \subseteq [who: Addresses, role: {"user", "admin"}]
            /\ sessions' \ sessions = {} /\ users' = users /\ invites' = invites
        BY <2>1 DEF accounts, AccountsInv
      <3> QED  BY <1>4, <2>2, <3>1, <3>2
    <2>3. CASE Goto(w, "admin_insert")
      <3>1. Relies(job'[w], users, invites)
        BY <1>0, <2>1, <2>3 DEF Goto, Relies, AddressPcs, UsingPcs
      <3> QED  BY <1>1, <2>1, <2>3, <3>1 DEF UsingPcs
    <2> QED  BY <1>13, <2>2, <2>3 DEF AdminLook
  <1>14. CASE AdminInsert(w)
    <2> DEFINE a == job[w].who
    <2>1. /\ a \in Addresses /\ job[w].invite \in DOMAIN invites
          /\ invites[job[w].invite].used /\ invites[job[w].invite].to = Norm(a)
          /\ End(w) /\ invites' = invites
      BY <1>0, <1>14 DEF AdminInsert, At, Relies, AddressPcs, UsingPcs
    <2>2. CASE users[a] # NoRow
      <3>1. users' = users /\ sessions' = sessions
        BY <1>14, <2>2 DEF AdminInsert
      <3>2. users'[a].role # "none" /\ UsersOK'
        BY <1>0, <2>1, <2>2, <3>1 DEF UsersOK, AccountsInv
      <3>3. /\ sessions' \subseteq [who: Addresses, role: {"user", "admin"}]
            /\ sessions' \ sessions = {}
        BY <3>1 DEF AccountsInv
      <3> QED  BY <1>4, <2>1, <3>1, <3>2, <3>3
    <2>3. CASE users[a] = NoRow
      <3>1. /\ users' = [users EXCEPT ![a] = Row("admin", job[w].password)]
            /\ sessions' = sessions \cup {[who |-> a, role |-> "admin"]}
        BY <1>14, <2>3 DEF AdminInsert, Issue
      <3>2. Row("admin", job[w].password).role = "admin"
              /\ "role" \in DOMAIN Row("admin", job[w].password)
        BY DEF Row
      <3>3. /\ users'[a].role = "admin" /\ "role" \in DOMAIN users'[a]
            /\ \A b \in Addresses : b # a => users'[b] = users[b]
            /\ users' = [b \in Addresses |-> users'[b]]
        BY <1>0, <2>1, <3>1, <3>2
      <3>4. /\ UsersOK'
            /\ \A b \in Addresses : users[b].role # "none" => users'[b].role = users[b].role
        BY <1>0, <2>1, <2>3, <3>3 DEF UsersOK
      <3>5. /\ sessions' \subseteq [who: Addresses, role: {"user", "admin"}]
            /\ \A s \in sessions' \ sessions : users'[s.who].role = s.role
        BY <2>1, <3>1, <3>3 DEF AccountsInv
      <3>6. ASSUME NEW b \in Addresses, users'[b].role = "admin", users[b].role # "admin"
            PROVE  \E i \in DOMAIN invites : invites[i].used /\ invites[i].to = Norm(b)
        BY <2>1, <3>3, <3>6
      <3>7. users'[a].role # "none"
        BY <3>3
      <3> QED  BY <1>4, <2>1, <3>4, <3>5, <3>6, <3>7
    <2> QED  BY <2>2, <2>3
  <1> QED
    BY <1>3, <1>5, <1>6, <1>7, <1>8, <1>9, <1>10, <1>11, <1>12, <1>13, <1>14
       DEF AccountStep

\* Requests that begin: what they rely on is so when they are let in.
LEMMA AccountsAsked ==
  ASSUME AccountsInv, NEW w \in Threads, restarts' = restarts,
         AccountRequest(w) \/ \E a \in Addresses : Verify(w, a)
  PROVE  AccountsInv'
  <1>0. /\ job = [v \in Threads |-> job[v]] /\ UsersOK
        /\ \A a \in Addresses :
             users[a] # NoRow => users[a].role # "none"
        /\ \A s \in sessions : s.who \in Addresses /\ users[s.who].role \in {"user", "admin"}
    BY DEF AccountsInv, UsersOK, JobsOK, NoRow
  <1>1. ASSUME NEW j, Begin(w, j), UNCHANGED accounts, Relies(j, users, invites)
        PROVE  AccountsInv'
    <2>1. /\ job' = [job EXCEPT ![w] = job'[w]] /\ job'[w] = j
          /\ job[w].pc \notin UsingPcs
      BY <1>0, <1>1 DEF Begin, Rest, UsingPcs
    <2>2. /\ UsersOK' /\ Grows(users, invites, users', invites')
          /\ invites' = invites /\ users' = users /\ sessions' = sessions
          /\ invites \in Seq(InviteRows)
          /\ sessions \subseteq [who: Addresses, role: {"user", "admin"}]
      BY <1>1 DEF AccountsInv, UsersOK, Grows, accounts
    <2> QED  BY <1>1, <2>1, <2>2, AccountsKept
  <1>2. ASSUME NEW a \in Addresses, NEW p, Register(w, a, p) PROVE AccountsInv'
    BY <1>1, <1>2 DEF Register, Relies, AddressPcs, UsingPcs
  <1>3. ASSUME NEW a \in Addresses, NEW p, NEW i \in DOMAIN invites, RegisterAdmin(w, a, i, p)
        PROVE  AccountsInv'
    BY <1>1, <1>3 DEF RegisterAdmin, Relies, AddressPcs, UsingPcs
  <1>4. ASSUME NEW a \in Addresses, NEW p, Login(w, a, p) PROVE AccountsInv'
    BY <1>1, <1>4 DEF Login, Relies, AddressPcs, UsingPcs
  <1>5. ASSUME NEW a \in Addresses, NEW p, NEW q, ChangePassword(w, a, p, q)
        PROVE  AccountsInv'
    BY <1>0, <1>1, <1>5 DEF ChangePassword, Relies, AddressPcs, UsingPcs
  <1>6. ASSUME NEW a \in Addresses, Verify(w, a) PROVE AccountsInv'
    BY <1>0, <1>1, <1>6 DEF Verify, Relies, AddressPcs, UsingPcs
  <1>7. ASSUME NEW a \in Addresses, CreateInvite(w, a) PROVE AccountsInv'
    <2> DEFINE new == [to |-> Norm(a), used |-> FALSE, expired |-> FALSE]
    <2>1. /\ invites' = Append(invites, new) /\ job' = job /\ users' = users
          /\ sessions' = sessions /\ job[w] = Rest
      BY <1>7 DEF CreateInvite
    <2>2. new \in InviteRows /\ ~new.used
      BY DEF InviteRows
    <2>3. /\ invites' \in Seq(InviteRows) /\ DOMAIN invites' = DOMAIN invites \cup {Len(invites) + 1}
          /\ \A i \in DOMAIN invites : invites'[i] = invites[i]
          /\ ~invites'[Len(invites) + 1].used
      <3> HIDE DEF new
      <3> QED  BY <2>1, <2>2 DEF AccountsInv
    <2>4. Grows(users, invites, users', invites') /\ UsersOK'
      BY <2>1, <2>3 DEF Grows, UsersOK, AccountsInv
    <2>5. /\ Relies(job'[w], users', invites') /\ job' = [job EXCEPT ![w] = job'[w]]
          /\ job[w].pc \notin UsingPcs
      BY <1>0, <2>1 DEF Relies, Rest, AddressPcs, UsingPcs
    <2>6. ASSUME NEW i \in DOMAIN invites', invites'[i].used
          PROVE  i \in DOMAIN invites /\ invites[i].used
      BY <2>3, <2>6
    <2>7. /\ sessions' \subseteq [who: Addresses, role: {"user", "admin"}]
          /\ sessions' \ sessions = {}
      BY <2>1 DEF AccountsInv
    <2> QED  BY <2>1, <2>3, <2>4, <2>5, <2>6, <2>7, AccountsKept
  <1> QED  BY <1>2, <1>3, <1>4, <1>5, <1>6, <1>7 DEF AccountRequest

\* An invite runs out.
LEMMA InvitesExpire ==
  ASSUME AccountsInv, NEW i \in DOMAIN invites, Expire(i), restarts' = restarts
  PROVE  AccountsInv'
  <1>1. /\ invites' = [invites EXCEPT ![i] = [invites[i] EXCEPT !.expired = TRUE]]
        /\ job' = job /\ users' = users /\ sessions' = sessions
    BY DEF Expire
  <1>2. /\ invites \in [1 .. Len(invites) -> InviteRows] /\ Len(invites) \in Nat
        /\ DOMAIN invites = 1 .. Len(invites)
    BY DEF AccountsInv
  <1>3. /\ invites' \in [1 .. Len(invites) -> InviteRows]
        /\ \A k \in DOMAIN invites :
             invites'[k].to = invites[k].to /\ invites'[k].used = invites[k].used
    BY <1>1, <1>2 DEF InviteRows
  <1>4. invites' \in Seq(InviteRows) /\ DOMAIN invites' = DOMAIN invites
    BY <1>2, <1>3
  <1>5. ASSUME NEW w \in Threads PROVE Relies(job'[w], users', invites')
    BY <1>1, <1>3, <1>4 DEF Relies, AccountsInv, AddressPcs, UsingPcs
  <1>6. JobsOK' /\ UsersOK'
    BY <1>1 DEF AccountsInv, JobsOK, UsersOK
  <1>7. \A a \in Addresses :
          users'[a].role = "admin" =>
            \E k \in DOMAIN invites' : invites'[k].used /\ invites'[k].to = Norm(a)
    BY <1>1, <1>3, <1>4 DEF AccountsInv
  <1>8. ASSUME restarts' = 0, NEW k \in DOMAIN invites', invites'[k].used
        PROVE  \/ \E w \in Threads : job'[w].pc \in UsingPcs /\ job'[w].invite = k
               \/ \E a \in Addresses : Norm(a) = invites'[k].to /\ users'[a].role # "none"
    BY <1>1, <1>3, <1>4, <1>8 DEF AccountsInv
  <1>9. /\ sessions' \subseteq [who: Addresses, role: {"user", "admin"}]
        /\ \A s \in sessions' : users'[s.who].role = s.role
    BY <1>1 DEF AccountsInv
  <1> QED  BY <1>4, <1>5, <1>6, <1>7, <1>8, <1>9 DEF AccountsInv

\* Every step keeps the accounts, those about other tables because they leave them alone.
LEMMA AccountsStep == AccountsInv /\ [ANext]_avars => AccountsInv'
  <1> SUFFICES ASSUME AccountsInv, [ANext]_avars PROVE AccountsInv'
    OBVIOUS
  <1>0. JobsOK /\ \A w \in Threads : "pc" \in DOMAIN job[w]
    BY DEF AccountsInv, JobsOK
  <1>1. ASSUME UNCHANGED <<job, accounts, restarts>> PROVE AccountsInv'
    BY <1>1 DEF AccountsInv, JobsOK, UsersOK, Relies, accounts
  <1>2. ASSUME NEW w \in Threads, NEW steps, Elsewhere(w, steps), UNCHANGED accounts,
               restarts' = restarts, steps \cap AddressPcs = {}
        PROVE  AccountsInv'
    BY <1>2, AccountsElsewhere DEF Elsewhere, Leads
  <1>3. CASE Approvals
    BY <1>1, <1>3 DEF Approvals
  <1>4. ASSUME NEW w \in Threads, Arrive(w) PROVE AccountsInv'
    <2>1. restarts' = restarts
      BY <1>4 DEF Arrive
    <2>2. CASE AccountRequest(w) \/ \E a \in Addresses : Verify(w, a)
      BY <2>1, <2>2, AccountsAsked
    <2>3. CASE ToolRequest(w) /\ ByTools
      BY <1>0, <1>2, <2>1, <2>3, ToolJobs DEF ByTools, ToolPcs, AddressPcs
    <2>4. CASE AuditRequest(w) /\ ByAudit
      BY <1>0, <1>2, <2>1, <2>4, AuditJobs DEF ByAudit, LogPcs, AddressPcs
    <2>5. CASE SpaceRequest(w) /\ ByWorkspaces
      BY <1>0, <1>2, <2>1, <2>5, SpaceJobs DEF ByWorkspaces, SpacePcs, AddressPcs
    <2> QED  BY <1>4, <2>2, <2>3, <2>4, <2>5 DEF Arrive
  <1>5. ASSUME NEW w \in Threads, Continue(w) PROVE AccountsInv'
    <2>1. restarts' = restarts
      BY <1>5 DEF Continue
    <2>2. CASE AccountStep(w)
      BY <2>1, <2>2, AccountHandlers
    <2>3. CASE ToolStep(w) /\ ByTools
      BY <1>0, <1>2, <2>1, <2>3, ToolJobs DEF ByTools, ToolPcs, AddressPcs
    <2>4. CASE AuditStep(w) /\ ByAudit
      BY <1>0, <1>2, <2>1, <2>4, AuditJobs DEF ByAudit, LogPcs, AddressPcs
    <2>5. CASE SpaceStep(w) /\ ByWorkspaces
      BY <1>0, <1>2, <2>1, <2>5, SpaceJobs DEF ByWorkspaces, SpacePcs, AddressPcs
    <2>6. CASE Denied(w) /\ UNCHANGED accounts
      <3>1. Elsewhere(w, {"rest"})
        BY <1>0, <2>6 DEF Denied, At, End, Rest, Elsewhere, Leads, JobsOK, UsingPcs
      <3> QED  BY <1>2, <2>1, <2>6, <3>1 DEF AddressPcs
    <2> QED  BY <1>5, <2>2, <2>3, <2>4, <2>5, <2>6 DEF Continue
  <1>6. CASE Clock
    BY <1>1, <1>6, InvitesExpire DEF Clock
  <1>7. CASE Restart
    <2>1. /\ job' = [w \in Threads |-> Rest] /\ UNCHANGED accounts /\ restarts' = restarts + 1
      BY <1>7 DEF Restart
    <2>2. /\ users' = users /\ invites' = invites /\ sessions' = sessions
          /\ restarts' \in Nat /\ restarts' # 0
      BY <2>1 DEF accounts, AccountsInv
    <2>3. ASSUME NEW w \in Threads PROVE Relies(job'[w], users', invites')
      BY <2>1 DEF Relies, Rest, AddressPcs, UsingPcs
    <2>4. JobsOK' /\ UsersOK'
      BY <2>1, <2>2 DEF AccountsInv, JobsOK, UsersOK, Rest
    <2>5. /\ invites' \in Seq(InviteRows)
          /\ sessions' \subseteq [who: Addresses, role: {"user", "admin"}]
          /\ \A s \in sessions' : users'[s.who].role = s.role
          /\ \A a \in Addresses :
               users'[a].role = "admin" =>
                 \E i \in DOMAIN invites' : invites'[i].used /\ invites'[i].to = Norm(a)
      BY <2>2 DEF AccountsInv
    <2> QED  BY <2>2, <2>3, <2>4, <2>5 DEF AccountsInv
  <1>8. CASE UNCHANGED avars
    BY <1>1, <1>8 DEF avars
  <1> QED  BY <1>3, <1>4, <1>5, <1>6, <1>7, <1>8 DEF ANext

-----------------------------------------------------------------------------
(***************************************************************************)
(* The rows of the dynamic tools and of the workspaces, for the types of   *)
(* Administration: a name is taken from a request, and a link from the     *)
(* workflow that was stored for it.                                        *)
(***************************************************************************)
ToolRows == [name: ToolNames \ Builtin, config: Configs \cup Valid, enabled: BOOLEAN,
             approved: BOOLEAN]

Carries(j) ==
  /\ j.pc \in {"create_look", "create_insert"} =>
       /\ {"name", "config"} \subseteq DOMAIN j
       /\ j.name \in ToolNames \ Builtin /\ j.config \in Configs
  /\ j.pc \in {"edit_look", "edit_name", "edit_write", "approve_look", "approve_write"} =>
       "tool" \in DOMAIN j /\ j.tool \in Nat
  /\ j.pc \in {"edit_look", "edit_name", "edit_write"} =>
       "edit" \in DOMAIN j /\ j.edit \in Edits

ToolsInv ==
  /\ JobsOK
  /\ \A w \in Threads : Carries(job[w])
  /\ tools \in Seq(ToolRows)

\* What a step of w has to show.
LEMMA ToolsKept ==
  ASSUME ToolsInv, NEW w \in Threads, job' = [job EXCEPT ![w] = job'[w]],
         "pc" \in DOMAIN job'[w], Carries(job'[w]), tools' \in Seq(ToolRows)
  PROVE  ToolsInv'
  <1>1. JobsOK'
    BY DEF ToolsInv, JobsOK
  <1>2. ASSUME NEW v \in Threads PROVE Carries(job'[v])
    BY DEF ToolsInv, JobsOK
  <1> QED  BY <1>1, <1>2 DEF ToolsInv

\* A row is replaced by one of the same type, if it is there.
LEMMA RowsReplaced ==
  ASSUME NEW Rs, NEW rs \in Seq(Rs), NEW i, NEW row, rs[i] \in Rs => row \in Rs
  PROVE  [rs EXCEPT ![i] = row] \in Seq(Rs)
  <1>1. rs \in [1 .. Len(rs) -> Rs] /\ Len(rs) \in Nat
    OBVIOUS
  <1>2. [rs EXCEPT ![i] = row] \in [1 .. Len(rs) -> Rs]
    BY <1>1
  <1> QED  BY <1>1, <1>2

\* Two fields of a row are set one after the other.
LEMMA BothSet ==
  ASSUME NEW t
  PROVE  [tools EXCEPT ![t].approved = TRUE, ![t].enabled = TRUE]
           = [tools EXCEPT ![t] = [tools[t] EXCEPT !.approved = TRUE, !.enabled = TRUE]]
  OBVIOUS

\* A handler writes rows of the right type.
LEMMA ToolHandlers ==
  ASSUME ToolsInv, NEW w \in Threads, ToolStep(w) \/ ToolRequest(w)
  PROVE  ToolsInv'
  <1>0. /\ JobsOK /\ "pc" \in DOMAIN job[w] /\ job = [v \in Threads |-> job[v]]
        /\ Carries(job[w]) /\ tools \in Seq(ToolRows)
        /\ Leads(w, ToolPcs \cup {"rest"})
    BY ToolJobs DEF ToolsInv, JobsOK, Elsewhere
  <1>1. job' = [job EXCEPT ![w] = job'[w]] /\ "pc" \in DOMAIN job'[w]
    BY <1>0 DEF Leads
  <1>2. ASSUME End(w) PROVE Carries(job'[w])
    BY <1>0, <1>2 DEF End, Rest, Carries
  <1>3. ASSUME NEW pc, Goto(w, pc),
               \/ job[w].pc = "create_look" /\ pc = "create_insert"
               \/ job[w].pc \in {"edit_look", "edit_name"} /\ pc \in {"edit_name", "edit_write"}
               \/ job[w].pc = "approve_look" /\ pc = "approve_write"
        PROVE  Carries(job'[w])
    BY <1>0, <1>3 DEF Goto, Carries
  <1>4. CASE CreateLook(w)
    <2>1. Carries(job'[w])
      BY <1>2, <1>3, <1>4 DEF CreateLook, At
    <2> QED  BY <1>0, <1>1, <1>4, <2>1, ToolsKept DEF CreateLook, toolvars
  <1>5. CASE CreateInsert(w)
    <2>1. [name |-> job[w].name, config |-> job[w].config,
           enabled |-> FALSE, approved |-> FALSE] \in ToolRows
      BY <1>0, <1>5 DEF CreateInsert, At, Carries, ToolRows
    <2>2. tools' \in Seq(ToolRows)
      BY <1>0, <1>5, <2>1 DEF CreateInsert
    <2> QED  BY <1>1, <1>2, <1>5, <2>2, ToolsKept DEF CreateInsert
  <1>6. CASE EditLook(w)
    <2>1. Carries(job'[w])
      BY <1>2, <1>3, <1>6 DEF EditLook, At
    <2> QED  BY <1>0, <1>1, <1>6, <2>1, ToolsKept DEF EditLook, toolvars
  <1>7. CASE EditName(w)
    <2>1. Carries(job'[w])
      BY <1>2, <1>3, <1>7 DEF EditName, At
    <2> QED  BY <1>0, <1>1, <1>7, <2>1, ToolsKept DEF EditName, toolvars
  <1>8. CASE EditWrite(w)
    <2> DEFINE t == job[w].tool
               e == job[w].edit
               row == CASE e.field = "config"  -> [tools[t] EXCEPT !.config = e.value]
                        [] e.field = "enabled" -> [tools[t] EXCEPT !.enabled = e.value]
                        [] e.field = "name"    -> [tools[t] EXCEPT !.name = e.value]
    <2>1. tools' = [tools EXCEPT ![t] = row] /\ e \in Edits
      BY <1>0, <1>8 DEF EditWrite, At, Carries
    <2>2. ASSUME tools[t] \in ToolRows PROVE row \in ToolRows
      <3>1. CASE e.field = "config" /\ e.value \in Valid
        BY <2>2, <3>1 DEF ToolRows
      <3>2. CASE e.field = "enabled" /\ e.value \in BOOLEAN
        BY <2>2, <3>2 DEF ToolRows
      <3>3. CASE e.field = "name" /\ e.value \in ToolNames \ Builtin
        BY <2>2, <3>3 DEF ToolRows
      <3> QED  BY <2>1, <3>1, <3>2, <3>3 DEF Edits
    <2>3. tools' \in Seq(ToolRows)
      BY <1>0, <2>1, <2>2, RowsReplaced
    <2> QED  BY <1>1, <1>2, <1>8, <2>3, ToolsKept DEF EditWrite
  <1>9. CASE ApproveLook(w)
    <2>1. Carries(job'[w])
      BY <1>2, <1>3, <1>9 DEF ApproveLook, At
    <2> QED  BY <1>0, <1>1, <1>9, <2>1, ToolsKept DEF ApproveLook, toolvars
  <1>10. CASE ApproveWrite(w)
    <2> DEFINE t == job[w].tool
               row == [tools[t] EXCEPT !.approved = TRUE, !.enabled = TRUE]
    <2>1. tools' = [tools EXCEPT ![t] = row]
      BY <1>0, <1>10, BothSet DEF ApproveWrite
    <2>2. ASSUME tools[t] \in ToolRows PROVE row \in ToolRows
      BY <2>2 DEF ToolRows
    <2>3. tools' \in Seq(ToolRows)
      BY <1>0, <2>1, <2>2, RowsReplaced
    <2> QED  BY <1>1, <1>2, <1>10, <2>3, ToolsKept DEF ApproveWrite
  <1>11. ASSUME NEW j, Begin(w, j), UNCHANGED toolvars, Carries(j) PROVE ToolsInv'
    <2>1. job'[w] = j
      BY <1>0, <1>11 DEF Begin
    <2> QED  BY <1>0, <1>1, <1>11, <2>1, ToolsKept DEF toolvars
  <1>12. ASSUME NEW n \in ToolNames, NEW c \in Configs, CreateTool(w, n, c) PROVE ToolsInv'
    BY <1>11, <1>12 DEF CreateTool, Carries
  <1>13. ASSUME NEW t \in DOMAIN tools, ApproveTool(w, t) PROVE ToolsInv'
    BY <1>0, <1>11, <1>13 DEF ApproveTool, Carries
  <1>14. ASSUME NEW t \in DOMAIN tools, NEW e \in Edits, EditTool(w, t, e) PROVE ToolsInv'
    BY <1>0, <1>11, <1>14 DEF EditTool, Carries
  <1> QED
    BY <1>4, <1>5, <1>6, <1>7, <1>8, <1>9, <1>10, <1>12, <1>13, <1>14
       DEF ToolStep, ToolRequest

ProposalRows == UNION {Composed(i[1], i[2]) : i \in Intents}
SpaceRows == [status: {"draft", "proposed", "executed", "saved"},
              proposals: SUBSET ProposalRows, dataset: {i[2] : i \in Intents}, flow: Nat]
FlowRows  == [of: Nat, there: BOOLEAN]

Brings(j, fs) ==
  /\ j.pc \in SpacePcs => "space" \in DOMAIN j /\ j.space \in Nat
  /\ j.pc = "propose" => "proposal" \in DOMAIN j /\ j.proposal \in ProposalRows
  /\ j.pc = "link" => "flow" \in DOMAIN j /\ j.flow \in DOMAIN fs

SpacesInv ==
  /\ JobsOK
  /\ \A w \in Threads : Brings(job[w], flows)
  /\ spaces \in Seq(SpaceRows) /\ flows \in Seq(FlowRows)
  /\ \A s \in DOMAIN spaces : spaces[s].flow \in {0} \cup DOMAIN flows

\* What a step of w has to show.
LEMMA SpacesKept ==
  ASSUME SpacesInv, NEW w \in Threads, job' = [job EXCEPT ![w] = job'[w]],
         "pc" \in DOMAIN job'[w], Brings(job'[w], flows'),
         spaces' \in Seq(SpaceRows), flows' \in Seq(FlowRows),
         DOMAIN flows \subseteq DOMAIN flows',
         \A s \in DOMAIN spaces' : spaces'[s].flow \in {0} \cup DOMAIN flows'
  PROVE  SpacesInv'
  <1>1. JobsOK'
    BY DEF SpacesInv, JobsOK
  <1>2. ASSUME NEW v \in Threads PROVE Brings(job'[v], flows')
    <2>1. CASE v = w
      BY <2>1
    <2>2. CASE v # w
      <3>1. job'[v] = job[v] /\ Brings(job[v], flows)
        BY <2>2 DEF SpacesInv, JobsOK
      <3> QED  BY <3>1 DEF Brings, SpacePcs
    <2> QED  BY <2>1, <2>2
  <1> QED  BY <1>1, <1>2 DEF SpacesInv

\* A handler links a workspace to a workflow that was stored.
LEMMA SpaceHandlers ==
  ASSUME SpacesInv, NEW w \in Threads, SpaceStep(w) \/ SpaceRequest(w)
  PROVE  SpacesInv'
  <1>0. /\ JobsOK /\ "pc" \in DOMAIN job[w] /\ job = [v \in Threads |-> job[v]]
        /\ Brings(job[w], flows) /\ spaces \in Seq(SpaceRows) /\ flows \in Seq(FlowRows)
        /\ \A s \in DOMAIN spaces : spaces[s].flow \in {0} \cup DOMAIN flows
        /\ Leads(w, SpacePcs \cup {"rest"})
    BY SpaceJobs DEF SpacesInv, JobsOK, Elsewhere
  <1>1. job' = [job EXCEPT ![w] = job'[w]] /\ "pc" \in DOMAIN job'[w]
    BY <1>0 DEF Leads
  <1>2. ASSUME End(w) \/ (job' = job /\ job[w] = Rest) PROVE Brings(job'[w], flows')
    BY <1>0, <1>2 DEF End, Rest, Brings, SpacePcs
  \* One row of a workspace is changed.
  <1>3. ASSUME NEW s, NEW row, spaces' = [spaces EXCEPT ![s] = row], flows' = flows,
               spaces[s] \in SpaceRows => row \in SpaceRows,
               row.flow \in {spaces[s].flow, 0} \cup DOMAIN flows,
               Brings(job'[w], flows')
        PROVE  SpacesInv'
    <2>1. spaces' \in Seq(SpaceRows)
      BY <1>0, <1>3, RowsReplaced
    <2>2. DOMAIN spaces' = DOMAIN spaces
      BY <1>3
    <2>3. ASSUME NEW v \in DOMAIN spaces' PROVE spaces'[v].flow \in {0} \cup DOMAIN flows'
      <3>1. CASE v = s
        BY <1>0, <1>3, <2>2, <3>1
      <3>2. CASE v # s
        BY <1>0, <1>3, <2>2, <3>2
      <3> QED  BY <3>1, <3>2
    <2> QED  BY <1>0, <1>1, <1>3, <2>1, <2>3, SpacesKept
  <1>4. CASE Propose(w)
    <2> DEFINE s == job[w].space
               row == [spaces[s] EXCEPT !.proposals = {job[w].proposal}, !.status = "proposed"]
    <2>1. /\ spaces' = [spaces EXCEPT ![s] = row] /\ flows' = flows /\ End(w)
          /\ job[w].proposal \in ProposalRows
      BY <1>0, <1>4 DEF Propose, At, Brings
    <2>2. ASSUME spaces[s] \in SpaceRows PROVE row \in SpaceRows
      BY <2>1, <2>2 DEF SpaceRows
    <2>3. row.flow = spaces[s].flow
      OBVIOUS
    <2>4. Brings(job'[w], flows')
      BY <1>2, <2>1
    <2>5. row.flow \in {spaces[s].flow, 0} \cup DOMAIN flows
      BY <2>3
    <2> HIDE DEF row, s
    <2> QED  BY <1>3, <2>1, <2>2, <2>4, <2>5
  <1>5. CASE Store(w)
    <2> DEFINE new == [of |-> job[w].space, there |-> TRUE]
    <2>1. /\ flows' = Append(flows, new) /\ spaces' = spaces /\ new \in FlowRows
          /\ job' = [job EXCEPT ![w] = [pc |-> "link", space |-> job[w].space,
                                        flow |-> Len(flows) + 1]]
          /\ job[w].space \in Nat
      BY <1>0, <1>5 DEF Store, At, Brings, SpacePcs, FlowRows
    <2> HIDE DEF new
    <2>2. /\ flows' \in Seq(FlowRows) /\ DOMAIN flows \subseteq DOMAIN flows'
          /\ Len(flows) + 1 \in DOMAIN flows'
      BY <1>0, <2>1
    <2>3. Brings(job'[w], flows')
      BY <1>0, <2>1, <2>2 DEF Brings, SpacePcs
    <2> QED  BY <1>0, <1>1, <2>1, <2>2, <2>3, SpacesKept
  <1>6. ASSUME NEW ok \in BOOLEAN, Link(w, ok) PROVE SpacesInv'
    <2> DEFINE s == job[w].space
               row == [spaces[s] EXCEPT !.flow = job[w].flow]
    <2>1. job[w].flow \in DOMAIN flows /\ flows' = flows /\ End(w)
      BY <1>0, <1>6 DEF Link, At, Brings
    <2>4. Brings(job'[w], flows')
      BY <1>2, <2>1
    <2>2. CASE spaces' = spaces
      BY <1>0, <1>1, <2>1, <2>2, <2>4, SpacesKept
    <2>3. CASE spaces' = [spaces EXCEPT ![s] = row]
      <3>1. job[w].flow \in Nat
        BY <1>0, <2>1
      <3>2. ASSUME spaces[s] \in SpaceRows PROVE row \in SpaceRows /\ row.flow = job[w].flow
        BY <3>1, <3>2 DEF SpaceRows
      <3>3. CASE spaces[s] \in SpaceRows
        <4>1. row \in SpaceRows /\ row.flow \in DOMAIN flows
          BY <2>1, <3>2, <3>3
        <4> HIDE DEF row, s
        <4> QED  BY <1>3, <2>1, <2>3, <2>4, <4>1
      <3>4. CASE s \notin DOMAIN spaces
        <4>1. spaces' = spaces
          BY <1>0, <2>3, <3>4
        <4> QED  BY <2>2, <4>1
      <3> QED  BY <1>0, <3>3, <3>4
    <2> QED  BY <1>6, <2>2, <2>3 DEF Link, LinkTo
  <1>7. ASSUME NEW i \in Intents, Compose(w, i[1], i[2]) PROVE SpacesInv'
    <2> DEFINE new == NewSpace(i[2])
    <2>1. PICK p \in Composed(i[1], i[2]) :
            Begin(w, [pc |-> "propose", space |-> Len(spaces) + 1, proposal |-> p])
      BY <1>7 DEF Compose
    <2>2. spaces' = Append(spaces, new) /\ flows' = flows
      BY <1>7 DEF Compose
    <2>3. new \in SpaceRows /\ new.flow = 0
      BY DEF NewSpace, SpaceRows
    <2> HIDE DEF new
    <2>4. /\ spaces' \in Seq(SpaceRows)
          /\ \A s \in DOMAIN spaces' : spaces'[s].flow \in {0} \cup DOMAIN flows'
      BY <1>0, <2>2, <2>3
    <2>5. p \in ProposalRows /\ Len(spaces) + 1 \in Nat
      BY <1>0 DEF ProposalRows
    <2>6. Brings(job'[w], flows')
      BY <1>0, <2>1, <2>5 DEF Begin, Brings, SpacePcs
    <2> QED  BY <1>0, <1>1, <2>2, <2>4, <2>6, SpacesKept
  <1>8. ASSUME NEW s \in DOMAIN spaces, Draft(w, s) PROVE SpacesInv'
    <2>1. Brings(job'[w], flows')
      BY <1>0, <1>8 DEF Draft, Begin, Brings, SpacePcs
    <2> QED  BY <1>0, <1>1, <1>8, <2>1, SpacesKept DEF Draft, drafts
  <1>9. ASSUME NEW s \in DOMAIN spaces, NEW x \in {"executed", "saved"}, Advance(w, s, x)
        PROVE  SpacesInv'
    <2> DEFINE row == [spaces[s] EXCEPT !.status = x]
    <2>1. /\ spaces' = [spaces EXCEPT ![s] = row] /\ flows' = flows
          /\ job' = job /\ job[w] = Rest
      BY <1>9 DEF Advance
    <2>2. ASSUME spaces[s] \in SpaceRows PROVE row \in SpaceRows
      BY <2>2 DEF SpaceRows
    <2>3. row.flow = spaces[s].flow
      OBVIOUS
    <2> QED  BY <1>2, <1>3, <2>1, <2>2, <2>3
  <1>10. ASSUME NEW f \in DOMAIN flows, DeleteWorkflow(w, f) PROVE SpacesInv'
    <2>1. /\ flows' = [flows EXCEPT ![f] = [flows[f] EXCEPT !.there = FALSE]]
          /\ job' = job /\ job[w] = Rest
          /\ spaces' = [s \in DOMAIN spaces |->
                          IF spaces[s].flow = f THEN [spaces[s] EXCEPT !.flow = 0] ELSE spaces[s]]
      BY <1>10 DEF DeleteWorkflow
    <2>2. flows[f] \in FlowRows => [flows[f] EXCEPT !.there = FALSE] \in FlowRows
      BY DEF FlowRows
    <2>3. flows' \in Seq(FlowRows) /\ DOMAIN flows' = DOMAIN flows
      BY <1>0, <2>1, <2>2, RowsReplaced
    <2>4. /\ spaces \in [1 .. Len(spaces) -> SpaceRows] /\ Len(spaces) \in Nat
          /\ DOMAIN spaces = 1 .. Len(spaces)
      BY <1>0
    <2>5. \A s \in DOMAIN spaces : spaces'[s] \in SpaceRows /\ spaces'[s].flow \in {0, spaces[s].flow}
      BY <2>1, <2>4 DEF SpaceRows
    <2>6. spaces' \in Seq(SpaceRows) /\ DOMAIN spaces' = DOMAIN spaces
      BY <2>1, <2>4, <2>5
    <2>7. \A s \in DOMAIN spaces' : spaces'[s].flow \in {0} \cup DOMAIN flows'
      BY <1>0, <2>3, <2>5, <2>6
    <2> QED  BY <1>1, <1>2, <2>1, <2>3, <2>6, <2>7, SpacesKept
  <1> QED
    BY <1>4, <1>5, <1>6, <1>7, <1>8, <1>9, <1>10 DEF SpaceStep, SpaceRequest

\* The tools are left alone, and w is not at work on one.
LEMMA ToolsElsewhere ==
  ASSUME ToolsInv, NEW w \in Threads, NEW steps, Leads(w, steps),
         steps \cap ToolPcs = {}, UNCHANGED tools
  PROVE  ToolsInv'
  <1>1. Carries(job'[w])
    BY DEF Leads, Carries, ToolPcs
  <1> QED  BY <1>1, ToolsKept DEF ToolsInv, Leads

\* Every step does.
LEMMA ToolsStep == ToolsInv /\ [ANext]_avars => ToolsInv'
  <1> SUFFICES ASSUME ToolsInv, [ANext]_avars PROVE ToolsInv'
    OBVIOUS
  <1>0. JobsOK
    BY DEF ToolsInv
  <1>1. ASSUME UNCHANGED <<job, tools>> PROVE ToolsInv'
    BY <1>1 DEF ToolsInv, JobsOK, Carries
  <1>2. CASE Approvals
    BY <1>1, <1>2 DEF Approvals, toolvars
  <1>3. ASSUME NEW w \in Threads, Arrive(w) PROVE ToolsInv'
    <2>1. CASE ToolRequest(w)
      BY <2>1, ToolHandlers
    <2>2. CASE (AccountRequest(w) \/ \E a \in Addresses : Verify(w, a)) /\ ByAccounts
      BY <1>0, <2>2, AccountRequests, ToolsElsewhere
         DEF ByAccounts, toolvars, SignInPcs, ToolPcs
    <2>3. CASE AuditRequest(w) /\ ByAudit
      BY <1>0, <2>3, AuditJobs, ToolsElsewhere
         DEF ByAudit, toolvars, Elsewhere, Still401, LogPcs, CredentialSteps, ToolPcs
    <2>4. CASE SpaceRequest(w) /\ ByWorkspaces
      BY <1>0, <2>4, SpaceJobs, ToolsElsewhere
         DEF ByWorkspaces, toolvars, Elsewhere, SpacePcs, ToolPcs
    <2> QED  BY <1>3, <2>1, <2>2, <2>3, <2>4 DEF Arrive
  <1>4. ASSUME NEW w \in Threads, Continue(w) PROVE ToolsInv'
    <2>1. CASE ToolStep(w)
      BY <2>1, ToolHandlers
    <2>2. CASE AccountStep(w) /\ ByAccounts
      BY <1>0, <2>2, AccountJobs, ToolsElsewhere
         DEF ByAccounts, toolvars, Still401, OnwardPcs, LogPcs, CredentialSteps, ToolPcs
    <2>3. CASE AuditStep(w) /\ ByAudit
      BY <1>0, <2>3, AuditJobs, ToolsElsewhere
         DEF ByAudit, toolvars, Elsewhere, Still401, LogPcs, CredentialSteps, ToolPcs
    <2>4. CASE SpaceStep(w) /\ ByWorkspaces
      BY <1>0, <2>4, SpaceJobs, ToolsElsewhere
         DEF ByWorkspaces, toolvars, Elsewhere, SpacePcs, ToolPcs
    <2>5. CASE Denied(w) /\ UNCHANGED toolvars
      <3>1. Leads(w, {"rest"})
        BY <1>0, <2>5 DEF Denied, End, Rest, Leads, JobsOK
      <3> QED  BY <2>5, <3>1, ToolsElsewhere DEF toolvars, ToolPcs
    <2> QED  BY <1>4, <2>1, <2>2, <2>3, <2>4, <2>5 DEF Continue
  <1>5. CASE Clock
    BY <1>1, <1>5 DEF Clock, Expire, toolvars
  <1>6. CASE Restart
    BY <1>6 DEF Restart, ToolsInv, JobsOK, Carries, Rest
  <1>7. CASE UNCHANGED avars
    BY <1>1, <1>7 DEF avars, toolvars
  <1> QED  BY <1>2, <1>3, <1>4, <1>5, <1>6, <1>7 DEF ANext

\* The workspaces are left alone, and w is not at work on one.
LEMMA SpacesElsewhere ==
  ASSUME SpacesInv, NEW w \in Threads, NEW steps, Leads(w, steps),
         steps \cap SpacePcs = {}, UNCHANGED <<spaces, flows>>
  PROVE  SpacesInv'
  <1>1. Brings(job'[w], flows')
    BY DEF Leads, Brings, SpacePcs
  <1> QED  BY <1>1, SpacesKept DEF SpacesInv, Leads

\* Every step keeps the links.
LEMMA SpacesStep == SpacesInv /\ [ANext]_avars => SpacesInv'
  <1> SUFFICES ASSUME SpacesInv, [ANext]_avars PROVE SpacesInv'
    OBVIOUS
  <1>0. JobsOK
    BY DEF SpacesInv
  <1>1. ASSUME UNCHANGED <<job, spaces, flows>> PROVE SpacesInv'
    BY <1>1 DEF SpacesInv, JobsOK, Brings
  <1>2. CASE Approvals
    BY <1>1, <1>2 DEF Approvals, drafts
  <1>3. ASSUME NEW w \in Threads, Arrive(w) PROVE SpacesInv'
    <2>1. CASE SpaceRequest(w)
      BY <2>1, SpaceHandlers
    <2>2. CASE (AccountRequest(w) \/ \E a \in Addresses : Verify(w, a)) /\ ByAccounts
      BY <1>0, <2>2, AccountRequests, SpacesElsewhere
         DEF ByAccounts, drafts, SignInPcs, SpacePcs
    <2>3. CASE AuditRequest(w) /\ ByAudit
      BY <1>0, <2>3, AuditJobs, SpacesElsewhere
         DEF ByAudit, drafts, Elsewhere, Still401, LogPcs, CredentialSteps, SpacePcs
    <2>4. CASE ToolRequest(w) /\ ByTools
      BY <1>0, <2>4, ToolJobs, SpacesElsewhere
         DEF ByTools, drafts, Elsewhere, SpacePcs, ToolPcs
    <2> QED  BY <1>3, <2>1, <2>2, <2>3, <2>4 DEF Arrive
  <1>4. ASSUME NEW w \in Threads, Continue(w) PROVE SpacesInv'
    <2>1. CASE SpaceStep(w)
      BY <2>1, SpaceHandlers
    <2>2. CASE AccountStep(w) /\ ByAccounts
      BY <1>0, <2>2, AccountJobs, SpacesElsewhere
         DEF ByAccounts, drafts, Still401, OnwardPcs, LogPcs, CredentialSteps, SpacePcs
    <2>3. CASE AuditStep(w) /\ ByAudit
      BY <1>0, <2>3, AuditJobs, SpacesElsewhere
         DEF ByAudit, drafts, Elsewhere, Still401, LogPcs, CredentialSteps, SpacePcs
    <2>4. CASE ToolStep(w) /\ ByTools
      BY <1>0, <2>4, ToolJobs, SpacesElsewhere
         DEF ByTools, drafts, Elsewhere, SpacePcs, ToolPcs
    <2>5. CASE Denied(w) /\ UNCHANGED drafts
      <3>1. Leads(w, {"rest"})
        BY <1>0, <2>5 DEF Denied, End, Rest, Leads, JobsOK
      <3> QED  BY <2>5, <3>1, SpacesElsewhere DEF drafts, SpacePcs
    <2> QED  BY <1>4, <2>1, <2>2, <2>3, <2>4, <2>5 DEF Continue
  <1>5. CASE Clock
    BY <1>1, <1>5 DEF Clock, Expire, drafts
  <1>6. CASE Restart
    BY <1>6 DEF Restart, SpacesInv, JobsOK, Brings, SpacePcs, Rest
  <1>7. CASE UNCHANGED avars
    BY <1>1, <1>7 DEF avars, drafts
  <1> QED  BY <1>2, <1>3, <1>4, <1>5, <1>6, <1>7 DEF ANext

-----------------------------------------------------------------------------
\* Only the two windows of the limiter are ever over.
WindowsOK == over \subseteq Windows

\* A window ends by name, or all begin anew.
LEMMA WindowsStep == WindowsOK /\ [ANext]_avars => WindowsOK'
  <1> SUFFICES ASSUME WindowsOK, [ANext]_avars PROVE WindowsOK'
    OBVIOUS
  <1>1. CASE Approvals
    BY <1>1 DEF Approvals, limits, WindowsOK
  <1>2. ASSUME NEW w \in Threads, Arrive(w) PROVE WindowsOK'
    BY <1>2 DEF Arrive, Admit, WindowsOK
  <1>3. ASSUME NEW w \in Threads, Continue(w) PROVE WindowsOK'
    BY <1>3 DEF Continue, Denied, limits, WindowsOK
  <1>4. CASE Clock
    BY <1>4 DEF Clock, TurnAway, TimePasses, limits, WindowsOK
  <1>5. CASE Restart
    BY <1>5 DEF Restart, WindowsOK
  <1>6. CASE UNCHANGED avars
    BY <1>6 DEF avars, limits, WindowsOK
  <1> QED  BY <1>1, <1>2, <1>3, <1>4, <1>5, <1>6 DEF ANext

\* What all of it comes to.
AdministrationInv ==
  /\ LimitsInv /\ ApprovalsInv /\ AccountsInv /\ ToolsInv /\ SpacesInv /\ WindowsOK

\* And all of it is so when the server first starts.
LEMMA AdministrationInit == AInit => AdministrationInv
  <1> SUFFICES ASSUME AInit PROVE AdministrationInv
    OBVIOUS
  <1>1. JobsOK /\ job = [w \in Threads |-> Rest]
    BY DEF AInit, JobsOK, Rest
  <1>4. AccountsInv
    <2>1. /\ users = [a \in Addresses |-> NoRow] /\ invites = <<>> /\ sessions = {}
          /\ restarts = 0
      BY DEF AInit, AccountsInit
    <2>2. UsersOK
      BY <2>1 DEF UsersOK, NoRow
    <2>3. \A w \in Threads : Relies(job[w], users, invites)
      BY <1>1 DEF Relies, Rest, AddressPcs, UsingPcs
    <2>4. \A a \in Addresses : users[a].role # "admin"
      BY <2>1 DEF NoRow
    <2>5. DOMAIN invites = {} /\ invites \in Seq(InviteRows)
      BY <2>1
    <2> QED  BY <1>1, <2>1, <2>2, <2>3, <2>4, <2>5 DEF AccountsInv
  <1>5. ToolsInv
    <2>1. tools \in Seq(ToolRows)
      BY DEF AInit, ToolsInit
    <2> QED  BY <1>1, <2>1 DEF ToolsInv, Carries, Rest
  <1>6. SpacesInv
    <2>1. spaces = <<>> /\ flows = <<>>
      BY DEF AInit, SpacesInit
    <2>2. /\ spaces \in Seq(SpaceRows) /\ flows \in Seq(FlowRows) /\ DOMAIN spaces = {}
      BY <2>1
    <2> QED  BY <1>1, <2>2 DEF SpacesInv, Brings, SpacePcs, Rest
  <1>7. WindowsOK
    BY DEF AInit, LimitsInit, WindowsOK
  <1> QED  BY <1>4, <1>5, <1>6, <1>7, LimitsAtFirst, ApprovalsAtFirst DEF AdministrationInv

(***************************************************************************)
(* However the requests of any number of threads overlap, and wherever the *)
(* server is restarted, every row keeps its type, nobody has access or is  *)
(* an administrator without having got it, and without a restart no invite *)
(* is used up in vain.                                                     *)
(***************************************************************************)
THEOREM AccountsStayEarned == ASpec => []AccountsAreEarned
  <1>1. AdministrationInv /\ [ANext]_avars => AdministrationInv'
    BY LimitsStep, ApprovalsGoOn, AccountsStep, ToolsStep, SpacesStep, WindowsStep
       DEF AdministrationInv
  <1>2. AdministrationInv => AccountsAreEarned
    <2> SUFFICES ASSUME AdministrationInv PROVE AccountsAreEarned
      OBVIOUS
    <2>1. \A a \in Addresses :
            /\ users[a].role \in {"none", "user", "admin"}
            /\ users[a] # NoRow <=> users[a].role # "none"
      BY DEF AdministrationInv, AccountsInv, UsersOK, NoRow
    <2>2. \A t \in DOMAIN tools : tools[t].name \in ToolNames \ Builtin
      <3>1. tools \in Seq(ToolRows)
        BY DEF AdministrationInv, ToolsInv
      <3>2. \A t \in DOMAIN tools : tools[t] \in ToolRows
        BY <3>1
      <3> QED  BY <3>2 DEF ToolRows
    <2>3. ATypeOK
      BY <2>1, <2>2
         DEF AdministrationInv, ATypeOK, LimitsInv, ApprovalsInv, SpacesInv, WindowsOK
    <2>4. AccessIsEarned
      BY <2>1 DEF AdministrationInv, AccountsInv, AccessIsEarned
    <2>5. restarts = 0 => InvitesLeadToAccounts
      BY <2>1 DEF AdministrationInv, AccountsInv, InvitesLeadToAccounts, AtSteps, UsingPcs
    <2> QED  BY <2>3, <2>4, <2>5 DEF AccountsAreEarned
  <1> QED  BY <1>1, <1>2, AdministrationInit, PTL DEF ASpec

-----------------------------------------------------------------------------
(***************************************************************************)
(* The dynamic tools come to rest as they were approved.  First, what a    *)
(* step can do to them at all.                                             *)
(***************************************************************************)
EditPcs    == {"edit_look", "edit_name", "edit_write"}
ApprovePcs == {"approve_look", "approve_write"}

\* The tools rest, and no thread is brought to a step of theirs.
ToolsRest ==
  /\ UNCHANGED toolvars
  /\ \A w \in Threads : job'[w] = job[w] \/ job'[w].pc \notin ToolPcs

\* The server is started again.
RegistryRead ==
  /\ LoadRegistry /\ UNCHANGED <<tools, late>>
  /\ \A w \in Threads : job'[w] = Rest

LEMMA ToolEvents ==
  ASSUME ToolsInv, [ANext]_avars
  PROVE  \/ \E w \in Threads : ToolStep(w) \/ ToolRequest(w)
         \/ ToolsRest \/ RegistryRead
  <1>0. JobsOK
    BY DEF ToolsInv
  <1>1. ASSUME UNCHANGED <<job, toolvars>> PROVE ToolsRest
    BY <1>1 DEF ToolsRest
  <1>2. ASSUME NEW w \in Threads, NEW steps, Leads(w, steps), steps \cap ToolPcs = {},
               UNCHANGED toolvars
        PROVE  ToolsRest
    BY <1>0, <1>2 DEF ToolsRest, Leads, JobsOK
  <1>3. CASE Approvals \/ Clock \/ UNCHANGED avars
    BY <1>1, <1>3 DEF Approvals, Clock, Expire, avars
  <1>4. ASSUME NEW w \in Threads, Arrive(w), ~ToolRequest(w) PROVE ToolsRest
    <2>1. CASE (AccountRequest(w) \/ \E a \in Addresses : Verify(w, a)) /\ ByAccounts
      BY <1>0, <1>2, <2>1, AccountRequests DEF ByAccounts, SignInPcs, ToolPcs
    <2>2. CASE AuditRequest(w) /\ ByAudit
      BY <1>0, <1>2, <2>2, AuditJobs
         DEF ByAudit, Elsewhere, Still401, LogPcs, CredentialSteps, ToolPcs
    <2>3. CASE SpaceRequest(w) /\ ByWorkspaces
      BY <1>0, <1>2, <2>3, SpaceJobs DEF ByWorkspaces, Elsewhere, SpacePcs, ToolPcs
    <2> QED  BY <1>4, <2>1, <2>2, <2>3 DEF Arrive
  <1>5. ASSUME NEW w \in Threads, Continue(w), ~ToolStep(w) PROVE ToolsRest
    <2>1. CASE AccountStep(w) /\ ByAccounts
      BY <1>0, <1>2, <2>1, AccountJobs
         DEF ByAccounts, Still401, OnwardPcs, LogPcs, CredentialSteps, ToolPcs
    <2>2. CASE AuditStep(w) /\ ByAudit
      BY <1>0, <1>2, <2>2, AuditJobs
         DEF ByAudit, Elsewhere, Still401, LogPcs, CredentialSteps, ToolPcs
    <2>3. CASE SpaceStep(w) /\ ByWorkspaces
      BY <1>0, <1>2, <2>3, SpaceJobs DEF ByWorkspaces, Elsewhere, SpacePcs, ToolPcs
    <2>4. CASE Denied(w) /\ UNCHANGED toolvars
      <3>1. Leads(w, {"rest"})
        BY <1>0, <2>4 DEF Denied, End, Rest, Leads, JobsOK
      <3> QED  BY <1>2, <2>4, <3>1 DEF ToolPcs
    <2> QED  BY <1>5, <2>1, <2>2, <2>3, <2>4 DEF Continue
  <1>6. CASE Restart
    BY <1>6 DEF Restart, RegistryRead
  <1> QED  BY <1>3, <1>4, <1>5, <1>6 DEF ANext

\* What a thread does with its job.
LEMMA JobMoves ==
  ASSUME ToolsInv, NEW w \in Threads
  PROVE  /\ End(w) => job'[w] = Rest
         /\ \A j : Begin(w, j) => job[w] = Rest /\ job'[w] = j
         /\ \A pc : Goto(w, pc) =>
              /\ job'[w] = [job[w] EXCEPT !.pc = pc]
              /\ DOMAIN job'[w] = DOMAIN job[w] /\ job'[w].pc = pc
              /\ \A f \in DOMAIN job[w] \ {"pc"} : job'[w][f] = job[w][f]
         /\ ToolStep(w) \/ ToolRequest(w) =>
              \A v \in Threads : v # w => job'[v] = job[v]
  <1>1. JobsOK
    BY DEF ToolsInv
  <1>2. ToolStep(w) \/ ToolRequest(w) => \A v \in Threads : v # w => job'[v] = job[v]
    BY <1>1, ToolJobs DEF JobsOK, Elsewhere, Leads
  <1> QED  BY <1>1, <1>2 DEF JobsOK, End, Begin, Goto

(***************************************************************************)
(* Rows and registry: a tool is approved, for good, with a valid config,   *)
(* and any edit of a config is valid as well.                              *)
(***************************************************************************)
RowSound(t) ==
  /\ late[t] \in Nat
  /\ tools[t].approved => tools[t].config \in Valid
  /\ ~tools[t].approved => late[t] = 0

RequestSound(w) ==
  /\ job[w].pc \in EditPcs \cup ApprovePcs => job[w].tool \in DOMAIN tools
  /\ job[w].pc = "approve_write" => tools[job[w].tool].config \in Valid

OfferSound(r) ==
  /\ r.row \in DOMAIN tools /\ tools[r.row].approved
  /\ r.config \in Valid /\ r.name \notin Builtin

SoundInv ==
  /\ ToolsInv
  /\ late \in Seq(Nat) /\ Len(late) = Len(tools)
  /\ \A t \in DOMAIN tools : RowSound(t)
  /\ \A w \in Threads : RequestSound(w)
  /\ \A r \in registry : OfferSound(r)
  /\ \A r, s \in registry : r.name = s.name => r = s

\* The rows there are stay there, approved and valid.
Kept ==
  /\ DOMAIN tools \subseteq DOMAIN tools'
  /\ \A t \in DOMAIN tools :
       /\ tools[t].approved => tools'[t].approved
       /\ tools[t].config \in Valid => tools'[t].config \in Valid

LEMMA SoundStep ==
  ASSUME SoundInv, ToolsInv', Kept, registry' = registry,
         late' \in Seq(Nat), Len(late') = Len(tools'),
         \A t \in DOMAIN tools' : RowSound(t)',
         \A v \in Threads : job'[v] = job[v] \/ RequestSound(v)'
  PROVE  SoundInv'
  <1>1. \A v \in Threads : RequestSound(v)'
    <2> SUFFICES ASSUME NEW v \in Threads, job'[v] = job[v] PROVE RequestSound(v)'
      OBVIOUS
    <2>1. RequestSound(v)
      BY DEF SoundInv
    <2> QED  BY <2>1 DEF RequestSound, Kept, EditPcs, ApprovePcs
  <1>2. \A r \in registry' : OfferSound(r)'
    BY DEF SoundInv, OfferSound, Kept
  <1> QED  BY <1>1, <1>2 DEF SoundInv

\* A sequence ends with its domain.
LEMMA SameLengthRows ==
  ASSUME NEW S, NEW rs \in Seq(S), NEW n \in Nat, DOMAIN rs = 1 .. n
  PROVE  Len(rs) = n
  OBVIOUS

\* The three writes.
LEMMA WritesAreSound ==
  ASSUME SoundInv, ToolsInv', NEW w \in Threads,
         CreateInsert(w) \/ EditWrite(w) \/ ApproveWrite(w)
  PROVE  SoundInv'
  <1>0. /\ ToolsInv /\ tools \in Seq(ToolRows) /\ Carries(job[w]) /\ RequestSound(w)
        /\ \A t \in DOMAIN tools : tools[t] \in ToolRows /\ RowSound(t)
        /\ late \in Seq(Nat) /\ DOMAIN late = DOMAIN tools
    BY DEF SoundInv, ToolsInv
  <1>1. job'[w] = Rest /\ \A v \in Threads : v # w => job'[v] = job[v]
    BY <1>0, JobMoves DEF CreateInsert, EditWrite, ApproveWrite, ToolStep
  <1>2. \A v \in Threads : job'[v] = job[v] \/ RequestSound(v)'
    BY <1>1 DEF RequestSound, Rest, EditPcs, ApprovePcs
  <1>3. CASE CreateInsert(w)
    <2> DEFINE row == [name |-> job[w].name, config |-> job[w].config,
                       enabled |-> FALSE, approved |-> FALSE]
    <2>1. tools' = Append(tools, row) /\ late' = Append(late, 0) /\ registry' = registry
      BY <1>3 DEF CreateInsert
    <2>2. /\ late' \in Seq(Nat) /\ Len(late') = Len(tools')
          /\ DOMAIN tools' = DOMAIN tools \cup {Len(tools) + 1}
          /\ tools'[Len(tools) + 1] = row /\ late'[Len(tools) + 1] = 0
          /\ \A t \in DOMAIN tools : tools'[t] = tools[t] /\ late'[t] = late[t]
      BY <1>0, <2>1
    <2>3. Kept
      BY <2>2 DEF Kept
    <2>4. \A t \in DOMAIN tools' : RowSound(t)'
      BY <1>0, <2>2 DEF RowSound
    <2> QED  BY <1>2, <2>1, <2>2, <2>3, <2>4, SoundStep
  <1>4. CASE EditWrite(w)
    <2> DEFINE t == job[w].tool
               e == job[w].edit
    <2>1. t \in DOMAIN tools /\ e \in Edits
      BY <1>0, <1>4 DEF EditWrite, At, RequestSound, Carries, EditPcs
    <2>2. /\ DOMAIN tools' = DOMAIN tools /\ Len(tools') = Len(tools)
          /\ \A s \in DOMAIN tools : s # t => tools'[s] = tools[s]
          /\ tools'[t].approved = tools[t].approved
          /\ tools'[t].config \in {tools[t].config} \cup Valid
      BY <1>0, <1>4, <2>1 DEF EditWrite, Edits, ToolRows
    <2>3. /\ late' \in Seq(Nat) /\ Len(late') = Len(late)
          /\ \A s \in DOMAIN tools : s # t => late'[s] = late[s]
          /\ ~tools[t].approved => late'[t] = late[t]
      BY <1>0, <1>4, <2>1 DEF EditWrite
    <2>4. Kept /\ Len(late') = Len(tools')
      BY <2>1, <2>2, <2>3 DEF Kept, SoundInv
    <2>5. \A s \in DOMAIN tools' : late'[s] \in Nat
      BY <2>3, <2>4
    <2>6. \A s \in DOMAIN tools' : RowSound(s)'
      BY <1>0, <2>1, <2>2, <2>3, <2>5 DEF RowSound
    <2> QED  BY <1>2, <1>4, <2>3, <2>4, <2>6, SoundStep DEF EditWrite
  <1>5. CASE ApproveWrite(w)
    <2> DEFINE t == job[w].tool
    <2>1. t \in DOMAIN tools /\ tools[t].config \in Valid
      BY <1>0, <1>5 DEF ApproveWrite, At, RequestSound, ApprovePcs
    <2>2. tools' = [tools EXCEPT ![t] = [tools[t] EXCEPT !.approved = TRUE, !.enabled = TRUE]]
      BY <1>5, BothSet DEF ApproveWrite
    <2>3. /\ DOMAIN tools' = DOMAIN tools /\ Len(tools') = Len(tools)
          /\ \A s \in DOMAIN tools : s # t => tools'[s] = tools[s]
          /\ tools'[t].approved /\ tools'[t].config = tools[t].config
      <3> DEFINE row == [tools[t] EXCEPT !.approved = TRUE, !.enabled = TRUE]
      <3>1. row.approved /\ row.config = tools[t].config
        BY <1>0, <2>1 DEF ToolRows
      <3> HIDE DEF row
      <3>2. tools' = [tools EXCEPT ![t] = row]
        BY <2>2 DEF row
      <3>3. tools \in [1 .. Len(tools) -> ToolRows] /\ Len(tools) \in Nat
        BY <1>0
      <3>4. /\ DOMAIN tools' = 1 .. Len(tools) /\ tools'[t] = row
            /\ \A s \in DOMAIN tools : s # t => tools'[s] = tools[s]
        BY <2>1, <3>2, <3>3
      <3>5. Len(tools') = Len(tools)
        <4>1. tools' \in Seq(ToolRows)
          BY DEF ToolsInv
        <4> QED  BY <3>3, <3>4, <4>1, SameLengthRows
      <3> QED  BY <3>1, <3>3, <3>4, <3>5
    <2>4. late' = late /\ registry' = registry
      BY <1>5 DEF ApproveWrite
    <2>5. Kept /\ Len(late') = Len(tools')
      BY <2>1, <2>3, <2>4 DEF Kept, SoundInv
    <2>6. \A s \in DOMAIN tools' : RowSound(s)'
      BY <1>0, <2>1, <2>3, <2>4 DEF RowSound
    <2> QED  BY <1>0, <1>2, <2>4, <2>5, <2>6, SoundStep
  <1> QED  BY <1>3, <1>4, <1>5

\* Looking at a tool writes nothing, and an approval is decided by its config.
LEMMA LooksAreSound ==
  ASSUME SoundInv, ToolsInv', NEW w \in Threads,
         ToolStep(w) \/ ToolRequest(w),
         ~CreateInsert(w), ~EditWrite(w), ~ApproveWrite(w)
  PROVE  UNCHANGED toolvars /\ RequestSound(w)'
  <1>0. ToolsInv /\ Carries(job[w]) /\ RequestSound(w)
    BY DEF SoundInv, ToolsInv
  <1> USE DEF RequestSound, EditPcs, ApprovePcs
  <1>1. CASE End(w) /\ UNCHANGED toolvars
    BY <1>0, <1>1, JobMoves DEF Rest
  <1>2. ASSUME NEW pc, Goto(w, pc), UNCHANGED toolvars,
               job[w].pc \in EditPcs \cup ApprovePcs,
               pc = "approve_write" => tools[job[w].tool].config \in Valid
        PROVE  UNCHANGED toolvars /\ RequestSound(w)'
    BY <1>0, <1>2, JobMoves, ZenonT(60) DEF toolvars, Carries
  <1>3. CASE CreateLook(w)
    <2>1. CASE Goto(w, "create_insert")
      <3>1. job'[w].pc = "create_insert"
        BY <1>0, <2>1, JobMoves
      <3> QED  BY <1>3, <3>1 DEF CreateLook
    <2> QED  BY <1>1, <1>3, <2>1 DEF CreateLook
  <1>4. CASE EditLook(w)
    BY <1>1, <1>2, <1>4 DEF EditLook, At
  <1>5. CASE EditName(w)
    BY <1>1, <1>2, <1>5 DEF EditName, At
  <1>6. CASE ApproveLook(w)
    BY <1>1, <1>2, <1>6 DEF ApproveLook, At, Accepted
  <1>7. CASE ToolRequest(w)
    <2>1. ASSUME NEW n \in ToolNames, NEW c \in Configs, CreateTool(w, n, c)
          PROVE  UNCHANGED toolvars /\ RequestSound(w)'
      BY <1>0, <2>1, JobMoves DEF CreateTool
    <2>2. ASSUME NEW t \in DOMAIN tools, ApproveTool(w, t)
          PROVE  UNCHANGED toolvars /\ RequestSound(w)'
      BY <1>0, <2>2, JobMoves DEF ApproveTool, toolvars
    <2>3. ASSUME NEW t \in DOMAIN tools, NEW e \in Edits, EditTool(w, t, e)
          PROVE  UNCHANGED toolvars /\ RequestSound(w)'
      BY <1>0, <2>3, JobMoves DEF EditTool, toolvars
    <2> QED  BY <1>7, <2>1, <2>2, <2>3 DEF ToolRequest
  <1> QED  BY <1>3, <1>4, <1>5, <1>6, <1>7 DEF ToolStep

\* The registry takes what is approved, and of a name the last row.
LEMMA RegistryIsSound ==
  ASSUME SoundInv, ToolsInv', RegistryRead
  PROVE  SoundInv'
  <1>1. \A t \in DOMAIN tools : tools[t].approved => tools[t].config \in Valid
    BY DEF SoundInv, RowSound
  <1>2. \A r \in registry' : OfferSound(r)'
    BY <1>1 DEF RegistryRead, LoadRegistry, Offered, OfferSound
  <1>3. ASSUME NEW r \in registry', NEW s \in registry', r.name = s.name PROVE r = s
    <2>1. PICK t \in Offered :
            /\ r = [name |-> tools[t].name, config |-> tools[t].config, row |-> t]
            /\ \A v \in Offered : tools[v].name = tools[t].name => v <= t
      BY DEF RegistryRead, LoadRegistry
    <2>2. PICK u \in Offered :
            /\ s = [name |-> tools[u].name, config |-> tools[u].config, row |-> u]
            /\ \A v \in Offered : tools[v].name = tools[u].name => v <= u
      BY DEF RegistryRead, LoadRegistry
    <2>3. tools[t].name = tools[u].name
      BY <1>3, <2>1, <2>2
    <2>4. t \in Nat /\ u \in Nat
      BY DEF Offered, SoundInv, ToolsInv
    <2>5. t = u
      BY <2>1, <2>2, <2>3, <2>4
    <2> QED  BY <2>1, <2>2, <2>5
  <1>4. \A w \in Threads : RequestSound(w)'
    BY DEF RegistryRead, RequestSound, Rest, EditPcs, ApprovePcs
  <1>5. \A t \in DOMAIN tools' : RowSound(t)'
    BY DEF RegistryRead, SoundInv, RowSound
  <1> QED  BY <1>2, <1>3, <1>4, <1>5 DEF SoundInv, RegistryRead

LEMMA SoundHolds == SoundInv /\ [ANext]_avars => SoundInv'
  <1> SUFFICES ASSUME SoundInv, [ANext]_avars PROVE SoundInv'
    OBVIOUS
  <1>1. ToolsInv' /\ ToolsInv
    BY ToolsStep DEF SoundInv
  <1>2. ASSUME UNCHANGED toolvars, \A v \in Threads : job'[v] = job[v] \/ RequestSound(v)'
        PROVE  SoundInv'
    <2>1. /\ \A t \in DOMAIN tools' : RowSound(t)'
          /\ Kept /\ registry' = registry /\ late' \in Seq(Nat) /\ Len(late') = Len(tools')
      BY <1>2 DEF toolvars, SoundInv, RowSound, Kept
    <2> QED  BY <1>1, <1>2, <2>1, SoundStep
  <1>3. ASSUME NEW w \in Threads, ToolStep(w) \/ ToolRequest(w) PROVE SoundInv'
    <2>1. CASE CreateInsert(w) \/ EditWrite(w) \/ ApproveWrite(w)
      BY <1>1, <2>1, WritesAreSound
    <2>2. CASE ~CreateInsert(w) /\ ~EditWrite(w) /\ ~ApproveWrite(w)
      BY <1>1, <1>2, <1>3, <2>2, LooksAreSound, JobMoves
    <2> QED  BY <2>1, <2>2
  <1>4. CASE ToolsRest
    <2>1. \A v \in Threads : job'[v] = job[v] \/ RequestSound(v)'
      BY <1>4 DEF ToolsRest, RequestSound, EditPcs, ApprovePcs, ToolPcs
    <2> QED  BY <1>2, <1>4, <2>1 DEF ToolsRest
  <1> QED  BY <1>1, <1>3, <1>4, ToolEvents, RegistryIsSound

\* A request begins with a look at the rows.
LEMMA RequestsLook ==
  ASSUME ToolsInv, NEW w \in Threads, ToolRequest(w)
  PROVE  /\ UNCHANGED toolvars
         /\ job'[w].pc \in {"create_look", "edit_look", "approve_look"}
  <1>1. ASSUME NEW j, Begin(w, j), UNCHANGED toolvars,
               j.pc \in {"create_look", "edit_look", "approve_look"}
        PROVE  /\ UNCHANGED toolvars
               /\ job'[w].pc \in {"create_look", "edit_look", "approve_look"}
    BY <1>1, JobMoves
  <1>2. ASSUME NEW n \in ToolNames, NEW c \in Configs, CreateTool(w, n, c)
        PROVE  /\ UNCHANGED toolvars
               /\ job'[w].pc \in {"create_look", "edit_look", "approve_look"}
    BY <1>1, <1>2 DEF CreateTool
  <1>3. ASSUME NEW t \in DOMAIN tools, ApproveTool(w, t)
        PROVE  /\ UNCHANGED toolvars
               /\ job'[w].pc \in {"create_look", "edit_look", "approve_look"}
    BY <1>1, <1>3 DEF ApproveTool
  <1>4. ASSUME NEW t \in DOMAIN tools, NEW e \in Edits, EditTool(w, t, e)
        PROVE  /\ UNCHANGED toolvars
               /\ job'[w].pc \in {"create_look", "edit_look", "approve_look"}
    BY <1>1, <1>4 DEF EditTool
  <1> QED  BY <1>2, <1>3, <1>4 DEF ToolRequest

(***************************************************************************)
(* Late edits: each was let in before the approval by a thread that is not *)
(* the one that approves, and nobody is let in afterwards.                 *)
(***************************************************************************)
LEMMA FewerThreads ==
  ASSUME NEW S, NEW R, S \subseteq Threads, R \subseteq S
  PROVE  /\ IsFiniteSet(R) /\ Cardinality(R) \in Nat /\ Cardinality(S) \in Nat
         /\ Cardinality(R) <= Cardinality(S) /\ Cardinality(S) <= Cardinality(Threads)
         /\ Cardinality(Threads) \in Nat
         /\ \A w \in S : w \notin R => Cardinality(R) <= Cardinality(S) - 1
  <1>1. IsFiniteSet(S) /\ IsFiniteSet(R)
    BY ThreadsAssumption, FS_Subset
  <1>2. ASSUME NEW w \in S, w \notin R PROVE Cardinality(R) <= Cardinality(S) - 1
    <2>1. Cardinality(S \ {w}) = Cardinality(S) - 1 /\ IsFiniteSet(S \ {w})
      BY <1>1, FS_RemoveElement
    <2> QED  BY <1>2, <2>1, FS_Subset
  <1> QED  BY <1>1, <1>2, ThreadsAssumption, FS_Subset, FS_CardinalityType

\* Nobody is let in to an approved tool.
LEMMA NobodyLetIn ==
  ASSUME SoundInv, EditsSettle, late' = late,
         \A t \in DOMAIN tools' : tools'[t].approved =>
           t \in DOMAIN tools /\ tools[t].approved /\ Writing(t)' \subseteq Writing(t)
  PROVE  EditsSettle'
  <1> SUFFICES ASSUME NEW t \in DOMAIN tools', tools'[t].approved
               PROVE  late'[t] + Cardinality(Writing(t)') < Cardinality(Threads)
    BY DEF EditsSettle
  <1>1. /\ t \in DOMAIN tools /\ tools[t].approved /\ Writing(t)' \subseteq Writing(t)
        /\ late[t] \in Nat
    BY DEF SoundInv, RowSound
  <1>2. late[t] + Cardinality(Writing(t)) < Cardinality(Threads)
    BY <1>1 DEF EditsSettle
  <1>3. Writing(t) \subseteq Threads
    BY DEF Writing, AtSteps
  <1> QED  BY <1>1, <1>2, <1>3, FewerThreads

\* A thread that is not brought to the write of an edit is no new writer.
LEMMA NoNewWriter ==
  ASSUME NEW w \in Threads, \A v \in Threads : v # w => job'[v] = job[v],
         \/ job'[w].pc \notin {"edit_name", "edit_write"}
         \/ job[w].pc \in {"edit_name", "edit_write"} /\ job'[w].tool = job[w].tool
  PROVE  \A t : Writing(t)' \subseteq Writing(t)
  BY DEF Writing, AtSteps

LEMMA EditsHold ==
  ASSUME SoundInv, EditsSettle, [ANext]_avars
  PROVE  EditsSettle'
  <1>0. ToolsInv /\ \A w \in Threads : Carries(job[w]) /\ RequestSound(w)
    BY DEF SoundInv, ToolsInv
  <1>1. ASSUME UNCHANGED toolvars, \A t : Writing(t)' \subseteq Writing(t) PROVE EditsSettle'
    BY <1>1, NobodyLetIn DEF toolvars
  <1>2. ASSUME NEW w \in Threads, ToolStep(w) \/ ToolRequest(w) PROVE EditsSettle'
    <2>0. \A v \in Threads : v # w => job'[v] = job[v]
      BY <1>0, <1>2, JobMoves
    <2>1. ASSUME End(w) \/ Goto(w, "create_insert") \/ Goto(w, "approve_write")
          PROVE  /\ \A t : Writing(t)' \subseteq Writing(t)
                 /\ \A t : w \notin Writing(t)'
      <3>1. job'[w].pc \in {"rest", "create_insert", "approve_write"}
        <4>1. CASE End(w)
          BY <1>0, <4>1, JobMoves DEF Rest
        <4>2. CASE \E pc \in {"create_insert", "approve_write"} : Goto(w, pc)
          BY <1>0, <4>2, JobMoves
        <4> QED  BY <2>1, <4>1, <4>2
      <3> QED  BY <2>0, <3>1, NoNewWriter DEF Writing, AtSteps
    <2>2. CASE CreateLook(w) \/ ApproveLook(w)
      BY <1>1, <2>1, <2>2 DEF CreateLook, ApproveLook
    <2>3. CASE CreateInsert(w)
      <3>1. \A t : Writing(t)' \subseteq Writing(t)
        BY <2>1, <2>3 DEF CreateInsert
      <3> DEFINE row == [name |-> job[w].name, config |-> job[w].config,
                         enabled |-> FALSE, approved |-> FALSE]
      <3>2. tools' = Append(tools, row) /\ late' = Append(late, 0)
        BY <2>3 DEF CreateInsert
      <3>3. /\ DOMAIN tools' = DOMAIN tools \cup {Len(tools) + 1}
            /\ tools'[Len(tools) + 1] = row
            /\ \A t \in DOMAIN tools : tools'[t] = tools[t] /\ late'[t] = late[t]
        BY <3>2 DEF SoundInv, ToolsInv
      <3> SUFFICES ASSUME NEW t \in DOMAIN tools', tools'[t].approved
                   PROVE  late'[t] + Cardinality(Writing(t)') < Cardinality(Threads)
        BY DEF EditsSettle
      <3>4. t \in DOMAIN tools /\ tools[t].approved /\ late'[t] = late[t] /\ late[t] \in Nat
        BY <3>3 DEF SoundInv, RowSound
      <3>5. late[t] + Cardinality(Writing(t)) < Cardinality(Threads)
        BY <3>4 DEF EditsSettle
      <3>6. Writing(t) \subseteq Threads
        BY DEF Writing, AtSteps
      <3> QED  BY <3>1, <3>4, <3>5, <3>6, FewerThreads
    <2>4. CASE EditLook(w)
      <3>1. CASE End(w)
        BY <1>1, <2>1, <2>4, <3>1 DEF EditLook
      <3>2. CASE ~End(w)
        <4>1. PICK pc : Goto(w, pc) /\ ~tools[job[w].tool].approved
          BY <2>4, <3>2 DEF EditLook
        <4>2. job'[w].tool = job[w].tool
          BY <1>0, <2>4, <4>1, JobMoves, ZenonT(60) DEF EditLook, At, Carries
        <4>3. ASSUME NEW t, tools[t].approved PROVE Writing(t)' \subseteq Writing(t)
          BY <2>0, <4>1, <4>2, <4>3 DEF Writing, AtSteps
        <4> QED  BY <2>4, <4>3, NobodyLetIn DEF EditLook, toolvars
      <3> QED  BY <3>1, <3>2
    <2>5. CASE EditName(w)
      <3>1. CASE End(w)
        BY <1>1, <2>1, <2>5, <3>1 DEF EditName
      <3>2. CASE Goto(w, "edit_write")
        <4>1. job'[w].tool = job[w].tool
          BY <1>0, <2>5, <3>2, JobMoves DEF EditName, At, Carries
        <4>2. job[w].pc \in {"edit_name", "edit_write"}
          BY <2>5 DEF EditName, At
        <4> QED  BY <1>1, <2>0, <2>5, <4>1, <4>2, NoNewWriter DEF EditName
      <3> QED  BY <2>5, <3>1, <3>2 DEF EditName
    <2>6. CASE EditWrite(w)
      <3> DEFINE t == job[w].tool
      <3>1. /\ t \in DOMAIN tools /\ w \in Writing(t)
        BY <1>0, <2>6 DEF EditWrite, At, RequestSound, EditPcs, Writing, AtSteps
      <3>2. /\ \A s : Writing(s)' \subseteq Writing(s)
            /\ \A s : w \notin Writing(s)'
        BY <2>1, <2>6 DEF EditWrite
      <3>3. /\ DOMAIN tools' = DOMAIN tools
            /\ \A s \in DOMAIN tools : s # t => tools'[s] = tools[s]
            /\ tools'[t].approved = tools[t].approved
        <4>1. job[w].edit \in Edits /\ tools[t] \in ToolRows
          BY <1>0, <2>6, <3>1 DEF EditWrite, At, Carries, SoundInv, ToolsInv
        <4> QED  BY <1>0, <2>6, <3>1, <4>1 DEF EditWrite, Edits, ToolRows, ToolsInv
      <3>4. /\ \A s \in DOMAIN tools : late[s] \in Nat
            /\ \A s \in DOMAIN tools : s # t => late'[s] = late[s]
            /\ tools[t].approved => late'[t] = late[t] + 1
        BY <2>6, <3>1 DEF EditWrite, SoundInv, RowSound
      <3> SUFFICES ASSUME NEW s \in DOMAIN tools, tools'[s].approved
                   PROVE  late'[s] + Cardinality(Writing(s)') < Cardinality(Threads)
        BY <3>3 DEF EditsSettle
      <3>5. tools[s].approved /\ late[s] \in Nat
        BY <3>1, <3>3, <3>4
      <3>6. late[s] + Cardinality(Writing(s)) < Cardinality(Threads)
        BY <3>5 DEF EditsSettle
      <3>7. Writing(s) \subseteq Threads
        BY DEF Writing, AtSteps
      <3>8. CASE s = t
        <4>1. /\ Cardinality(Writing(s)') <= Cardinality(Writing(s)) - 1
              /\ Cardinality(Writing(s)') \in Nat /\ Cardinality(Writing(s)) \in Nat
              /\ Cardinality(Threads) \in Nat
          BY <3>1, <3>2, <3>7, <3>8, FewerThreads
        <4>2. late'[s] = late[s] + 1
          BY <3>4, <3>5, <3>8
        <4> QED  BY <3>5, <3>6, <4>1, <4>2
      <3>9. CASE s # t
        <4>1. late'[s] = late[s]
          BY <3>4, <3>9
        <4> QED  BY <3>2, <3>5, <3>6, <3>7, <4>1, FewerThreads
      <3> QED  BY <3>8, <3>9
    <2>7. CASE ApproveWrite(w)
      <3> DEFINE t == job[w].tool
      <3>1. /\ \A s : Writing(s)' \subseteq Writing(s)
            /\ \A s : w \notin Writing(s)'
        BY <2>1, <2>7 DEF ApproveWrite
      <3>2. t \in DOMAIN tools /\ late' = late
        BY <1>0, <2>7 DEF ApproveWrite, At, RequestSound, ApprovePcs
      <3>3. tools' = [tools EXCEPT ![t] = [tools[t] EXCEPT !.approved = TRUE, !.enabled = TRUE]]
        BY <2>7, BothSet DEF ApproveWrite
      <3>4. /\ DOMAIN tools' = DOMAIN tools
            /\ \A s \in DOMAIN tools : s # t => tools'[s] = tools[s]
        BY <1>0, <3>3 DEF ToolsInv
      <3> SUFFICES ASSUME NEW s \in DOMAIN tools, tools'[s].approved
                   PROVE  late[s] + Cardinality(Writing(s)') < Cardinality(Threads)
        BY <3>2, <3>4 DEF EditsSettle
      <3>5. Writing(s) \subseteq Threads /\ late[s] \in Nat
        BY DEF Writing, AtSteps, SoundInv, RowSound
      <3>6. CASE tools[s].approved
        <4>1. late[s] + Cardinality(Writing(s)) < Cardinality(Threads)
          BY <3>6 DEF EditsSettle
        <4> QED  BY <3>1, <3>5, <4>1, FewerThreads
      <3>7. CASE ~tools[s].approved
        <4>1. s = t /\ late[s] = 0
          BY <3>4, <3>7 DEF SoundInv, RowSound
        <4>2. Writing(s)' \subseteq Threads /\ w \notin Writing(s)'
          BY <3>1, <3>5, <4>1
        <4>3. /\ Cardinality(Writing(s)') <= Cardinality(Threads) - 1
              /\ Cardinality(Writing(s)') \in Nat /\ Cardinality(Threads) \in Nat
          BY <4>2, FewerThreads
        <4> QED  BY <4>1, <4>3
      <3> QED  BY <3>6, <3>7
    <2>8. CASE ToolRequest(w)
      <3>1. job'[w].pc \in {"create_look", "edit_look", "approve_look"}
        BY <1>0, <2>8, RequestsLook
      <3> QED  BY <1>0, <1>1, <2>0, <2>8, <3>1, RequestsLook, NoNewWriter
    <2> QED
      BY <1>2, <2>2, <2>3, <2>4, <2>5, <2>6, <2>7, <2>8 DEF ToolStep
  <1>3. CASE ToolsRest
    <2>1. \A t : Writing(t)' \subseteq Writing(t)
      BY <1>3 DEF ToolsRest, Writing, AtSteps, ToolPcs
    <2> QED  BY <1>1, <1>3, <2>1 DEF ToolsRest
  <1>4. CASE RegistryRead
    <2>1. \A t : Writing(t)' \subseteq Writing(t)
      BY <1>4 DEF RegistryRead, Writing, AtSteps, Rest
    <2> QED  BY <1>4, <2>1, NobodyLetIn DEF RegistryRead
  <1> QED  BY <1>0, <1>2, <1>3, <1>4, ToolEvents

(***************************************************************************)
(* Names: a thread may bring a name only if at its look nobody had it but  *)
(* the tool it renames.  A rename to the name a tool has already adds none *)
(* now, but would if that tool were renamed meanwhile: so all who bring a  *)
(* name are counted, against one place more.                               *)
(***************************************************************************)
Bringing(n) == {w \in AtSteps({"create_insert", "edit_write"}) :
                  \/ At(w, "create_insert") /\ job[w].name = n
                  \/ /\ At(w, "edit_write") /\ job[w].edit.field = "name"
                     /\ job[w].edit.value = n}

NameFits(n) ==
  /\ Cardinality(Named(n)) + Cardinality(Naming(n)) <= Cardinality(Threads)
  /\ Cardinality(Named(n)) + Cardinality(Bringing(n)) <= Cardinality(Threads) + 1

LEMMA NameSets ==
  ASSUME ToolsInv, NEW n
  PROVE  /\ Naming(n) \subseteq Bringing(n) /\ Bringing(n) \subseteq Threads
         /\ IsFiniteSet(Named(n)) /\ Cardinality(Named(n)) \in Nat
         /\ Cardinality(Threads) \in Nat
         /\ Cardinality(Naming(n)) \in Nat /\ Cardinality(Bringing(n)) \in Nat
         /\ Cardinality(Naming(n)) <= Cardinality(Bringing(n))
  <1>1. Naming(n) \subseteq Bringing(n) /\ Bringing(n) \subseteq Threads
    BY DEF Naming, Bringing, AtSteps, At
  <1>2. IsFiniteSet(Named(n))
    <2>1. DOMAIN tools = 1 .. Len(tools) /\ Len(tools) \in Nat
      BY DEF ToolsInv
    <2>2. IsFiniteSet(1 .. Len(tools))
      BY <2>1, FS_Interval
    <2> QED  BY <2>1, <2>2, FS_Subset DEF Named
  <1> QED  BY <1>1, <1>2, FS_CardinalityType, FewerThreads

\* Nobody new brings the name, and nobody gets it.
LEMMA NameRests ==
  ASSUME ToolsInv, ToolsInv', NEW n, NameFits(n), Named(n)' = Named(n),
         Bringing(n)' \subseteq Bringing(n), Naming(n)' \subseteq Naming(n)
  PROVE  NameFits(n)'
  <1>1. /\ Cardinality(Bringing(n)') <= Cardinality(Bringing(n))
        /\ Cardinality(Naming(n)') <= Cardinality(Naming(n))
        /\ Cardinality(Bringing(n)') \in Nat /\ Cardinality(Naming(n)') \in Nat
    BY NameSets, FewerThreads
  <1> QED  BY <1>1, NameSets DEF NameFits

\* A thread passes its look.
LEMMA NameLooked ==
  ASSUME ToolsInv, ToolsInv', NEW w \in Threads, NEW n, NEW t,
         Named(n)' = Named(n), Named(n) \subseteq {t},
         t \in Named(n) => w \notin Naming(n)'
  PROVE  NameFits(n)'
  <1>1. /\ Naming(n)' \subseteq Threads /\ Bringing(n)' \subseteq Threads
    BY DEF Naming, Bringing, AtSteps
  <1>2. CASE Named(n) = {}
    <2>1. Cardinality(Named(n)') = 0
      BY <1>2, FS_EmptySet
    <2>2. /\ Cardinality(Naming(n)') <= Cardinality(Threads)
          /\ Cardinality(Bringing(n)') <= Cardinality(Threads)
          /\ Cardinality(Naming(n)') \in Nat /\ Cardinality(Bringing(n)') \in Nat
          /\ Cardinality(Threads) \in Nat
      BY <1>1, FewerThreads
    <2> QED  BY <2>1, <2>2 DEF NameFits
  <1>3. CASE Named(n) = {t}
    <2>1. Cardinality(Named(n)') = 1
      BY <1>3, FS_Singleton
    <2>2. /\ Cardinality(Naming(n)') <= Cardinality(Threads) - 1
          /\ Cardinality(Bringing(n)') <= Cardinality(Threads)
          /\ Cardinality(Naming(n)') \in Nat /\ Cardinality(Bringing(n)') \in Nat
          /\ Cardinality(Threads) \in Nat
      BY <1>1, <1>3, FewerThreads
    <2> QED  BY <2>1, <2>2 DEF NameFits
  <1> QED  BY <1>2, <1>3

\* A thread writes the name it brought.
LEMMA NameWritten ==
  ASSUME ToolsInv, ToolsInv', NEW w \in Threads, NEW n, NEW t, NameFits(n),
         Named(n)' = Named(n) \cup {t}, w \in Bringing(n),
         Bringing(n)' \subseteq Bringing(n) \ {w}, Naming(n)' \subseteq Naming(n) \ {w},
         t \notin Named(n) => w \in Naming(n)
  PROVE  NameFits(n)'
  <1>1. /\ Cardinality(Bringing(n)') <= Cardinality(Bringing(n)) - 1
        /\ Cardinality(Naming(n)') <= Cardinality(Naming(n))
        /\ Cardinality(Bringing(n)') \in Nat /\ Cardinality(Naming(n)') \in Nat
        /\ w \in Naming(n) => Cardinality(Naming(n)') <= Cardinality(Naming(n)) - 1
    BY NameSets, FewerThreads
  <1>2. Cardinality(Named(n)') = IF t \in Named(n) THEN Cardinality(Named(n))
                                                   ELSE Cardinality(Named(n)) + 1
    BY NameSets, FS_AddElement
  <1> QED  BY <1>1, <1>2, NameSets DEF NameFits

\* A tool is renamed away from it.
LEMMA NameLeft ==
  ASSUME ToolsInv, ToolsInv', NEW n, NEW t, NameFits(n), t \in Named(n),
         Named(n)' = Named(n) \ {t}, Bringing(n)' \subseteq Bringing(n)
  PROVE  NameFits(n)'
  <1>1. Naming(n)' \subseteq Bringing(n)' /\ Bringing(n)' \subseteq Threads
    BY DEF Naming, Bringing, AtSteps, At
  <1>2. /\ Cardinality(Bringing(n)') <= Cardinality(Bringing(n))
        /\ Cardinality(Naming(n)') <= Cardinality(Bringing(n)')
        /\ Cardinality(Bringing(n)') \in Nat /\ Cardinality(Naming(n)') \in Nat
    BY <1>1, NameSets, FewerThreads
  <1>3. Cardinality(Named(n)') = Cardinality(Named(n)) - 1
    BY NameSets, FS_RemoveElement
  <1> QED  BY <1>2, <1>3, NameSets DEF NameFits

\* A thread that does not go on to a write brings no name.
LEMMA NobodyBrings ==
  ASSUME NEW w \in Threads, \A v \in Threads : v # w => job'[v] = job[v],
         job'[w].pc \notin {"create_insert", "edit_write"}
  PROVE  \A n : /\ Bringing(n)' \subseteq Bringing(n) \ {w}
                /\ Named(n) \subseteq Named(n)' => Naming(n)' \subseteq Naming(n) \ {w}
  BY DEF Bringing, Naming, AtSteps, At, Named

LEMMA NamesHold ==
  ASSUME SoundInv, [ANext]_avars, \A n \in ToolNames : NameFits(n)
  PROVE  \A n \in ToolNames : NameFits(n)'
  <1>0. /\ ToolsInv /\ ToolsInv' /\ tools \in Seq(ToolRows)
        /\ \A w \in Threads : Carries(job[w]) /\ RequestSound(w)
    BY ToolsStep DEF SoundInv, ToolsInv
  <1> SUFFICES ASSUME NEW n \in ToolNames PROVE NameFits(n)'
    OBVIOUS
  <1>1. ASSUME tools' = tools PROVE Named(n)' = Named(n)
    BY <1>1 DEF Named
  <1>2. ASSUME NEW w \in Threads, ToolStep(w) \/ ToolRequest(w) PROVE NameFits(n)'
    <2>0. \A v \in Threads : v # w => job'[v] = job[v]
      BY <1>0, <1>2, JobMoves
    <2>1. ASSUME job'[w].pc \notin {"create_insert", "edit_write"}, Named(n)' = Named(n)
          PROVE  NameFits(n)'
      BY <1>0, <2>0, <2>1, NobodyBrings, NameRests
    <2>2. ASSUME End(w), tools' = tools PROVE NameFits(n)'
      BY <1>0, <1>1, <2>1, <2>2, JobMoves DEF Rest
    <2>3. ASSUME NEW pc, Goto(w, pc), pc \notin {"create_insert", "edit_write"}, tools' = tools
          PROVE  NameFits(n)'
      BY <1>0, <1>1, <2>1, <2>3, JobMoves
    \* w brings another name than n.
    <2>4. ASSUME w \notin Bringing(n)', tools' = tools PROVE NameFits(n)'
      <3>1. Bringing(n)' \subseteq Bringing(n) /\ Naming(n)' \subseteq Naming(n)
        BY <2>0, <2>4 DEF Bringing, Naming, AtSteps, At, Named
      <3> QED  BY <1>0, <1>1, <2>4, <3>1, NameRests
    <2>5. CASE CreateLook(w)
      <3>1. CASE Named(job[w].name) = {} /\ Goto(w, "create_insert")
        <4>1. job'[w].pc = "create_insert" /\ job'[w].name = job[w].name
          BY <1>0, <2>5, <3>1, JobMoves DEF CreateLook, At, Carries
        <4>2. CASE n = job[w].name
          BY <1>0, <1>1, <2>5, <3>1, <4>2, NameLooked DEF CreateLook, toolvars
        <4>3. CASE n # job[w].name
          <5>1. w \notin Bringing(n)'
            BY <4>1, <4>3 DEF Bringing, AtSteps, At
          <5> QED  BY <2>4, <2>5, <5>1 DEF CreateLook, toolvars
        <4> QED  BY <4>2, <4>3
      <3> QED  BY <2>2, <2>5, <3>1 DEF CreateLook, toolvars
    <2>6. CASE EditLook(w)
      <3>1. CASE End(w)
        BY <2>2, <2>6, <3>1 DEF EditLook, toolvars
      <3>2. CASE Goto(w, "edit_name")
        BY <2>3, <2>6, <3>2 DEF EditLook, toolvars
      <3>3. CASE Goto(w, "edit_write") /\ job[w].edit.field # "name"
        <4>1. job'[w].pc = "edit_write" /\ job'[w].edit = job[w].edit
          <5>1. "edit" \in DOMAIN job[w] \ {"pc"}
            BY <1>0, <2>6 DEF EditLook, At, Carries
          <5>2. /\ job'[w].pc = "edit_write"
                /\ \A f \in DOMAIN job[w] \ {"pc"} : job'[w][f] = job[w][f]
            BY <1>0, <3>3, JobMoves
          <5> QED  BY <5>1, <5>2
        <4>2. w \notin Bringing(n)'
          BY <3>3, <4>1 DEF Bringing, AtSteps, At
        <4> QED  BY <2>4, <2>6, <4>2 DEF EditLook, toolvars
      <3> QED  BY <2>6, <3>1, <3>2, <3>3 DEF EditLook
    <2>7. CASE EditName(w)
      <3> DEFINE t == job[w].tool
                 e == job[w].edit
      <3>1. CASE Goto(w, "edit_write") /\ Named(e.value) \ {t} = {}
        <4>1. /\ job'[w].pc = "edit_write" /\ job'[w].edit = e /\ job'[w].tool = t
              /\ tools' = tools
          BY <1>0, <2>7, <3>1, JobMoves, ZenonT(60) DEF EditName, At, Carries, toolvars
        <4>2. CASE n = e.value
          <5>1. PICK u : u = t
            OBVIOUS
          <5>2. Named(n) \subseteq {u}
            BY <3>1, <4>2, <5>1
          <5>3. u \in Named(n) => w \notin Naming(n)'
            BY <1>1, <4>1, <5>1 DEF Naming, AtSteps, At
          <5> QED  BY <1>0, <1>1, <4>1, <5>2, <5>3, NameLooked
        <4>3. CASE n # e.value
          <5>1. w \notin Bringing(n)'
            BY <4>1, <4>3 DEF Bringing, AtSteps, At
          <5> QED  BY <2>4, <4>1, <5>1
        <4> QED  BY <4>2, <4>3
      <3> QED  BY <2>2, <2>7, <3>1 DEF EditName, toolvars
    <2>8. CASE CreateInsert(w)
      <3> DEFINE row == [name |-> job[w].name, config |-> job[w].config,
                         enabled |-> FALSE, approved |-> FALSE]
      <3>1. tools' = Append(tools, row) /\ job'[w] = Rest
        BY <1>0, <2>8, JobMoves DEF CreateInsert
      <3>2. PICK t : t = Len(tools) + 1
        OBVIOUS
      <3>3. /\ DOMAIN tools' = DOMAIN tools \cup {t} /\ t \notin DOMAIN tools
            /\ tools'[t].name = job[w].name
            /\ \A s \in DOMAIN tools : tools'[s] = tools[s]
        BY <1>0, <3>1, <3>2
      <3>4. CASE n = job[w].name
        <4>1. Named(n)' = Named(n) \cup {t} /\ t \notin Named(n)
          BY <3>3, <3>4 DEF Named
        <4>2. w \in Naming(n) /\ w \in Bringing(n)
          BY <2>8, <3>4 DEF CreateInsert, Naming, Bringing, AtSteps, At
        <4>3. /\ Bringing(n)' \subseteq Bringing(n) \ {w}
              /\ Naming(n)' \subseteq Naming(n) \ {w}
          BY <2>0, <3>1, <4>1, NobodyBrings DEF Rest
        <4> QED  BY <1>0, <4>1, <4>2, <4>3, NameWritten
      <3>5. CASE n # job[w].name
        <4>1. Named(n)' = Named(n)
          BY <3>3, <3>5 DEF Named
        <4> QED  BY <2>1, <3>1, <4>1 DEF Rest
      <3> QED  BY <3>4, <3>5
    <2>9. CASE EditWrite(w)
      <3> DEFINE e == job[w].edit
      <3>1. PICK t \in DOMAIN tools : t = job[w].tool
        BY <1>0, <2>9 DEF EditWrite, At, RequestSound, EditPcs
      <3>2. /\ e \in Edits /\ tools[t] \in ToolRows /\ job'[w] = Rest
        BY <1>0, <2>9, JobMoves DEF EditWrite, At, Carries
      <3>3. /\ DOMAIN tools' = DOMAIN tools
            /\ \A s \in DOMAIN tools : s # t => tools'[s] = tools[s]
            /\ tools'[t].name = IF e.field = "name" THEN e.value ELSE tools[t].name
        BY <1>0, <2>9, <3>1, <3>2 DEF EditWrite, Edits, ToolRows
      <3>4. CASE e.field = "name" /\ e.value = n
        <4>1. Named(n)' = Named(n) \cup {t}
          BY <3>1, <3>3, <3>4 DEF Named
        <4>2. w \in Bringing(n) /\ (t \notin Named(n) => w \in Naming(n))
          BY <2>9, <3>1, <3>4 DEF EditWrite, Naming, Bringing, AtSteps, At
        <4>3. /\ Bringing(n)' \subseteq Bringing(n) \ {w}
              /\ Naming(n)' \subseteq Naming(n) \ {w}
          BY <2>0, <3>2, <4>1, NobodyBrings DEF Rest
        <4> QED  BY <1>0, <4>1, <4>2, <4>3, NameWritten
      <3>5. CASE e.field = "name" /\ e.value # n /\ tools[t].name = n
        <4>1. Named(n)' = Named(n) \ {t} /\ t \in Named(n)
          BY <3>1, <3>3, <3>5 DEF Named
        <4>2. Bringing(n)' \subseteq Bringing(n)
          BY <2>0, <3>2, NobodyBrings DEF Rest
        <4> QED  BY <1>0, <4>1, <4>2, NameLeft
      <3>6. CASE e.field # "name" \/ (e.value # n /\ tools[t].name # n)
        <4>1. Named(n)' = Named(n)
          BY <3>1, <3>3, <3>6 DEF Named
        <4> QED  BY <2>1, <3>2, <4>1 DEF Rest
      <3> QED  BY <3>4, <3>5, <3>6
    <2>10. CASE ApproveLook(w)
      BY <2>2, <2>3, <2>10 DEF ApproveLook, toolvars
    <2>11. CASE ApproveWrite(w)
      <3>1. job'[w] = Rest
        BY <1>0, <2>11, JobMoves DEF ApproveWrite
      <3>2. DOMAIN tools' = DOMAIN tools /\ \A s \in DOMAIN tools : tools'[s].name = tools[s].name
        <4> DEFINE row(s) == [tools[s] EXCEPT !.approved = TRUE, !.enabled = TRUE]
        <4>1. tools' = [tools EXCEPT ![job[w].tool] = row(job[w].tool)]
          BY <2>11, BothSet DEF ApproveWrite
        <4>2. \A s \in DOMAIN tools : row(s).name = tools[s].name
          BY <1>0 DEF ToolRows
        <4> HIDE DEF row
        <4> QED  BY <1>0, <4>1, <4>2
      <3>3. Named(n)' = Named(n)
        BY <3>2 DEF Named
      <3> QED  BY <2>1, <3>1, <3>3 DEF Rest
    <2>12. CASE ToolRequest(w)
      BY <1>0, <1>1, <2>1, <2>12, RequestsLook DEF toolvars
    <2> QED
      BY <1>2, <2>5, <2>6, <2>7, <2>8, <2>9, <2>10, <2>11, <2>12 DEF ToolStep
  <1>3. CASE ToolsRest \/ RegistryRead
    <2>1. tools' = tools
      BY <1>3 DEF ToolsRest, RegistryRead, toolvars
    <2>2. Bringing(n)' \subseteq Bringing(n) /\ Naming(n)' \subseteq Naming(n)
      BY <1>3, <2>1 DEF ToolsRest, RegistryRead, Rest, ToolPcs, Bringing, Naming, AtSteps, At, Named
    <2> QED  BY <1>0, <1>1, <2>1, <2>2, NameRests
  <1> QED  BY <1>0, <1>2, <1>3, ToolEvents

(***************************************************************************)
(* For any number of threads, rows and restarts: an approved tool settles, *)
(* since each thread but the one that approves has at most one edit left   *)
(* to write; of a name there are never more tools than threads that might  *)
(* have looked at once; and what the server offers was approved, is valid, *)
(* bears no name twice and takes none of a built-in tool.                  *)
(***************************************************************************)
THEOREM ToolsComeToRest == ASpec => []ToolsAreAsApproved
  <1> DEFINE RestInv == SoundInv /\ EditsSettle /\ \A n \in ToolNames : NameFits(n)
  <1>1. ASSUME AInit PROVE RestInv
    <2>1. ToolsInv /\ tools = <<>> /\ late = <<>> /\ registry = {}
      BY <1>1, AdministrationInit DEF AdministrationInv, AInit, ToolsInit
    <2>2. \A w \in Threads : job[w].pc = "rest"
      BY <1>1 DEF AInit, Rest
    <2>3. SoundInv
      BY <2>1, <2>2 DEF SoundInv, RequestSound, EditPcs, ApprovePcs
    <2>4. EditsSettle
      BY <2>1 DEF EditsSettle
    <2>5. \A n \in ToolNames : Named(n) = {} /\ Naming(n) = {} /\ Bringing(n) = {}
      BY <2>1, <2>2 DEF Named, Naming, Bringing, AtSteps
    <2>6. \A n \in ToolNames : NameFits(n)
      BY <2>1, <2>5, NameSets, FS_EmptySet DEF NameFits
    <2> QED  BY <2>3, <2>4, <2>6
  <1>2. RestInv /\ [ANext]_avars => RestInv'
    BY SoundHolds, EditsHold, NamesHold
  <1>3. RestInv => ToolsAreAsApproved
    BY DEF ToolsAreAsApproved, NamesSettle, NameFits, RegistryWasApproved, SoundInv, OfferSound
  <1> QED  BY <1>1, <1>2, <1>3, PTL DEF ASpec

-----------------------------------------------------------------------------
(***************************************************************************)
(* The two records of the audit, entry by entry.                           *)
(***************************************************************************)

\* The removals under way that are after e.
Against(e) == {w \in Removing : Goes(e, job[w].what)}

\* An entry that nothing has happened to is being written, and in the file; or is being
\* removed, by one removal, and no longer in the table; or is in both or in neither.  Who
\* is to replace the file has read of e what is there.
EntryOK(e) ==
  /\ e \in Pending => e \in file /\ Against(e) = {}
  /\ Against(e) # {} => e \notin rows
  /\ Against(e) = {} /\ e \notin Pending => (e \in file <=> e \in rows)
  /\ \A w \in AtSteps({"remove_write"}) : e \in job[w].keep <=> e \in file /\ w \notin Against(e)
  /\ \A v, w \in Removing : v # w /\ v \in Against(e) => e \notin file

RecordsInv ==
  /\ JobsOK
  /\ \A w \in Threads : job[w].pc \in {"remove_rows", "remove_read"} => "what" \in DOMAIN job[w]
  /\ \A e : e \notin exposed => EntryOK(e)

\* The steps at which a request is between the file and the table.
BetweenPcs == {"log_row", "failed_row", "remove_read", "remove_write"}

\* What a step of w does to what is under way.
LEMMA AuditMoves ==
  ASSUME JobsOK, NEW w \in Threads, job' = [job EXCEPT ![w] = job'[w]], "pc" \in DOMAIN job'[w]
  PROVE  /\ JobsOK'
         /\ \A v \in Threads : v # w => job'[v] = job[v]
         /\ \A e : e \in Pending' <=>
              \/ \E v \in Logging : v # w /\ job[v].entry = e
              \/ job'[w].pc \in {"log_row", "failed_row"} /\ job'[w].entry = e
         /\ Removing' = (Removing \ {w}) \cup
              IF job'[w].pc \in {"remove_read", "remove_write"} THEN {w} ELSE {}
         /\ AtSteps({"remove_write"})' = (AtSteps({"remove_write"}) \ {w}) \cup
              IF job'[w].pc = "remove_write" THEN {w} ELSE {}
  <1>1. JobsOK' /\ \A v \in Threads : v # w => job'[v] = job[v]
    BY DEF JobsOK
  <1>2. \A e : e \in Pending' <=>
              \/ \E v \in Logging : v # w /\ job[v].entry = e
              \/ job'[w].pc \in {"log_row", "failed_row"} /\ job'[w].entry = e
    BY <1>1 DEF Pending, Logging, AtSteps
  <1>3. Removing' = (Removing \ {w}) \cup
              IF job'[w].pc \in {"remove_read", "remove_write"} THEN {w} ELSE {}
    BY <1>1 DEF Removing, AtSteps
  <1>4. AtSteps({"remove_write"})' = (AtSteps({"remove_write"}) \ {w}) \cup
              IF job'[w].pc = "remove_write" THEN {w} ELSE {}
    BY <1>1 DEF AtSteps
  <1> QED  BY <1>1, <1>2, <1>3, <1>4

\* A step of a request that is not between the two records, and changes neither.
LEMMA AuditElsewhere ==
  ASSUME RecordsInv, NEW w \in Threads, NEW steps, Leads(w, steps), steps \cap BetweenPcs = {},
         job[w].pc \notin BetweenPcs, UNCHANGED audit,
         job'[w].pc = "remove_rows" => "what" \in DOMAIN job'[w]
  PROVE  RecordsInv'
  <1>1. /\ JobsOK' /\ Pending' = Pending /\ Removing' = Removing
        /\ AtSteps({"remove_write"})' = AtSteps({"remove_write"})
        /\ \A v \in Threads : v # w => job'[v] = job[v]
    <2>1. /\ Pending' = Pending /\ Removing' = Removing
          /\ AtSteps({"remove_write"})' = AtSteps({"remove_write"})
      BY DEF RecordsInv, JobsOK, Leads, BetweenPcs, Pending, Logging, Removing, AtSteps
    <2> QED  BY <2>1 DEF RecordsInv, JobsOK, Leads
  <1>2. w \notin Removing
    BY DEF Removing, AtSteps, BetweenPcs
  <1>3. \A e : Against(e)' = Against(e)
    BY <1>1, <1>2 DEF Against, Removing, AtSteps
  <1>4. \A v \in AtSteps({"remove_write"}) : v # w /\ v \in Threads
    BY DEF AtSteps, BetweenPcs
  <1>5. ASSUME NEW e, e \notin exposed' PROVE EntryOK(e)'
    <2>1. EntryOK(e)
      BY <1>5 DEF RecordsInv, audit
    <2> QED  BY <1>1, <1>3, <1>4, <2>1 DEF EntryOK, audit
  <1>6. \A v \in Threads : job'[v].pc \in {"remove_rows", "remove_read"} => "what" \in DOMAIN job'[v]
    BY <1>1 DEF RecordsInv, Leads, BetweenPcs
  <1> QED  BY <1>1, <1>5, <1>6 DEF RecordsInv

LEMMA AppendKept ==
  ASSUME RecordsInv, NEW w \in Threads, NEW ok \in BOOLEAN, AppendLine(w, ok)
  PROVE  RecordsInv'
  <1> DEFINE n == [id |-> NextId, user |-> job[w].who, old |-> FALSE]
  <1>1. PICK x : x = n
    OBVIOUS
  <1>2. /\ file' = IF ok THEN file \cup {x} ELSE file
        /\ exposed' = IF Removing # {} \/ ~ok THEN exposed \cup {x} ELSE exposed
        /\ rows' = rows /\ job[w].pc \in {"log_file", "failed_file"}
    BY <1>1 DEF AppendLine
  <1>3. /\ job' = [job EXCEPT ![w] = job'[w]] /\ "pc" \in DOMAIN job'[w]
        /\ job'[w].pc \in {"log_row", "failed_row"} /\ job'[w].entry = x
    BY <1>1 DEF AppendLine, RecordsInv, JobsOK
  <1>4. JobsOK
    BY DEF RecordsInv
  <1>5. w \notin Removing /\ w \notin Logging /\ w \notin AtSteps({"remove_write"})
    BY <1>2 DEF Removing, Logging, AtSteps
  <1>6. \A e : e \in Pending' <=> e \in Pending \/ e = x
    <2>1. \A e : e \in Pending' <=>
            (\E v \in Logging : v # w /\ job[v].entry = e) \/ x = e
      BY <1>3, <1>4, AuditMoves
    <2>2. \A e : e \in Pending <=> \E v \in Logging : v # w /\ job[v].entry = e
      BY <1>5 DEF Pending
    <2> QED  BY <2>1, <2>2
  <1>7. Removing' = Removing /\ AtSteps({"remove_write"})' = AtSteps({"remove_write"})
    <2>1. job'[w].pc \notin {"remove_read", "remove_write"} /\ job'[w].pc # "remove_write"
      BY <1>3
    <2>2. /\ Removing' = Removing \ {w}
          /\ AtSteps({"remove_write"})' = AtSteps({"remove_write"}) \ {w}
      BY <1>3, <1>4, <2>1, AuditMoves
    <2> QED  BY <1>5, <2>2
  <1>8. /\ JobsOK' /\ \A v \in Threads : v # w => job'[v] = job[v]
    BY <1>3, <1>4, AuditMoves
  <1>9. \A e : Against(e)' = Against(e)
    BY <1>5, <1>7, <1>8 DEF Against, Removing, AtSteps
  <1>10. ASSUME NEW e, e \notin exposed' PROVE EntryOK(e)'
    <2>1. EntryOK(e)
      BY <1>2, <1>10 DEF RecordsInv
    <2>2. \A v \in AtSteps({"remove_write"}) : job'[v].keep = job[v].keep
      BY <1>5, <1>8 DEF AtSteps
    <2>3. e = x => Removing = {} /\ ok
      BY <1>2, <1>10
    <2>4. e # x => (e \in file' <=> e \in file)
      BY <1>2
    <2>5. CASE e # x
      BY <1>2, <1>6, <1>7, <1>9, <2>1, <2>2, <2>4, <2>5 DEF EntryOK
    <2>6. CASE e = x
      <3>1. Removing' = {} /\ AtSteps({"remove_write"})' = {} /\ Against(e)' = {}
        BY <1>7, <1>9, <2>3, <2>6 DEF Against, Removing, AtSteps
      <3> QED  BY <1>2, <1>6, <2>3, <2>6, <3>1 DEF EntryOK
    <2> QED  BY <2>5, <2>6
  <1>11. \A v \in Threads : job'[v].pc \in {"remove_rows", "remove_read"} => "what" \in DOMAIN job'[v]
    BY <1>3, <1>8 DEF RecordsInv
  <1> QED  BY <1>8, <1>10, <1>11 DEF RecordsInv

LEMMA InsertKept ==
  ASSUME RecordsInv, NEW w \in Threads, NEW ok \in BOOLEAN, InsertRow(w, ok)
  PROVE  RecordsInv'
  <1>1. PICK x : x = job[w].entry
    OBVIOUS
  <1>2. /\ rows' = IF ok THEN rows \cup {x} ELSE rows
        /\ exposed' = IF ok THEN exposed ELSE exposed \cup {x}
        /\ file' = file /\ w \in Logging /\ x \in Pending
    BY <1>1 DEF InsertRow, Pending
  <1>3. /\ job' = [job EXCEPT ![w] = job'[w]] /\ "pc" \in DOMAIN job'[w]
        /\ job'[w].pc \in {"denied", "rest"}
    BY DEF InsertRow, RecordsInv, JobsOK, End, Goto, Rest
  <1>4. JobsOK
    BY DEF RecordsInv
  <1>5. w \notin Removing /\ w \notin AtSteps({"remove_write"})
    BY <1>2 DEF Removing, Logging, AtSteps
  <1>6. \A e : /\ e \in Pending' => e \in Pending
               /\ e \in Pending => e \in Pending' \/ e = x
    <2>1. job'[w].pc \notin {"log_row", "failed_row"}
      BY <1>3
    <2>2. \A e : e \in Pending' <=> \E v \in Logging : v # w /\ job[v].entry = e
      BY <1>3, <1>4, <2>1, AuditMoves
    <2> QED  BY <1>1, <2>2 DEF Pending
  <1>7. Removing' = Removing /\ AtSteps({"remove_write"})' = AtSteps({"remove_write"})
    <2>1. job'[w].pc \notin {"remove_read", "remove_write"} /\ job'[w].pc # "remove_write"
      BY <1>3
    <2>2. /\ Removing' = Removing \ {w}
          /\ AtSteps({"remove_write"})' = AtSteps({"remove_write"}) \ {w}
      BY <1>3, <1>4, <2>1, AuditMoves
    <2> QED  BY <1>5, <2>2
  <1>8. /\ JobsOK' /\ \A v \in Threads : v # w => job'[v] = job[v]
    BY <1>3, <1>4, AuditMoves
  <1>9. \A e : Against(e)' = Against(e)
    BY <1>5, <1>7, <1>8 DEF Against, Removing, AtSteps
  <1>10. ASSUME NEW e, e \notin exposed' PROVE EntryOK(e)'
    <2>1. EntryOK(e)
      BY <1>2, <1>10 DEF RecordsInv
    <2>2. \A v \in AtSteps({"remove_write"}) : job'[v].keep = job[v].keep
      BY <1>5, <1>8 DEF AtSteps
    <2>3. e = x => ok /\ e \in Pending
      BY <1>2, <1>10
    <2>4. e # x => (e \in rows' <=> e \in rows)
      BY <1>2
    <2>5. CASE e # x
      BY <1>2, <1>6, <1>7, <1>9, <2>1, <2>2, <2>4, <2>5 DEF EntryOK
    <2>6. CASE e = x
      <3>1. e \in file /\ Against(e) = {} /\ e \in rows'
        BY <1>2, <2>1, <2>3, <2>6 DEF EntryOK
      <3> QED  BY <1>2, <1>6, <1>7, <1>9, <2>1, <2>2, <3>1 DEF EntryOK
    <2> QED  BY <2>5, <2>6
  <1>11. \A v \in Threads : job'[v].pc \in {"remove_rows", "remove_read"} => "what" \in DOMAIN job'[v]
    BY <1>3, <1>8 DEF RecordsInv
  <1> QED  BY <1>8, <1>10, <1>11 DEF RecordsInv

\* A removal whose rows are gone, or cannot be deleted and it goes on to the file: what
\* was being written, or is after by two, is exposed.
LEMMA RemovalBegins ==
  ASSUME RecordsInv, NEW w \in Threads, NEW what, At(w, "remove_rows"), what = job[w].what,
         Goto(w, "remove_read"), file' = file, exposed \subseteq exposed',
         \A e : e \notin exposed' /\ e \in rows' => e \in rows,
         \A e : e \notin exposed' /\ ~Goes(e, what) => (e \in rows' <=> e \in rows),
         \A e : e \notin exposed' /\ Goes(e, what) =>
                  e \notin rows' /\ e \notin Pending /\ (Removing # {} => e \notin file),
         \A e : \A v \in Removing : e \notin exposed' /\ Goes(e, job[v].what) => e \notin file
  PROVE  RecordsInv'
  <1>1. JobsOK /\ "what" \in DOMAIN job[w]
    BY DEF RecordsInv, At
  <1>2. /\ job' = [job EXCEPT ![w] = job'[w]] /\ "pc" \in DOMAIN job'[w]
        /\ job'[w].pc = "remove_read" /\ job'[w].what = what /\ "what" \in DOMAIN job'[w]
    BY <1>1 DEF Goto, JobsOK
  <1>3. w \notin Removing /\ w \notin Logging /\ w \notin AtSteps({"remove_write"})
    BY DEF Removing, Logging, AtSteps, At
  <1>4. JobsOK' /\ \A v \in Threads : v # w => job'[v] = job[v]
    BY <1>1, <1>2, AuditMoves
  <1>5. \A e : e \in Pending' <=> e \in Pending
    <2>1. job'[w].pc \notin {"log_row", "failed_row"}
      BY <1>2
    <2>2. \A e : e \in Pending' <=> \E v \in Logging : v # w /\ job[v].entry = e
      BY <1>1, <1>2, <2>1, AuditMoves
    <2> QED  BY <1>3, <2>2 DEF Pending
  <1>6. Removing' = Removing \cup {w} /\ AtSteps({"remove_write"})' = AtSteps({"remove_write"})
    <2>1. job'[w].pc \in {"remove_read", "remove_write"} /\ job'[w].pc # "remove_write"
      BY <1>2
    <2>2. /\ Removing' = (Removing \ {w}) \cup {w}
          /\ AtSteps({"remove_write"})' = AtSteps({"remove_write"}) \ {w}
      BY <1>1, <1>2, <2>1, AuditMoves
    <2> QED  BY <1>3, <2>2
  <1>7. \A e : Against(e)' = Against(e) \cup IF Goes(e, what) THEN {w} ELSE {}
    BY <1>2, <1>3, <1>4, <1>6 DEF Against, Removing, AtSteps
  <1>8. ASSUME NEW e, e \notin exposed' PROVE EntryOK(e)'
    <2>1. EntryOK(e)
      BY <1>8 DEF RecordsInv
    <2>2. \A v \in AtSteps({"remove_write"}) : v # w /\ job'[v].keep = job[v].keep
      BY <1>3, <1>4 DEF AtSteps
    <2>3. CASE Goes(e, what)
      BY <1>3, <1>5, <1>6, <1>7, <1>8, <2>1, <2>2, <2>3 DEF EntryOK, Against
    <2>4. CASE ~Goes(e, what)
      BY <1>3, <1>5, <1>6, <1>7, <1>8, <2>1, <2>2, <2>4 DEF EntryOK, Against
    <2> QED  BY <2>3, <2>4
  <1>9. \A v \in Threads : job'[v].pc \in {"remove_rows", "remove_read"} => "what" \in DOMAIN job'[v]
    BY <1>2, <1>4 DEF RecordsInv
  <1> QED  BY <1>4, <1>8, <1>9 DEF RecordsInv

LEMMA RemoveRowsKept ==
  ASSUME RecordsInv, NEW w \in Threads, RemoveRows(w) \/ RowsStay(w)
  PROVE  RecordsInv'
  <1>1. PICK what : what = job[w].what
    OBVIOUS
  <1>2. CASE RemoveRows(w)
    <2>1. /\ At(w, "remove_rows") /\ Goto(w, "remove_read") /\ file' = file
          /\ rows' = {e \in rows : ~Goes(e, what)}
          /\ exposed' = exposed \cup Pending
               \cup IF Removing = {} THEN {}
                    ELSE Going(what) \cup UNION {Going(job[v].what) : v \in Removing}
      BY <1>1, <1>2 DEF RemoveRows
    <2>2. \A e : e \notin exposed' => e \notin exposed /\ e \notin Pending
      BY <2>1
    <2>3. \A e : e \notin exposed' /\ Removing # {} => e \notin Going(what)
      BY <2>1
    <2>4. \A e : \A v \in Removing : e \notin exposed' => e \notin Going(job[v].what)
      BY <2>1
    <2>5. \A e : e \notin exposed' /\ Goes(e, what) /\ Removing # {} => e \notin file
      BY <2>3 DEF Going
    <2>6. \A e : \A v \in Removing : e \notin exposed' /\ Goes(e, job[v].what) => e \notin file
      BY <2>4 DEF Going
    <2>7. exposed \subseteq exposed'
      BY <2>1
    <2>8. \A e : e \in rows' <=> e \in rows /\ ~Goes(e, what)
      BY <2>1
    <2> QED  BY <1>1, <2>1, <2>2, <2>5, <2>6, <2>7, <2>8, RemovalBegins
  <1>3. CASE RowsStay(w) /\ what = "old"
    <2>1. /\ At(w, "remove_rows") /\ Goto(w, "remove_read") /\ file' = file /\ rows' = rows
          /\ exposed' = exposed \cup Going(what) \cup UNION {Going(job[v].what) : v \in Removing}
      BY <1>1, <1>3 DEF RowsStay
    <2>2. \A e : e \notin exposed' => e \notin Going(what)
      BY <2>1
    <2>3. \A e : \A v \in Removing : e \notin exposed' => e \notin Going(job[v].what)
      BY <2>1
    <2>4. \A e : e \notin exposed' /\ Goes(e, what) => e \notin file /\ e \notin rows /\ e \notin Pending
      BY <2>2 DEF Going
    <2>5. \A e : \A v \in Removing : e \notin exposed' /\ Goes(e, job[v].what) => e \notin file
      BY <2>3 DEF Going
    <2>6. exposed \subseteq exposed'
      BY <2>1
    <2> QED  BY <1>1, <2>1, <2>4, <2>5, <2>6, RemovalBegins
  <1>4. CASE RowsStay(w) /\ what # "old"
    <2>1. End(w) /\ UNCHANGED audit
      BY <1>1, <1>4 DEF RowsStay, audit
    <2>2. Leads(w, {"rest"}) /\ job'[w].pc = "rest"
      BY <2>1 DEF Leads, End, Rest, RecordsInv, JobsOK
    <2>3. job[w].pc = "remove_rows"
      BY <1>4 DEF RowsStay, At
    <2> QED  BY <2>1, <2>2, <2>3, AuditElsewhere DEF BetweenPcs
  <1> QED  BY <1>2, <1>3, <1>4

LEMMA RemoveReadKept ==
  ASSUME RecordsInv, NEW w \in Threads, RemoveRead(w)
  PROVE  RecordsInv'
  <1>1. PICK what : what = job[w].what
    OBVIOUS
  <1>2. JobsOK
    BY DEF RecordsInv
  <1>3. job[w].pc = "remove_read" /\ UNCHANGED audit
    BY DEF RemoveRead, At
  <1>4. /\ job' = [job EXCEPT ![w] = job'[w]] /\ "pc" \in DOMAIN job'[w]
        /\ job'[w].pc = "remove_write" /\ job'[w].what = what
        /\ job'[w].keep = {e \in file : ~Goes(e, what)}
    BY <1>1, <1>2 DEF RemoveRead, JobsOK
  <1>5. w \in Removing /\ w \notin Logging /\ w \notin AtSteps({"remove_write"})
    BY <1>3 DEF Removing, Logging, AtSteps
  <1>6. JobsOK' /\ \A v \in Threads : v # w => job'[v] = job[v]
    BY <1>2, <1>4, AuditMoves
  <1>7. \A e : e \in Pending' <=> e \in Pending
    <2>1. job'[w].pc \notin {"log_row", "failed_row"}
      BY <1>4
    <2>2. \A e : e \in Pending' <=> \E v \in Logging : v # w /\ job[v].entry = e
      BY <1>2, <1>4, <2>1, AuditMoves
    <2> QED  BY <1>5, <2>2 DEF Pending
  <1>8. Removing' = Removing /\ AtSteps({"remove_write"})' = AtSteps({"remove_write"}) \cup {w}
    <2>1. job'[w].pc \in {"remove_read", "remove_write"} /\ job'[w].pc = "remove_write"
      BY <1>4
    <2>2. /\ Removing' = (Removing \ {w}) \cup {w}
          /\ AtSteps({"remove_write"})' = (AtSteps({"remove_write"}) \ {w}) \cup {w}
      BY <1>2, <1>4, <2>1, AuditMoves
    <2> QED  BY <1>5, <2>2
  <1>9. \A e : Against(e)' = Against(e)
    BY <1>1, <1>4, <1>6, <1>8 DEF Against, Removing, AtSteps
  <1>10. ASSUME NEW e, e \notin exposed' PROVE EntryOK(e)'
    <2>1. EntryOK(e)
      BY <1>3, <1>10 DEF RecordsInv, audit
    <2>2. \A v \in AtSteps({"remove_write"}) : job'[v].keep = job[v].keep
      BY <1>5, <1>6 DEF AtSteps
    <2>3. w \in Against(e) <=> Goes(e, what)
      BY <1>1, <1>5 DEF Against
    <2>4. e \in job'[w].keep <=> e \in file /\ w \notin Against(e)
      BY <1>4, <2>3
    <2> QED  BY <1>3, <1>7, <1>8, <1>9, <2>1, <2>2, <2>4 DEF EntryOK, audit
  <1>11. \A v \in Threads : job'[v].pc \in {"remove_rows", "remove_read"} => "what" \in DOMAIN job'[v]
    BY <1>4, <1>6 DEF RecordsInv
  <1> QED  BY <1>6, <1>10, <1>11 DEF RecordsInv

\* A removal ends: the file is replaced, or it stays and what was to go is exposed.
LEMMA RemovalEnds ==
  ASSUME RecordsInv, NEW w \in Threads, RemoveWrite(w) \/ RemoveFails(w)
  PROVE  RecordsInv'
  <1>1. JobsOK
    BY DEF RecordsInv
  <1>2. End(w) /\ w \in Removing /\ rows' = rows
    BY DEF RemoveWrite, RemoveFails, Removing, AtSteps, At
  <1>3. /\ job' = [job EXCEPT ![w] = job'[w]] /\ "pc" \in DOMAIN job'[w]
        /\ job'[w].pc = "rest"
    BY <1>1, <1>2 DEF End, Rest, JobsOK
  <1>4. w \notin Logging
    BY <1>2 DEF Removing, Logging, AtSteps
  <1>5. JobsOK' /\ \A v \in Threads : v # w => job'[v] = job[v]
    BY <1>1, <1>3, AuditMoves
  <1>6. \A e : e \in Pending' <=> e \in Pending
    <2>1. job'[w].pc \notin {"log_row", "failed_row"}
      BY <1>3
    <2>2. \A e : e \in Pending' <=> \E v \in Logging : v # w /\ job[v].entry = e
      BY <1>1, <1>3, <2>1, AuditMoves
    <2> QED  BY <1>4, <2>2 DEF Pending
  <1>7. /\ Removing' = Removing \ {w}
        /\ AtSteps({"remove_write"})' = AtSteps({"remove_write"}) \ {w}
    <2>1. job'[w].pc \notin {"remove_read", "remove_write"} /\ job'[w].pc # "remove_write"
      BY <1>3
    <2> QED  BY <1>1, <1>3, <2>1, AuditMoves
  <1>8. \A e : Against(e)' = Against(e) \ {w}
    BY <1>5, <1>7 DEF Against, Removing, AtSteps
  <1>9. ASSUME NEW e, e \notin exposed' PROVE EntryOK(e)'
    <2>1. EntryOK(e)
      BY <1>9 DEF RecordsInv, RemoveWrite, RemoveFails
    <2>2. \A v \in AtSteps({"remove_write"}) : v # w => job'[v].keep = job[v].keep
      BY <1>5 DEF AtSteps
    <2>3. \A v \in AtSteps({"remove_write"}) : v \in Removing
      BY DEF AtSteps, Removing
    <2>4. CASE RemoveWrite(w)
      <3>1. file' = job[w].keep /\ w \in AtSteps({"remove_write"})
        BY <2>4 DEF RemoveWrite, At, AtSteps
      <3>2. e \in file' <=> e \in file /\ w \notin Against(e)
        BY <2>1, <3>1 DEF EntryOK
      <3> QED  BY <1>2, <1>6, <1>7, <1>8, <2>1, <2>2, <2>3, <3>2 DEF EntryOK, Against
    <2>5. CASE RemoveFails(w)
      <3>1. file' = file /\ e \notin Going(job[w].what)
        BY <1>9, <2>5 DEF RemoveFails
      <3>2. w \in Against(e) => e \notin file /\ e \notin rows /\ e \notin Pending
        BY <3>1 DEF Going, Against
      <3> QED  BY <1>2, <1>6, <1>7, <1>8, <2>1, <2>2, <2>3, <3>1, <3>2 DEF EntryOK, Against
    <2> QED  BY <2>4, <2>5
  <1>10. \A v \in Threads : job'[v].pc \in {"remove_rows", "remove_read"} => "what" \in DOMAIN job'[v]
    BY <1>3, <1>5 DEF RecordsInv
  <1> QED  BY <1>5, <1>9, <1>10 DEF RecordsInv

\* A handler of the audit keeps the records.
LEMMA AuditHandlers ==
  ASSUME RecordsInv, NEW w \in Threads, AuditStep(w) \/ AuditRequest(w)
  PROVE  RecordsInv'
  <1>1. ASSUME NEW j, Begin(w, j), "pc" \in DOMAIN j, "what" \in DOMAIN j \/ j.pc # "remove_rows",
               j.pc \in {"log_file", "remove_rows"}, UNCHANGED audit
        PROVE  RecordsInv'
    <2>1. Leads(w, {"log_file", "remove_rows"}) /\ job'[w] = j /\ job[w].pc = "rest"
      BY <1>1 DEF Begin, Leads, RecordsInv, JobsOK, Rest
    <2> QED  BY <1>1, <2>1, AuditElsewhere DEF BetweenPcs
  <1>2. ASSUME NEW u, LogEvent(w, u) PROVE RecordsInv'
    BY <1>1, <1>2 DEF LogEvent
  <1>3. ASSUME NEW what, Remove(w, what) PROVE RecordsInv'
    BY <1>1, <1>3 DEF Remove
  <1> QED
    BY <1>2, <1>3, AppendKept, InsertKept, RemoveRowsKept, RemoveReadKept, RemovalEnds
       DEF AuditStep, AuditRequest

\* A request about an address comes to the audit only by having something to log.
LEMMA AccountsLog ==
  ASSUME JobsOK, NEW w \in Threads, AccountStep(w)
  PROVE  /\ Leads(w, OnwardPcs \cup {"log_file", "failed_file", "denied", "rest"})
         /\ job[w].pc \notin BetweenPcs
  <1> USE DEF JobsOK, Leads, Goto, End, At, Rest, OnwardPcs, BetweenPcs
  <1>1. CASE RegisterLook(w)
    BY <1>1 DEF RegisterLook
  <1>2. CASE RegisterInsert(w)
    BY <1>2 DEF RegisterInsert
  <1>3. CASE RegisterMail(w)
    BY <1>3 DEF RegisterMail
  <1>4. CASE VerifyWrite(w)
    BY <1>4 DEF VerifyWrite
  <1>5. CASE LoginCheck(w)
    BY <1>5 DEF LoginCheck
  <1>6. CASE PasswordLook(w)
    BY <1>6 DEF PasswordLook
  <1>7. CASE PasswordWrite(w)
    BY <1>7 DEF PasswordWrite
  <1>8. CASE InviteLook(w)
    BY <1>8 DEF InviteLook
  <1>9. CASE InviteUse(w)
    BY <1>9 DEF InviteUse
  <1>10. CASE AdminLook(w)
    BY <1>10 DEF AdminLook
  <1>11. CASE AdminInsert(w)
    BY <1>11 DEF AdminInsert
  <1> QED
    BY <1>1, <1>2, <1>3, <1>4, <1>5, <1>6, <1>7, <1>8, <1>9, <1>10, <1>11 DEF AccountStep

\* A request about tools or workspaces is at steps of its own, one that arrives at none.
LEMMA OthersDoNot ==
  ASSUME JobsOK, NEW w \in Threads,
         \/ ToolStep(w) \/ ToolRequest(w) \/ SpaceStep(w) \/ SpaceRequest(w)
         \/ AccountRequest(w) \/ \E a \in Addresses : Verify(w, a)
  PROVE  job[w].pc \notin BetweenPcs
  <1> USE DEF At, Rest, BetweenPcs, Begin
  <1>1. CASE ToolStep(w)
    BY <1>1 DEF ToolStep, CreateLook, CreateInsert, EditLook, EditName, EditWrite, ApproveLook,
                ApproveWrite
  <1>2. CASE ToolRequest(w)
    BY <1>2 DEF ToolRequest, CreateTool, ApproveTool, EditTool
  <1>3. CASE SpaceStep(w)
    BY <1>3 DEF SpaceStep, Propose, Store, Link
  <1>4. CASE SpaceRequest(w)
    BY <1>4 DEF SpaceRequest, Compose, Draft, Advance, DeleteWorkflow
  <1>5. CASE AccountRequest(w)
    BY <1>5 DEF AccountRequest, CreateInvite, Register, RegisterAdmin, Login, ChangePassword
  <1>6. CASE \E a \in Addresses : Verify(w, a)
    BY <1>6 DEF Verify
  <1> QED  BY <1>1, <1>2, <1>3, <1>4, <1>5, <1>6

LEMMA RecordsRestart == RecordsInv /\ Restart => RecordsInv'
  <1> SUFFICES ASSUME RecordsInv, Restart PROVE RecordsInv'
    OBVIOUS
  <1>1. JobsOK' /\ \A v \in Threads : job'[v].pc = "rest"
    BY DEF Restart, JobsOK, Rest
  <1>2. /\ Pending' = {} /\ Removing' = {} /\ AtSteps({"remove_write"})' = {}
        /\ \A e : Against(e)' = {}
    BY <1>1 DEF Pending, Logging, Removing, AtSteps, Against
  <1>3. /\ exposed' = exposed \cup Pending \cup UNION {Going(job[w].what) : w \in Removing}
        /\ file' = file /\ rows' = rows
    BY DEF Restart
  <1>4. ASSUME NEW e, e \notin exposed' PROVE EntryOK(e)'
    <2>1. EntryOK(e) /\ e \notin Pending
      BY <1>3, <1>4 DEF RecordsInv
    <2>2. \A v \in Against(e) : e \notin file /\ e \notin rows
      BY <1>3, <1>4 DEF Against, Going
    <2>3. e \in file <=> e \in rows
      BY <2>1, <2>2 DEF EntryOK
    <2> QED  BY <1>2, <1>3, <2>3 DEF EntryOK
  <1> QED  BY <1>1, <1>4 DEF RecordsInv

\* Every step keeps the records.
LEMMA RecordsStep == RecordsInv /\ [ANext]_avars => RecordsInv'
  <1> SUFFICES ASSUME RecordsInv, [ANext]_avars PROVE RecordsInv'
    OBVIOUS
  <1>0. JobsOK
    BY DEF RecordsInv
  <1>1. ASSUME UNCHANGED <<job, audit>> PROVE RecordsInv'
    BY <1>1 DEF RecordsInv, JobsOK, EntryOK, Against, Removing, Pending, Logging, AtSteps, audit
  <1>2. CASE Approvals
    BY <1>1, <1>2 DEF Approvals
  <1>3. ASSUME NEW w \in Threads, Arrive(w) PROVE RecordsInv'
    <2>1. CASE AuditRequest(w)
      BY <2>1, AuditHandlers
    <2>2. CASE (AccountRequest(w) \/ \E a \in Addresses : Verify(w, a)) /\ ByAccounts
      BY <1>0, <2>2, AccountRequests, OthersDoNot, AuditElsewhere
         DEF ByAccounts, SignInPcs, BetweenPcs, Leads
    <2>3. CASE ToolRequest(w) /\ ByTools
      BY <1>0, <2>3, ToolJobs, OthersDoNot, AuditElsewhere
         DEF ByTools, Elsewhere, ToolPcs, BetweenPcs, Leads
    <2>4. CASE SpaceRequest(w) /\ ByWorkspaces
      BY <1>0, <2>4, SpaceJobs, OthersDoNot, AuditElsewhere
         DEF ByWorkspaces, Elsewhere, SpacePcs, BetweenPcs, Leads
    <2> QED  BY <1>3, <2>1, <2>2, <2>3, <2>4 DEF Arrive
  <1>4. ASSUME NEW w \in Threads, Continue(w) PROVE RecordsInv'
    <2>1. CASE AuditStep(w)
      BY <2>1, AuditHandlers
    <2>2. CASE AccountStep(w) /\ ByAccounts
      BY <1>0, <2>2, AccountsLog, AuditElsewhere DEF ByAccounts, OnwardPcs, BetweenPcs, Leads
    <2>3. CASE ToolStep(w) /\ ByTools
      BY <1>0, <2>3, ToolJobs, OthersDoNot, AuditElsewhere
         DEF ByTools, Elsewhere, ToolPcs, BetweenPcs, Leads
    <2>4. CASE SpaceStep(w) /\ ByWorkspaces
      BY <1>0, <2>4, SpaceJobs, OthersDoNot, AuditElsewhere
         DEF ByWorkspaces, Elsewhere, SpacePcs, BetweenPcs, Leads
    <2>5. CASE Denied(w) /\ UNCHANGED audit
      <3>1. Leads(w, {"rest"}) /\ job[w].pc \notin BetweenPcs
        BY <1>0, <2>5 DEF Denied, End, At, Rest, Leads, JobsOK, BetweenPcs
      <3> QED  BY <2>5, <3>1, AuditElsewhere DEF BetweenPcs, Leads
    <2> QED  BY <1>4, <2>1, <2>2, <2>3, <2>4, <2>5 DEF Continue
  <1>5. CASE Clock
    BY <1>1, <1>5 DEF Clock, Expire
  <1>6. CASE Restart
    BY <1>6, RecordsRestart
  <1>7. CASE UNCHANGED avars
    BY <1>1, <1>7 DEF avars
  <1> QED  BY <1>2, <1>3, <1>4, <1>5, <1>6, <1>7 DEF ANext

(***************************************************************************)
(* However writing to the audit, removing from it and restarts of the      *)
(* server overlap, once all is quiet the file and the table tell the same, *)
(* but for entries of which a part failed or that were under way when a    *)
(* removal was.                                                            *)
(***************************************************************************)
THEOREM AuditAgrees == ASpec => []RecordsAgree
  <1>1. AInit => RecordsInv
    <2> SUFFICES ASSUME AInit PROVE RecordsInv
      OBVIOUS
    <2>1. JobsOK /\ \A v \in Threads : job[v].pc = "rest"
      BY DEF AInit, JobsOK, Rest
    <2>2. /\ Pending = {} /\ AtSteps({"remove_write"}) = {} /\ Removing = {}
          /\ \A e : Against(e) = {}
      BY <2>1 DEF Pending, Logging, Removing, AtSteps, Against
    <2>3. file = rows
      BY DEF AInit, AuditInit
    <2> QED  BY <2>1, <2>2, <2>3 DEF RecordsInv, EntryOK
  <1>2. RecordsInv => RecordsAgree
    <2> SUFFICES ASSUME RecordsInv, Logging \cup Removing = {}
                 PROVE  (file \ rows) \cup (rows \ file) \subseteq exposed
      BY DEF RecordsAgree
    <2>1. \A e : Against(e) = {} /\ e \notin Pending
      BY DEF Against, Pending
    <2> QED  BY <2>1 DEF RecordsInv, EntryOK
  <1> QED  BY <1>1, <1>2, RecordsStep, PTL DEF ASpec

-----------------------------------------------------------------------------
(***************************************************************************)
(* The description of an engine tool, stored and read again.               *)
(***************************************************************************)

LEMMA StrippedOnce == \A s : Strip(Strip(s)) = Strip(s)
  BY DEF Strip

LEMMA StrippedText ==
  ASSUME NEW x, Text(x)
  PROVE  Strip(x.v) # "" /\ Strip(Strip(x.v)) = Strip(x.v)
  BY StrippedOnce DEF Text

LEMMA TextAgain ==
  ASSUME NEW s, s # "", Strip(s) = s
  PROVE  Text(Str(s)) /\ Strip(Str(s).v) = s /\ Str(s).v = s /\ Str(s).is = "str"
  BY DEF Text, Str

LEMMA StrFacts ==
  ASSUME NEW x, NEW s, x = Str(s)
  PROVE  /\ x.is = "str" /\ x.v = s /\ OrNull(x, "str")
         /\ \A d : Else(x, d) = s
         /\ \A d : s # "" => Or(x, d) = s
         /\ \A enum : s \in enum => OneOf(x, enum)
  <1>1. x.is = "str" /\ x.v = s
    BY DEF Str
  <1> QED  BY <1>1 DEF OrNull, Else, Or, Falsy, OneOf

LEMMA BoolFacts ==
  ASSUME NEW x, NEW p \in BOOLEAN, x = Bool(p)
  PROVE  (x.is = "absent" \/ ~Falsy(x)) = p
  <1>1. x.is = "bool" /\ x.v = p
    BY DEF Bool
  <1>2. Falsy(x) <=> ~p
    BY <1>1 DEF Falsy
  <1>3. x.is # "absent"
    BY <1>1
  <1> QED  BY <1>2, <1>3

\* A node that is accepted.
LEMMA NodeAgain ==
  ASSUME NEW n, NodeFits(n)
  PROVE  /\ NodeFits(StoredNode(BuiltNode(n)))
         /\ BuiltNode(StoredNode(BuiltNode(n))) = BuiltNode(n)
         /\ BuiltNode(n).max_attempts >= 1 /\ BuiltNode(n).on_failure \in FailureMode
         /\ BuiltNode(n).id # ""
  <1> DEFINE b == BuiltNode(n)
             r == StoredNode(b)
  <1>1. /\ b.id = Strip(Of(n, "id").v) /\ b.id # "" /\ Strip(b.id) = b.id
        /\ b.action_type = Strip(Of(n, "action_type").v) /\ b.action_type # ""
        /\ Strip(b.action_type) = b.action_type
    <2>1. Text(Of(n, "id")) /\ Text(Of(n, "action_type"))
      BY DEF NodeFits
    <2>2. b.id = Strip(Of(n, "id").v) /\ b.action_type = Strip(Of(n, "action_type").v)
      BY DEF BuiltNode
    <2> HIDE DEF b
    <2>3. b.id # "" /\ Strip(b.id) = b.id
      BY <2>1, <2>2, StrippedText
    <2>4. b.action_type # "" /\ Strip(b.action_type) = b.action_type
      BY <2>1, <2>2, StrippedText
    <2> QED  BY <2>2, <2>3, <2>4
  <1>2. b.timeout_ms >= 1
    BY DEF NodeFits, BuiltNode, Whole, Else
  <1>3. b.max_attempts >= 1
    BY DEF NodeFits, BuiltNode, RetryFits, Whole, Else
  <1>4. b.on_failure \in FailureMode
    BY DEF NodeFits, BuiltNode, OneOf, Else, FailureMode
  <1>5. b = [id |-> b.id, action_type |-> b.action_type, timeout_ms |-> b.timeout_ms,
             max_attempts |-> b.max_attempts, on_failure |-> b.on_failure]
    BY DEF BuiltNode
  <1> HIDE DEF b
  <1>6. /\ Of(r, "id") = Str(b.id) /\ Of(r, "action_type") = Str(b.action_type)
        /\ Of(r, "params") = Dict(<<>>) /\ Of(r, "template_refs") = Dict(<<>>)
        /\ Of(r, "timeout_ms") = Num(b.timeout_ms) /\ Of(r, "condition") = Null
        /\ Of(r, "on_failure") = Str(b.on_failure)
        /\ Of(r, "retry") = Dict([max_attempts |-> Num(b.max_attempts)])
    BY DEF StoredNode, Of, Dict
  <1>7. LET t == Of(r, "retry")
        IN  /\ t.is = "dict" /\ Of(t, "max_attempts") = Num(b.max_attempts)
            /\ Of(t, "backoff_ms") = Unset /\ Of(t, "retryable_errors") = Unset
    BY <1>6 DEF Of, Dict
  <1>8. NodeFits(r)
    <2>1. Text(Of(r, "id")) /\ Text(Of(r, "action_type"))
      BY <1>1, <1>6, TextAgain
    <2>2. RetryFits(Of(r, "retry"))
      BY <1>3, <1>7 DEF RetryFits, Given, Whole, Num, Unset
    <2>3. Whole(Of(r, "timeout_ms"), 1)
      BY <1>2, <1>6 DEF Whole, Num
    <2>4. OneOf(Of(r, "on_failure"), FailureMode)
      BY <1>4, <1>6 DEF OneOf, Str
    <2> QED  BY <1>6, <2>1, <2>2, <2>3, <2>4 DEF NodeFits, Given, OrNull, Dict, Null
  <1>9. BuiltNode(r) = b
    <2>1. /\ Strip(Of(r, "id").v) = b.id /\ Strip(Of(r, "action_type").v) = b.action_type
      BY <1>1, <1>6, TextAgain
    <2>2. Else(Of(r, "timeout_ms"), 30000) = b.timeout_ms
      BY <1>6 DEF Else, Num
    <2>3. Else(Of(Of(r, "retry"), "max_attempts"), 1) = b.max_attempts
      BY <1>7 DEF Else, Num
    <2>4. Else(Of(r, "on_failure"), "fail_graph") = b.on_failure
      BY <1>6 DEF Else, Str
    <2> HIDE DEF r
    <2> QED  BY <1>5, <2>1, <2>2, <2>3, <2>4 DEF BuiltNode
  <1> QED  BY <1>1, <1>3, <1>4, <1>8, <1>9 DEF b

LEMMA EdgeAgain ==
  ASSUME NEW e, EdgeFits(e), NEW b, b = <<Strip(Of(e, "from_node_id").v), Strip(Of(e, "to_node_id").v)>>
  PROVE  /\ EdgeFits(StoredEdge(b))
         /\ <<Strip(Of(StoredEdge(b), "from_node_id").v),
              Strip(Of(StoredEdge(b), "to_node_id").v)>> = b
  <1>1. b[1] # "" /\ b[2] # "" /\ Strip(b[1]) = b[1] /\ Strip(b[2]) = b[2] /\ b = <<b[1], b[2]>>
    BY StrippedOnce, StrippedText DEF EdgeFits
  <1>2. /\ Of(StoredEdge(b), "from_node_id") = Str(b[1])
        /\ Of(StoredEdge(b), "to_node_id") = Str(b[2])
        /\ Of(StoredEdge(b), "condition") = Null
    BY DEF StoredEdge, Of, Dict
  <1>3. /\ Text(Str(b[1])) /\ Text(Str(b[2])) /\ Strip(Str(b[1]).v) = b[1] /\ Strip(Str(b[2]).v) = b[2]
    BY <1>1, TextAgain
  <1>4. EdgeFits(StoredEdge(b))
    BY <1>2, <1>3 DEF EdgeFits, OrNull, Null
  <1> QED  BY <1>1, <1>2, <1>3, <1>4

\* What is listed by its places has as many.
LEMMA LenOfList ==
  ASSUME NEW n \in Nat, NEW f, f = [i \in 1 .. n |-> f[i]]
  PROVE  Len(f) = n
  <1>1. f \in Seq({f[i] : i \in 1 .. n})
    OBVIOUS
  <1> QED  BY <1>1

\* As many ids as nodes: each node has its own.
LEMMA OwnIds ==
  ASSUME NEW n \in Nat, NEW f, DOMAIN f = 1 .. n, Cardinality({f[i] : i \in 1 .. n}) = n
  PROVE  \A i, j \in 1 .. n : f[i] = f[j] => i = j
  <1> DEFINE S == 1 .. n
             T == {f[i] : i \in 1 .. n}
             h == [i \in S |-> f[i]]
  <1>1. IsFiniteSet(S) /\ Cardinality(S) = n
    BY FS_Interval
  <1>2. h \in Surjection(S, T)
    BY DEF Surjection
  <1>3. h \in Injection(S, T)
    BY <1>1, <1>2, FS_SurjSameCardinalityImpliesInj
  <1> QED  BY <1>3 DEF Injection, IsInjective

LEMMA GraphAgain ==
  ASSUME NEW g, GraphFits(g), IsList(Of(g, "nodes"))
  PROVE  /\ GraphFits(StoredGraph(BuiltGraph(g)))
         /\ BuiltGraph(StoredGraph(BuiltGraph(g))) = BuiltGraph(g)
         /\ \A m, n \in DOMAIN BuiltGraph(g).nodes :
              BuiltGraph(g).nodes[m].id = BuiltGraph(g).nodes[n].id => m = n
         /\ \A n \in DOMAIN BuiltGraph(g).nodes :
              /\ BuiltGraph(g).nodes[n].max_attempts >= 1
              /\ BuiltGraph(g).nodes[n].on_failure \in FailureMode
  <1> DEFINE b  == BuiltGraph(g)
             r  == StoredGraph(b)
             ns == Of(g, "nodes").v
             es == Many(Of(g, "edges"))
             e  == Strip(Else(Of(g, "entry_node_id"), ""))
  <1>1. /\ b = [nodes |-> b.nodes, edges |-> b.edges, entry |-> b.entry]
        /\ b.nodes = [i \in DOMAIN ns |-> BuiltNode(ns[i])]
        /\ b.edges = [i \in DOMAIN es |-> <<Strip(Of(es[i], "from_node_id").v),
                                            Strip(Of(es[i], "to_node_id").v)>>]
        /\ b.entry = IF e = "" THEN Strip(Of(ns[1], "id").v) ELSE e
    BY DEF BuiltGraph, GraphFits, Many
  <1>2. /\ ns \in Seq({ns[i] : i \in DOMAIN ns}) /\ ns # <<>>
        /\ \A i \in DOMAIN ns : NodeFits(ns[i])
        /\ GraphIsSound(b)
    BY DEF GraphFits, IsList
  <1>3. \A i \in DOMAIN es : EdgeFits(es[i])
    BY DEF GraphFits, Many
  <1>4. DOMAIN ns = 1 .. Len(ns) /\ Len(ns) \in Nat /\ 1 \in DOMAIN ns
    BY <1>2
  <1>5. b.entry # "" /\ Strip(b.entry) = b.entry
    <2>1. Text(Of(ns[1], "id"))
      BY <1>2, <1>4 DEF NodeFits
    <2>2. Strip(e) = e
      BY StrippedOnce
    <2>3. Strip(Of(ns[1], "id").v) # "" /\ Strip(Strip(Of(ns[1], "id").v)) = Strip(Of(ns[1], "id").v)
      BY <2>1, StrippedText
    <2> HIDE DEF b, e
    <2> QED  BY <1>1, <2>2, <2>3
  <1> HIDE DEF b, e
  <1>6. /\ Of(r, "nodes") = List([i \in DOMAIN b.nodes |-> StoredNode(b.nodes[i])])
        /\ Of(r, "edges") = List([i \in DOMAIN b.edges |-> StoredEdge(b.edges[i])])
        /\ Of(r, "entry_node_id") = Str(b.entry) /\ r.is = "dict"
    BY DEF StoredGraph, Of, Dict
  <1> HIDE DEF r
  <1> DEFINE ms == [i \in DOMAIN b.nodes |-> StoredNode(b.nodes[i])]
             ds == [i \in DOMAIN b.edges |-> StoredEdge(b.edges[i])]
  <1>7. /\ Of(r, "nodes").is = "list" /\ Of(r, "nodes").v = ms /\ Many(Of(r, "nodes")) = ms
        /\ Of(r, "edges").is = "list" /\ Of(r, "edges").v = ds /\ Many(Of(r, "edges")) = ds
    BY <1>6 DEF List, Many
  <1>8. /\ DOMAIN b.nodes = DOMAIN ns /\ DOMAIN ms = DOMAIN ns
        /\ \A i \in DOMAIN ns : b.nodes[i] = BuiltNode(ns[i]) /\ ms[i] = StoredNode(b.nodes[i])
    BY <1>1
  <1>9. \A i \in DOMAIN ns : NodeFits(ms[i]) /\ BuiltNode(ms[i]) = b.nodes[i]
    BY <1>2, <1>8, NodeAgain
  <1>10. /\ DOMAIN b.edges = DOMAIN es /\ DOMAIN ds = DOMAIN es
         /\ \A i \in DOMAIN es :
              /\ b.edges[i] = <<Strip(Of(es[i], "from_node_id").v), Strip(Of(es[i], "to_node_id").v)>>
              /\ ds[i] = StoredEdge(b.edges[i])
    BY <1>1
  <1>11. \A i \in DOMAIN es :
           /\ EdgeFits(ds[i])
           /\ <<Strip(Of(ds[i], "from_node_id").v), Strip(Of(ds[i], "to_node_id").v)>> = b.edges[i]
    BY <1>3, <1>10, EdgeAgain
  <1>12. Strip(Else(Of(r, "entry_node_id"), "")) = b.entry
    <2>1. Of(r, "entry_node_id") = Str(b.entry)
      BY <1>6
    <2>2. Else(Of(r, "entry_node_id"), "") = b.entry
      BY <2>1, StrFacts
    <2> QED  BY <1>5, <2>2
  <1> HIDE DEF ms, ds
  <1>13. BuiltGraph(r) = b
    <2>1. [i \in DOMAIN ms |-> BuiltNode(ms[i])] = b.nodes
      BY <1>1, <1>8, <1>9
    <2>2. [i \in DOMAIN ds |-> <<Strip(Of(ds[i], "from_node_id").v),
                                 Strip(Of(ds[i], "to_node_id").v)>>] = b.edges
      BY <1>1, <1>10, <1>11
    <2> QED  BY <1>1, <1>5, <1>7, <1>12, <2>1, <2>2 DEF BuiltGraph
  <1>14. GraphFits(r)
    <2>1. ms # <<>>
      BY <1>4, <1>8
    <2>2. Given(Of(r, "edges"), "list") /\ Given(Of(r, "entry_node_id"), "str")
      BY <1>6, <1>7 DEF Given, Str
    <2> QED  BY <1>2, <1>6, <1>7, <1>8, <1>9, <1>10, <1>11, <1>13, <2>1, <2>2 DEF GraphFits
  <1>15. \A m, n \in DOMAIN b.nodes : b.nodes[m].id = b.nodes[n].id => m = n
    <2> DEFINE f == [i \in DOMAIN ns |-> b.nodes[i].id]
    <2>1. Len(b.nodes) = Len(ns)
      <3>1. b.nodes = [i \in 1 .. Len(ns) |-> BuiltNode(ns[i])]
        BY <1>1, <1>4
      <3>2. b.nodes = [i \in 1 .. Len(ns) |-> b.nodes[i]]
        BY <3>1
      <3> QED  BY <1>4, <3>2, LenOfList
    <2>2. {b.nodes[i].id : i \in DOMAIN b.nodes} = {f[i] : i \in 1 .. Len(ns)}
      BY <1>4, <1>8
    <2>3. Cardinality({f[i] : i \in 1 .. Len(ns)}) = Len(ns)
      BY <1>2, <2>1, <2>2 DEF GraphIsSound
    <2>4. DOMAIN f = 1 .. Len(ns)
      BY <1>4
    <2> HIDE DEF f
    <2>5. \A m, n \in 1 .. Len(ns) : f[m] = f[n] => m = n
      BY <1>4, <2>3, <2>4, OwnIds
    <2> QED  BY <1>4, <1>8, <2>5 DEF f
  <1>16. \A n \in DOMAIN b.nodes : b.nodes[n].max_attempts >= 1 /\ b.nodes[n].on_failure \in FailureMode
    BY <1>2, <1>8, NodeAgain
  <1> QED  BY <1>13, <1>14, <1>15, <1>16 DEF b, r

\* A name that is kept is a name again.
LEMMA NamesAgain ==
  ASSUME NEW x, SpecsFit(x), IsList(x),
         NEW f, f = [i \in DOMAIN Many(x) |-> Strip(Of(x.v[i], "name").v)]
  PROVE  LET y == List([i \in DOMAIN f |-> Dict([name |-> Str(f[i])])])
         IN  /\ SpecsFit(y)
             /\ [i \in DOMAIN Many(y) |-> Strip(Of(y.v[i], "name").v)] = f
  <1> DEFINE g == [i \in DOMAIN f |-> Dict([name |-> Str(f[i])])]
             y == List(g)
  <1>1. \A i \in DOMAIN f : f[i] # "" /\ Strip(f[i]) = f[i]
    <2>1. CASE x.is = "list" /\ x.v # <<>>
      <3>1. \A i \in DOMAIN f : SpecFits(x.v[i])
        BY <2>1 DEF SpecsFit, Falsy, Many
      <3> QED  BY <3>1, StrippedText DEF SpecFits
    <2>2. CASE x.is # "list" \/ x.v = <<>>
      <3>1. DOMAIN Many(x) = {}
        BY <2>2 DEF Many
      <3> QED  BY <3>1
    <2> QED  BY <2>1, <2>2
  <1>2. y.is = "list" /\ y.v = g /\ Many(y) = g
    BY DEF List, Many
  <1>3. DOMAIN g = DOMAIN f /\ \A i \in DOMAIN f : Of(g[i], "name") = Str(f[i])
    BY DEF Of, Dict
  <1>4. f = [i \in DOMAIN f |-> f[i]]
    OBVIOUS
  <1> HIDE DEF g, y
  <1>5. \A i \in DOMAIN f : SpecFits(g[i]) /\ Strip(Of(g[i], "name").v) = f[i]
    <2> SUFFICES ASSUME NEW i \in DOMAIN f
                 PROVE  SpecFits(g[i]) /\ Strip(Of(g[i], "name").v) = f[i]
      OBVIOUS
    <2>1. Of(g[i], "name") = Str(f[i]) /\ f[i] # "" /\ Strip(f[i]) = f[i]
      BY <1>1, <1>3
    <2>2. Text(Str(f[i])) /\ Strip(Str(f[i]).v) = f[i]
      BY <2>1, TextAgain
    <2> QED  BY <2>1, <2>2 DEF SpecFits
  <1>6. SpecsFit(y)
    BY <1>2, <1>3, <1>5 DEF SpecsFit
  <1>7. [i \in DOMAIN Many(y) |-> Strip(Of(y.v[i], "name").v)] = f
    BY <1>2, <1>3, <1>4, <1>5
  <1> QED  BY <1>6, <1>7 DEF y, g

\* validate_tool_definition of what _to_json wrote: whatever was accepted once is
\* accepted at every later use, as the same tool, whose graph the runtime can take.
THEOREM AcceptedForEver ==
  ASSUME NEW raw, Fits(raw), IsList(Of(Of(raw, "graph"), "nodes")), IsList(Of(raw, "inputs"))
  PROVE  LoadsAgain(raw)
  <1> DEFINE b == Built(raw)
             r == Stored(b)
             g == Of(raw, "graph")
  <1>1. /\ b = [id |-> b.id, name |-> b.name, version |-> b.version, status |-> b.status,
                trigger |-> b.trigger, graph |-> b.graph, inputs |-> b.inputs,
                required |-> b.required, level |-> b.level]
        /\ b.id = Or(Of(raw, "id"), NewId)
        /\ b.name = Strip(Of(raw, "name").v) /\ b.version = Strip(Of(raw, "version").v)
        /\ b.status = Else(Of(raw, "status"), "draft")
        /\ b.trigger = Else(Of(Of(raw, "trigger"), "type"), "manual")
        /\ b.graph = BuiltGraph(g)
        /\ b.inputs = [i \in DOMAIN Many(Of(raw, "inputs")) |->
                         Strip(Of(Of(raw, "inputs").v[i], "name").v)]
        /\ b.required \in BOOLEAN
        /\ b.level = Else(Of(Of(raw, "approval"), "level"), "admin")
    BY DEF Built
  <1> HIDE DEF b
  <1>2. /\ r.is = "dict"
        /\ Of(r, "id") = Str(b.id) /\ Of(r, "name") = Str(b.name)
        /\ Of(r, "version") = Str(b.version) /\ Of(r, "description") = Str("")
        /\ Of(r, "status") = Str(b.status)
        /\ Of(r, "trigger") = Dict([type |-> Str(b.trigger)])
        /\ Of(r, "graph") = StoredGraph(b.graph)
    BY DEF Stored, Of, Dict
  <1>3. /\ Of(r, "inputs") = List([i \in DOMAIN b.inputs |-> Dict([name |-> Str(b.inputs[i])])])
        /\ Of(r, "outputs") = List(<<>>)
        /\ Of(r, "approval") = Dict([required |-> Bool(b.required), level |-> Str(b.level),
                                     approvers |-> List(<<>>)])
        /\ Of(r, "schedule").is = "dict" /\ Of(r, "ai").is = "dict"
        /\ Of(r, "metadata").is = "dict"
    BY DEF Stored, Of, Dict
  <1>4. /\ Of(Of(r, "trigger"), "type") = Str(b.trigger) /\ Of(r, "trigger").is = "dict"
    <2>1. LET t == Dict([type |-> Str(b.trigger)]) IN t.is = "dict" /\ Of(t, "type") = Str(b.trigger)
      BY DEF Of, Dict
    <2>2. Of(r, "trigger") = Dict([type |-> Str(b.trigger)])
      BY <1>2
    <2> QED  BY <2>1, <2>2
  <1> HIDE DEF r
  <1>5. b.id # ""
    BY <1>1 DEF Fits, Or, Falsy, NewId
  <1>6. /\ b.name # "" /\ Strip(b.name) = b.name /\ b.version # "" /\ Strip(b.version) = b.version
    <2>1. Text(Of(raw, "name")) /\ Text(Of(raw, "version"))
      BY DEF Fits
    <2> QED  BY <1>1, <2>1, StrippedText
  <1>7. b.status \in ToolStatus /\ b.trigger \in TriggerType
    BY <1>1 DEF Fits, OneOf, Else, ToolStatus, TriggerType
  <1>8. /\ Or(Of(r, "id"), NewId) = b.id /\ Of(r, "id").is = "str"
        /\ Else(Of(r, "status"), "draft") = b.status /\ OneOf(Of(r, "status"), ToolStatus)
        /\ OrNull(Of(r, "description"), "str")
        /\ Else(Of(Of(r, "trigger"), "type"), "manual") = b.trigger
        /\ OneOf(Of(Of(r, "trigger"), "type"), TriggerType)
    <2>1. Of(r, "id") = Str(b.id)
      BY <1>2
    <2>2. Of(r, "status") = Str(b.status)
      BY <1>2
    <2>3. Of(r, "description") = Str("")
      BY <1>2
    <2>4. Of(Of(r, "trigger"), "type") = Str(b.trigger)
      BY <1>4
    <2>5. Or(Of(r, "id"), NewId) = b.id /\ Of(r, "id").is = "str"
      <3> DEFINE x == Of(r, "id")
                 s == b.id
      <3>1. x = Str(s) /\ s # ""
        BY <1>5, <2>1
      <3> HIDE DEF x, s
      <3>2. x.is = "str" /\ \A d : Or(x, d) = s
        BY <3>1, StrFacts
      <3> QED  BY <3>2 DEF x, s
    <2>6. Else(Of(r, "status"), "draft") = b.status /\ OneOf(Of(r, "status"), ToolStatus)
      BY <1>7, <2>2, StrFacts
    <2>7. OrNull(Of(r, "description"), "str")
      BY <2>3, StrFacts
    <2>8. /\ Else(Of(Of(r, "trigger"), "type"), "manual") = b.trigger
          /\ OneOf(Of(Of(r, "trigger"), "type"), TriggerType)
      BY <1>7, <2>4, StrFacts
    <2> QED  BY <2>5, <2>6, <2>7, <2>8
  <1>9. b.level \in ApprovalLevel
    <2>1. CASE Falsy(Of(raw, "approval"))
      BY <1>1, <2>1 DEF Falsy, Of, Unset, Else, ApprovalLevel
    <2>2. CASE ~Falsy(Of(raw, "approval"))
      <3>1. OneOf(Of(Of(raw, "approval"), "level"), ApprovalLevel)
        BY <2>2 DEF Fits, ApprovalFits
      <3> QED  BY <1>1, <3>1 DEF OneOf, Else, ApprovalLevel
    <2> QED  BY <2>1, <2>2
  <1>10. /\ GraphFits(StoredGraph(b.graph)) /\ BuiltGraph(StoredGraph(b.graph)) = b.graph
         /\ \A m, n \in DOMAIN b.graph.nodes : b.graph.nodes[m].id = b.graph.nodes[n].id => m = n
         /\ \A n \in DOMAIN b.graph.nodes :
              /\ b.graph.nodes[n].max_attempts >= 1 /\ b.graph.nodes[n].on_failure \in FailureMode
    <2>1. GraphFits(g)
      BY DEF Fits
    <2> QED  BY <1>1, <2>1, GraphAgain
  <1>11. /\ SpecsFit(Of(r, "inputs"))
         /\ [i \in DOMAIN Many(Of(r, "inputs")) |-> Strip(Of(Of(r, "inputs").v[i], "name").v)] = b.inputs
    <2>1. SpecsFit(Of(raw, "inputs"))
      BY DEF Fits
    <2> QED  BY <1>1, <1>3, <2>1, NamesAgain
  <1>12. Fits(r)
    <2>1. Text(Of(r, "name")) /\ Text(Of(r, "version"))
      BY <1>2, <1>6, TextAgain
    <2>5. SpecsFit(Of(r, "outputs"))
      BY <1>3 DEF SpecsFit, List
    <2>6. ApprovalFits(Of(r, "approval"))
      <3>1. /\ Of(Of(r, "approval"), "level") = Str(b.level) /\ Of(r, "approval").is = "dict"
            /\ Of(Of(r, "approval"), "approvers") = List(<<>>)
        BY <1>3 DEF Of, Dict
      <3> QED  BY <1>9, <3>1 DEF ApprovalFits, OneOf, Str, Listable, List
    <2>7. \A key \in {"schedule", "ai", "metadata"} : Of(r, key).is = "dict"
      BY <1>3
    <2> QED  BY <1>2, <1>10, <1>11, <1>4, <1>8, <2>1, <2>5, <2>6, <2>7 DEF Fits
  <1>13. Built(r) = b
    <2>2. Strip(Of(r, "name").v) = b.name /\ Strip(Of(r, "version").v) = b.version
      BY <1>2, <1>6, TextAgain
    <2>5. Else(Of(Of(r, "approval"), "level"), "admin") = b.level
      <3>1. Of(Of(r, "approval"), "level") = Str(b.level)
        BY <1>3 DEF Of, Dict
      <3> QED  BY <3>1 DEF Else, Str
    <2>6. (Of(Of(r, "approval"), "required").is = "absent"
             \/ ~Falsy(Of(Of(r, "approval"), "required"))) = b.required
      <3>1. Of(Of(r, "approval"), "required") = Bool(b.required)
        BY <1>3 DEF Of, Dict
      <3>2. b.required \in BOOLEAN
        BY <1>1
      <3> QED  BY <3>1, <3>2, BoolFacts
    <2> QED  BY <1>1, <1>2, <1>10, <1>11, <1>8, <2>2, <2>5, <2>6 DEF Built
  <1> QED  BY <1>10, <1>12, <1>13 DEF LoadsAgain, b, r

-----------------------------------------------------------------------------
(***************************************************************************)
(* From a text to the draft of a tool.                                     *)
(***************************************************************************)

\* A list of T without repetitions.
Plain(s, T) ==
  s \in Seq(T) /\ IsFiniteSet(ToSetOf(s)) /\ Len(s) = Cardinality(ToSetOf(s))

LEMMA PlainAppend ==
  ASSUME NEW T, NEW s, Plain(s, T), NEW x \in T, x \notin ToSetOf(s)
  PROVE  Plain(s \o <<x>>, T) /\ ToSetOf(s \o <<x>>) = ToSetOf(s) \cup {x}
  <1> DEFINE r == s \o <<x>>
  <1>1. s \in Seq(T) /\ <<x>> \in Seq(T)
    BY DEF Plain
  <1>2. r \in Seq(T) /\ Len(r) = Len(s) + 1 /\ DOMAIN r = 1 .. Len(s) + 1
    BY <1>1
  <1>3. \A i \in DOMAIN r : r[i] = IF i <= Len(s) THEN s[i] ELSE x
    BY <1>1
  <1>4. Len(s) \in Nat /\ DOMAIN s = 1 .. Len(s)
    BY <1>1
  <1> HIDE DEF r
  <1>5. ToSetOf(r) = ToSetOf(s) \cup {x}
    <2>1. ToSetOf(r) \subseteq ToSetOf(s) \cup {x}
      BY <1>2, <1>3, <1>4 DEF ToSetOf
    <2>2. \A i \in DOMAIN s : i \in DOMAIN r /\ r[i] = s[i]
      BY <1>2, <1>3, <1>4
    <2>3. Len(s) + 1 \in DOMAIN r /\ r[Len(s) + 1] = x
      BY <1>2, <1>3, <1>4
    <2> QED  BY <2>1, <2>2, <2>3 DEF ToSetOf
  <1>6. /\ IsFiniteSet(ToSetOf(s) \cup {x})
        /\ Cardinality(ToSetOf(s) \cup {x}) = Cardinality(ToSetOf(s)) + 1
    BY FS_AddElement DEF Plain
  <1> QED  BY <1>2, <1>5, <1>6 DEF Plain, r

\* Those of the first n types that are in some.
Among(types, some, n) == {types[i] : i \in {j \in DOMAIN types : j <= n}} \cap some

LEMMA OneMore ==
  ASSUME NEW types, NEW some, NEW n \in Nat, NEW s,
         \A i, j \in DOMAIN types : types[i] = types[j] => i = j,
         DOMAIN types \subseteq Nat,
         Plain(s, ToSetOf(types)), ToSetOf(s) = Among(types, some, n), Len(s) <= n,
         NEW t,
         n + 1 \in DOMAIN types /\ types[n + 1] \in some => t = <<types[n + 1]>>,
         ~(n + 1 \in DOMAIN types /\ types[n + 1] \in some) => t = <<>>
  PROVE  /\ Plain(s \o t, ToSetOf(types)) /\ ToSetOf(s \o t) = Among(types, some, n + 1)
         /\ Len(s \o t) <= n + 1
  <1> DEFINE r == s \o t
  <1>1. CASE n + 1 \in DOMAIN types /\ types[n + 1] \in some
    <2> DEFINE x == types[n + 1]
    <2>1. x \in ToSetOf(types)
      BY <1>1 DEF ToSetOf
    <2>2. x \notin Among(types, some, n)
      BY <1>1 DEF Among
    <2>3. Among(types, some, n + 1) = Among(types, some, n) \cup {x}
      <3>1. \A i \in DOMAIN types : i <= n + 1 <=> i <= n \/ i = n + 1
        OBVIOUS
      <3> QED  BY <1>1, <3>1 DEF Among
    <2>4. r = s \o <<x>>
      BY <1>1
    <2> HIDE DEF x
    <2>5. Plain(s \o <<x>>, ToSetOf(types)) /\ ToSetOf(s \o <<x>>) = ToSetOf(s) \cup {x}
      <3>1. x \notin ToSetOf(s)
        BY <2>2
      <3> QED  BY <2>1, <3>1, PlainAppend
    <2>6. Len(s \o <<x>>) = Len(s) + 1 /\ Len(s) \in Nat
      BY DEF Plain
    <2>7. Len(s \o <<x>>) <= n + 1
      BY <2>6
    <2> QED  BY <2>3, <2>4, <2>5, <2>7
  <1>2. CASE ~(n + 1 \in DOMAIN types /\ types[n + 1] \in some)
    <2>1. s \in Seq(ToSetOf(types))
      BY DEF Plain
    <2>2. r = s
      BY <1>2, <2>1
    <2>3. Among(types, some, n + 1) = Among(types, some, n)
      <3>1. \A i \in DOMAIN types : i <= n + 1 <=> i <= n \/ i = n + 1
        OBVIOUS
      <3> QED  BY <1>2, <3>1 DEF Among
    <2>4. Len(s) <= n + 1
      BY <2>1
    <2> QED  BY <2>2, <2>3, <2>4
  <1> QED  BY <1>1, <1>2

\* What is taken in the order of a list is in the list, once, and is taken as it is again.
LEMMA TakenInOrder ==
  ASSUME NEW types, NEW some, types \in Seq(ToSetOf(types)), Len(types) <= 5,
         \A i, j \in DOMAIN types : types[i] = types[j] => i = j
  PROVE  /\ Plain(InOrder(types, some), ToSetOf(types))
         /\ ToSetOf(InOrder(types, some)) = ToSetOf(types) \cap some
         /\ InOrder(types, ToSetOf(InOrder(types, some))) = InOrder(types, some)
         /\ Len(InOrder(types, some)) <= 5
  <1> DEFINE Take(i) == IF i \in DOMAIN types /\ types[i] \in some THEN <<types[i]>> ELSE <<>>
             T  == ToSetOf(types)
             r1 == Take(1)
             r2 == r1 \o Take(2)
             r3 == r2 \o Take(3)
             r4 == r3 \o Take(4)
             r5 == r4 \o Take(5)
             Good(s, n) == Plain(s, T) /\ ToSetOf(s) = Among(types, some, n) /\ Len(s) <= n
  <1>1. DOMAIN types = 1 .. Len(types) /\ Len(types) \in Nat /\ DOMAIN types \subseteq Nat
    OBVIOUS
  <1>2. InOrder(types, some) = r5
    BY DEF InOrder
  <1>3. Good(<<>>, 0)
    <2>1. ToSetOf(<<>>) = {} /\ Among(types, some, 0) = {}
      BY <1>1 DEF ToSetOf, Among
    <2>2. <<>> \in Seq(T) /\ Len(<<>>) = 0
      OBVIOUS
    <2>3. Plain(<<>>, T)
      BY <2>1, <2>2, FS_EmptySet DEF Plain
    <2>4. Len(<<>>) <= 0
      BY <2>2
    <2> HIDE DEF T
    <2> QED  BY <2>1, <2>3, <2>4
  <1>4. <<>> \o Take(1) = r1
    <2>0. 1 \in DOMAIN types => types[1] \in T
      BY DEF ToSetOf
    <2> HIDE DEF T
    <2>1. Take(1) \in Seq(T)
      BY <2>0
    <2> HIDE DEF Take
    <2> QED  BY <2>1
  <1>5. \A n \in Nat : \A s : Good(s, n) => Good(s \o Take(n + 1), n + 1)
    <2> SUFFICES ASSUME NEW n \in Nat, NEW s, Good(s, n) PROVE Good(s \o Take(n + 1), n + 1)
      OBVIOUS
    <2> DEFINE t == Take(n + 1)
    <2>1. /\ Plain(s, ToSetOf(types)) /\ ToSetOf(s) = Among(types, some, n) /\ Len(s) <= n
          /\ n + 1 \in DOMAIN types /\ types[n + 1] \in some => t = <<types[n + 1]>>
          /\ ~(n + 1 \in DOMAIN types /\ types[n + 1] \in some) => t = <<>>
      OBVIOUS
    <2> HIDE DEF t
    <2>2. /\ Plain(s \o t, ToSetOf(types)) /\ ToSetOf(s \o t) = Among(types, some, n + 1)
          /\ Len(s \o t) <= n + 1
      BY <1>1, <2>1, OneMore
    <2> QED  BY <2>2 DEF t
  <1> HIDE DEF Take, Good
  <1>6. Good(r1, 1)
    <2>1. 0 \in Nat /\ 0 + 1 = 1
      OBVIOUS
    <2>2. Good(<<>> \o Take(0 + 1), 0 + 1)
      BY <1>3, <1>5, <2>1
    <2> QED  BY <1>4, <2>1, <2>2
  <1>7. Good(r2, 2)
    <2>1. 1 + 1 = 2 /\ 1 \in Nat
      OBVIOUS
    <2> QED  BY <1>5, <1>6, <2>1
  <1>8. Good(r3, 3)
    <2>1. 2 + 1 = 3 /\ 2 \in Nat
      OBVIOUS
    <2> QED  BY <1>5, <1>7, <2>1
  <1>9. Good(r4, 4)
    <2>1. 3 + 1 = 4 /\ 3 \in Nat
      OBVIOUS
    <2> QED  BY <1>5, <1>8, <2>1
  <1>10. Good(r5, 5)
    <2>1. 4 + 1 = 5 /\ 4 \in Nat
      OBVIOUS
    <2> QED  BY <1>5, <1>9, <2>1
  <1>11. Among(types, some, 5) = T \cap some
    BY <1>1 DEF Among, ToSetOf
  <1>12. InOrder(types, T \cap some) = InOrder(types, some)
    <2>1. \A i \in DOMAIN types : types[i] \in T \cap some <=> types[i] \in some
      BY DEF ToSetOf
    <2> QED  BY <2>1 DEF InOrder
  <1> HIDE DEF r5
  <1> QED  BY <1>2, <1>10, <1>11, <1>12 DEF Good

LEMMA StepTypesFacts ==
  /\ StepTypes \in Seq(ToSetOf(StepTypes)) /\ Len(StepTypes) <= 5
  /\ \A i, j \in DOMAIN StepTypes : StepTypes[i] = StepTypes[j] => i = j
  /\ ToSetOf(StepTypes) = MultiStepTypes
  <1>1. /\ Len(StepTypes) = 4 /\ DOMAIN StepTypes = {1, 2, 3, 4}
        /\ StepTypes[1] = "analyze_dataset" /\ StepTypes[2] = "generate_dataset_report"
        /\ StepTypes[3] = "email_dataset_report" /\ StepTypes[4] = "send_notification"
    BY DEF StepTypes
  <1>2. ToSetOf(StepTypes) = MultiStepTypes
    BY <1>1 DEF ToSetOf, MultiStepTypes
  <1>3. StepTypes \in Seq(MultiStepTypes)
    BY DEF StepTypes, MultiStepTypes
  <1> QED  BY <1>1, <1>2, <1>3

LEMMA StepsInOrder ==
  ASSUME NEW some
  PROVE  LET steps == InOrder(StepTypes, some)
         IN  /\ Plain(steps, MultiStepTypes) /\ ToSetOf(steps) = MultiStepTypes \cap some
             /\ InOrder(StepTypes, ToSetOf(steps)) = steps
  <1> DEFINE types == StepTypes
  <1>1. /\ types \in Seq(ToSetOf(types)) /\ Len(types) <= 5
        /\ \A i, j \in DOMAIN types : types[i] = types[j] => i = j
        /\ ToSetOf(types) = MultiStepTypes
    BY StepTypesFacts
  <1> HIDE DEF types
  <1>2. /\ Plain(InOrder(types, some), ToSetOf(types))
        /\ ToSetOf(InOrder(types, some)) = ToSetOf(types) \cap some
        /\ InOrder(types, ToSetOf(InOrder(types, some))) = InOrder(types, some)
    BY <1>1, TakenInOrder
  <1> QED  BY <1>1, <1>2 DEF types

LEMMA PrimitiveTypesFacts ==
  /\ PrimitiveTypes \in Seq(ToSetOf(PrimitiveTypes)) /\ Len(PrimitiveTypes) <= 5
  /\ \A i, j \in DOMAIN PrimitiveTypes : PrimitiveTypes[i] = PrimitiveTypes[j] => i = j
  /\ ToSetOf(PrimitiveTypes) =
       {"http_request", "transform_json", "send_email", "send_notification", "format_output"}
  <1> DEFINE P == {"http_request", "transform_json", "send_email", "send_notification",
                   "format_output"}
  <1>1. /\ Len(PrimitiveTypes) = 5 /\ DOMAIN PrimitiveTypes = {1, 2, 3, 4, 5}
        /\ PrimitiveTypes[1] = "http_request" /\ PrimitiveTypes[2] = "transform_json"
        /\ PrimitiveTypes[3] = "send_email" /\ PrimitiveTypes[4] = "send_notification"
        /\ PrimitiveTypes[5] = "format_output"
    BY DEF PrimitiveTypes
  <1>2. ToSetOf(PrimitiveTypes) = P
    BY <1>1 DEF ToSetOf
  <1>3. PrimitiveTypes \in Seq(P)
    BY DEF PrimitiveTypes
  <1> QED  BY <1>1, <1>2, <1>3

\* The risk that is told is that of no step too low.
LEMMA RiskCovers ==
  ASSUME NEW steps
  PROVE  Risk(steps) \in 0 .. 2 /\ \A s \in ToSetOf(steps) : RiskOf(s) <= Risk(steps)
  <1> DEFINE Covers(r) == /\ \A s \in ToSetOf(steps) : RiskOf(s) <= r
                          /\ r = 0 \/ \E s \in ToSetOf(steps) : RiskOf(s) = r
  <1>1. \A s : RiskOf(s) \in 0 .. 2
    BY DEF RiskOf
  <1>2. \E r \in 0 .. 2 : Covers(r)
    <2>1. CASE \E s \in ToSetOf(steps) : RiskOf(s) = 2
      <3>1. Covers(2)
        BY <1>1, <2>1
      <3> QED  BY <3>1
    <2>2. CASE /\ \E s \in ToSetOf(steps) : RiskOf(s) = 1
               /\ ~\E s \in ToSetOf(steps) : RiskOf(s) = 2
      <3>1. Covers(1)
        BY <1>1, <2>2
      <3> QED  BY <3>1
    <2>3. CASE \A s \in ToSetOf(steps) : RiskOf(s) = 0
      <3>1. Covers(0)
        BY <2>3
      <3> QED  BY <3>1
    <2> QED  BY <1>1, <2>1, <2>2, <2>3
  <1>3. Risk(steps) = CHOOSE r \in 0 .. 2 : Covers(r)
    BY DEF Risk
  <1> HIDE DEF Covers
  <1>4. Risk(steps) \in 0 .. 2 /\ Covers(Risk(steps))
    BY <1>2, <1>3
  <1> QED  BY <1>4 DEF Covers

\* No step of p is a greater risk than p is said to be.
RiskIsTold(p) == \A s \in ToSetOf(p.steps) : RiskOf(s) <= p.risk

LEMMA RefinedFacts ==
  ASSUME NEW text, NEW dataset, NEW p \in Enriched(ByRules(text, dataset))
  PROVE  /\ p.source = "ai_assisted" /\ p.kind = ByRules(text, dataset).kind
         /\ RiskIsTold(p)
         /\ p.kind = "workflow" => p.steps = ByRules(text, dataset).steps
  <1> DEFINE r == ByRules(text, dataset)
  <1>1. r = [kind |-> r.kind, steps |-> r.steps, risk |-> r.risk, asks |-> r.asks,
             source |-> r.source] /\ r.risk = Risk(r.steps)
    BY DEF ByRules
  <1> HIDE DEF r
  <1>2. PICK asks, steps :
          /\ asks \in BOOLEAN
          /\ p = Refined(r, asks, steps)
          /\ r.kind = "workflow" => steps = r.steps
    BY DEF Enriched, r
  <1>3. /\ p.source = "ai_assisted" /\ p.kind = r.kind /\ p.steps = steps
        /\ p.risk = IF Risk(steps) >= r.risk THEN Risk(steps) ELSE r.risk
    BY <1>1, <1>2 DEF Refined
  <1>4. Risk(steps) <= p.risk /\ Risk(steps) \in 0 .. 2 /\ p.risk \in 0 .. 2
    BY <1>1, <1>3, RiskCovers
  <1>5. \A s : RiskOf(s) \in 0 .. 2
    BY DEF RiskOf
  <1>6. RiskIsTold(p)
    <2>1. \A s \in ToSetOf(steps) : RiskOf(s) <= Risk(steps)
      BY RiskCovers
    <2> QED  BY <1>3, <1>4, <1>5, <2>1 DEF RiskIsTold
  <1> QED  BY <1>2, <1>3, <1>6 DEF r

LEMMA ByRulesFacts ==
  ASSUME NEW text, NEW dataset
  PROVE  /\ ByRules(text, dataset).source = "rule_based"
         /\ ByRules(text, dataset).kind = Kind(text)
         /\ RiskIsTold(ByRules(text, dataset))
         /\ Kind(text) = "workflow" => ByRules(text, dataset).steps = WorkflowSteps(text)
  BY RiskCovers DEF ByRules, RiskIsTold

\* Any text, of whatever words: the steps of a workflow.
LEMMA WorkflowStepsFacts ==
  ASSUME NEW text
  PROVE  LET steps == WorkflowSteps(text)
         IN  /\ Plain(steps, MultiStepTypes)
             /\ steps = InOrder(StepTypes, ToSetOf(steps))
             /\ steps = <<>> => "remind" \in text
  <1> DEFINE steps == WorkflowSteps(text)
  <1>1. CASE AskedSteps(text) # {}
    <2> DEFINE asked == AskedSteps(text)
    <2>1. steps = InOrder(StepTypes, asked)
      BY <1>1 DEF WorkflowSteps
    <2>2. asked \subseteq ToSetOf(StepTypes)
      BY DEF AskedSteps
    <2> HIDE DEF asked
    <2>3. /\ Plain(steps, MultiStepTypes) /\ ToSetOf(steps) = asked
          /\ InOrder(StepTypes, ToSetOf(steps)) = steps
      BY <2>1, <2>2, StepsInOrder, StepTypesFacts
    <2>4. ToSetOf(<<>>) = {}
      BY DEF ToSetOf
    <2>5. steps # <<>>
      BY <1>1, <2>3, <2>4 DEF asked
    <2> QED  BY <2>3, <2>5
  <1>2. CASE AskedSteps(text) = {}
    <2>1. \/ steps = <<>> /\ "remind" \in text
          \/ \E x \in MultiStepTypes : steps = <<x>>
      BY <1>2 DEF WorkflowSteps, MultiStepTypes
    <2>2. CASE steps = <<>> /\ "remind" \in text
      <3>1. ToSetOf(<<>>) = {}
        BY DEF ToSetOf
      <3>2. Plain(<<>>, MultiStepTypes)
        BY <3>1, FS_EmptySet DEF Plain
      <3>3. InOrder(StepTypes, {}) = <<>>
        BY DEF InOrder
      <3> QED  BY <2>2, <3>1, <3>2, <3>3
    <2>3. CASE \E x \in MultiStepTypes : steps = <<x>>
      <3>1. PICK x \in MultiStepTypes : steps = <<x>>
        BY <2>3
      <3>2. ToSetOf(<<x>>) = {x}
        BY DEF ToSetOf
      <3>3. Plain(<<x>>, MultiStepTypes)
        <4>1. <<x>> \in Seq(MultiStepTypes) /\ Len(<<x>>) = 1
          OBVIOUS
        <4> QED  BY <3>2, <4>1, FS_Singleton DEF Plain
      <3>4. InOrder(StepTypes, {x}) = <<x>>
        <4> DEFINE s == InOrder(StepTypes, {x})
        <4>1. Plain(s, MultiStepTypes) /\ ToSetOf(s) = {x}
          BY StepsInOrder
        <4> HIDE DEF s
        <4>2. s \in Seq(MultiStepTypes) /\ Len(s) = 1
          BY <4>1, FS_Singleton DEF Plain
        <4>3. s[1] = x
          BY <4>1, <4>2 DEF ToSetOf
        <4>4. s = <<x>>
          BY <4>2, <4>3
        <4> QED  BY <4>4 DEF s
      <3>5. <<x>> # <<>>
        OBVIOUS
      <3> QED  BY <3>1, <3>2, <3>3, <3>4, <3>5
    <2> QED  BY <2>1, <2>2, <2>3
  <1> QED  BY <1>1, <1>2

LEMMA TextsCompose == EveryTextComposes
  <1> SUFFICES ASSUME NEW text \in SUBSET Words, NEW dataset \in BOOLEAN
               PROVE  LET rules == ByRules(text, dataset)
                      IN /\ Refinable(rules)
                         /\ rules.kind = "workflow" =>
                              /\ ToSetOf(rules.steps) \subseteq MultiStepTypes
                              /\ Len(rules.steps) = Cardinality(ToSetOf(rules.steps))
                              /\ rules.steps = InOrder(StepTypes, ToSetOf(rules.steps))
                              /\ rules.steps = <<>> => "remind" \in text
    BY DEF EveryTextComposes
  <1> DEFINE rules == ByRules(text, dataset)
  <1>1. Refinable(rules)
    BY RefinedFacts DEF Refinable, RiskIsTold
  <1>2. ASSUME rules.kind = "workflow"
        PROVE  /\ ToSetOf(rules.steps) \subseteq MultiStepTypes
               /\ Len(rules.steps) = Cardinality(ToSetOf(rules.steps))
               /\ rules.steps = InOrder(StepTypes, ToSetOf(rules.steps))
               /\ rules.steps = <<>> => "remind" \in text
    <2>1. rules.steps = WorkflowSteps(text)
      BY <1>2, ByRulesFacts
    <2> HIDE DEF rules
    <2>2. /\ Plain(rules.steps, MultiStepTypes)
          /\ rules.steps = InOrder(StepTypes, ToSetOf(rules.steps))
          /\ rules.steps = <<>> => "remind" \in text
      BY <2>1, WorkflowStepsFacts
    <2>3. ToSetOf(rules.steps) \subseteq MultiStepTypes
      BY <2>2 DEF Plain, ToSetOf
    <2> QED  BY <2>2, <2>3 DEF Plain
  <1> QED  BY <1>1, <1>2

-----------------------------------------------------------------------------
\* What may be done in a node of a draft: an action whose name is left as it is.
Actions == ToSetOf(StepTypes) \cup ToSetOf(PrimitiveTypes) \cup {"manual_review_required"}

\* A text that is kept as it is.
Trimmed(s) == s # "" /\ Strip(s) = s

LEMMA TrimmedFacts ==
  ASSUME NEW s, Trimmed(s)
  PROVE  Strip(s) = s /\ Text(Str(s)) /\ Strip(Str(s).v) = s
  BY TextAgain DEF Trimmed

LEMMA ActionsAreKept ==
  ASSUME NEW a \in Actions
  PROVE  Trimmed(a)
  BY StepTypesFacts, PrimitiveTypesFacts DEF Actions, MultiStepTypes, Strip, Trimmed

LEMMA NodeIdsFacts ==
  /\ \A i \in 1 .. 5 : Trimmed(NodeIds[i])
  /\ \A i, j \in 1 .. 5 : NodeIds[i] = NodeIds[j] => i = j
  <1>1. /\ NodeIds[1] = "node_1" /\ NodeIds[2] = "node_2" /\ NodeIds[3] = "node_3"
        /\ NodeIds[4] = "node_4" /\ NodeIds[5] = "node_5"
    BY DEF NodeIds
  <1>2. \A i \in 1 .. 5 : i = 1 \/ i = 2 \/ i = 3 \/ i = 4 \/ i = 5
    OBVIOUS
  <1> QED  BY <1>1, <1>2 DEF Strip, Trimmed

LEMMA UnsetFacts ==
  /\ \A kind : Given(Unset, kind) /\ OrNull(Unset, kind)
  /\ \A least : Whole(Unset, least)
  /\ \A enum : OneOf(Unset, enum)
  /\ \A default : Else(Unset, default) = default
  /\ Falsy(Unset)
  BY DEF Given, OrNull, Whole, OneOf, Else, Falsy, Unset

LEMMA PlannedNodeFacts ==
  ASSUME NEW x, Trimmed(x), NEW a, Trimmed(a),
         NEW n, n = PlannedNode(x, a)
  PROVE  /\ Of(n, "id") = Str(x) /\ NodeFits(n)
         /\ BuiltNode(n).id = x /\ BuiltNode(n).action_type = a
  <1>1. /\ Of(n, "id") = Str(x) /\ Of(n, "action_type") = Str(a)
        /\ \A k \in {"params", "template_refs", "timeout_ms", "condition", "on_failure", "retry"} :
             Of(n, k) = Unset
    BY DEF PlannedNode, Dict, Of
  <1>2. \A k : Of(Unset, k) = Unset
    BY DEF Of, Unset
  <1>3. /\ Text(Str(x)) /\ Text(Str(a)) /\ Strip(Str(x).v) = x /\ Strip(Str(a).v) = a
    BY TrimmedFacts
  <1>4. NodeFits(n)
    BY <1>1, <1>2, <1>3, UnsetFacts DEF NodeFits, RetryFits
  <1>5. BuiltNode(n).id = x /\ BuiltNode(n).action_type = a
    <2>1. /\ BuiltNode(n).id = Strip(Of(n, "id").v)
          /\ BuiltNode(n).action_type = Strip(Of(n, "action_type").v)
      BY DEF BuiltNode
    <2> QED  BY <1>1, <1>3, <2>1
  <1> QED  BY <1>1, <1>4, <1>5

LEMMA DraftEdges ==
  ASSUME NEW a, Trimmed(a), NEW b, Trimmed(b),
         NEW e, e = Dict([from_node_id |-> Str(a), to_node_id |-> Str(b)])
  PROVE  EdgeFits(e) /\ Strip(Of(e, "from_node_id").v) = a /\ Strip(Of(e, "to_node_id").v) = b
  <1>1. /\ Of(e, "from_node_id") = Str(a) /\ Of(e, "to_node_id") = Str(b)
        /\ Of(e, "condition") = Unset
    BY DEF Dict, Of
  <1>2. Text(Str(a)) /\ Text(Str(b)) /\ Strip(Str(a).v) = a /\ Strip(Str(b).v) = b
    BY TrimmedFacts
  <1>3. EdgeFits(e)
    BY <1>1, <1>2, UnsetFacts DEF EdgeFits
  <1> QED  BY <1>1, <1>2, <1>3

\* The nodes of a draft that does so many actions.
NodesFor(m, acts) == [i \in 1 .. m |-> PlannedNode(NodeIds[i], acts[i])]

\* What raw describes is a draft that does them one after the other.
IsDraft(raw, k, m, acts) ==
  /\ Fits(raw) /\ IsList(Of(Of(raw, "graph"), "nodes")) /\ IsList(Of(raw, "inputs"))
  /\ Built(raw).status = "draft" /\ Built(raw).required /\ Built(raw).level = "admin"
  /\ DOMAIN k.nodes = 1 .. m /\ Len(k.nodes) = m
  /\ \A i \in 1 .. m : k.nodes[i].action_type = acts[i]
  /\ k.entry = k.nodes[1].id
  /\ \A i \in 1 .. m - 1 : k.edges[i] = <<k.nodes[i].id, k.nodes[i + 1].id>>

LEMMA DraftFacts ==
  ASSUME NEW source, NEW m \in 1 .. 5, NEW acts, \A i \in 1 .. m : acts[i] \in Actions,
         NEW nodes, nodes = NodesFor(m, acts),
         NEW raw, raw = Draft_(source, nodes), NEW k, k = Built(raw).graph
  PROVE  IsDraft(raw, k, m, acts)
  <1> DEFINE g  == Of(raw, "graph")
             es == [i \in 1 .. m - 1 |->
                      Dict([from_node_id |-> Of(nodes[i], "id"), to_node_id |-> Of(nodes[i + 1], "id")])]
             b  == BuiltGraph(g)
  <1>1. /\ m \in Nat /\ 1 \in 1 .. m /\ \A i \in 1 .. m : i \in 1 .. 5
        /\ \A i \in 1 .. m - 1 : i \in 1 .. m /\ i + 1 \in 1 .. m
    OBVIOUS
  <1>2. /\ nodes = [i \in 1 .. m |-> nodes[i]] /\ DOMAIN nodes = 1 .. m /\ Len(nodes) = m
    <2>1. nodes = [i \in 1 .. m |-> nodes[i]]
      BY DEF NodesFor
    <2> QED  BY <1>1, <2>1, LenOfList
  <1>3. \A i \in 1 .. m :
          /\ Of(nodes[i], "id") = Str(NodeIds[i]) /\ NodeFits(nodes[i])
          /\ BuiltNode(nodes[i]).id = NodeIds[i] /\ BuiltNode(nodes[i]).action_type = acts[i]
    <2> SUFFICES ASSUME NEW i \in 1 .. m
                 PROVE  /\ Of(nodes[i], "id") = Str(NodeIds[i]) /\ NodeFits(nodes[i])
                        /\ BuiltNode(nodes[i]).id = NodeIds[i]
                        /\ BuiltNode(nodes[i]).action_type = acts[i]
      OBVIOUS
    <2>1. Trimmed(NodeIds[i])
      BY <1>1, NodeIdsFacts
    <2>2. Trimmed(acts[i])
      BY ActionsAreKept
    <2>3. nodes[i] = PlannedNode(NodeIds[i], acts[i])
      BY DEF NodesFor
    <2> QED  BY <2>1, <2>2, <2>3, PlannedNodeFacts
  <1>4. \A i \in 1 .. m - 1 :
          /\ EdgeFits(es[i]) /\ Strip(Of(es[i], "from_node_id").v) = NodeIds[i]
          /\ Strip(Of(es[i], "to_node_id").v) = NodeIds[i + 1]
    <2> SUFFICES ASSUME NEW i \in 1 .. m - 1
                 PROVE  /\ EdgeFits(es[i]) /\ Strip(Of(es[i], "from_node_id").v) = NodeIds[i]
                        /\ Strip(Of(es[i], "to_node_id").v) = NodeIds[i + 1]
      OBVIOUS
    <2>1. Trimmed(NodeIds[i]) /\ Trimmed(NodeIds[i + 1])
      BY <1>1, NodeIdsFacts
    <2>2. es[i] = Dict([from_node_id |-> Str(NodeIds[i]), to_node_id |-> Str(NodeIds[i + 1])])
      BY <1>1, <1>3
    <2> HIDE DEF es
    <2> QED  BY <2>1, <2>2, DraftEdges
  <1>0. Of(raw, "name") = Str(Slug) /\ Of(raw, "version") = Str("1.0.0")
    BY DEF Draft_, Dict, Of
  <1>5. /\ raw.is = "dict" /\ Of(raw, "id") = Unset /\ Of(raw, "description") = Str("goal")
        /\ Of(raw, "status") = Str("draft")
        /\ Of(raw, "inputs") = List(<<>>) /\ Of(raw, "outputs") = Unset
        /\ Of(raw, "schedule") = Unset /\ Of(raw, "ai") = Unset
        /\ Of(raw, "metadata").is = "dict"
    BY DEF Draft_, Dict, Of
  <1>6. /\ Of(raw, "trigger").is = "dict" /\ Of(Of(raw, "trigger"), "type") = Str("manual")
        /\ Of(raw, "approval").is = "dict" /\ Of(Of(raw, "approval"), "required") = Bool(TRUE)
        /\ Of(Of(raw, "approval"), "level") = Str("admin")
        /\ Of(Of(raw, "approval"), "approvers") = Unset
    BY DEF Draft_, Dict, Of
  <1>7. /\ g.is = "dict" /\ Of(g, "nodes") = List(nodes) /\ Of(g, "edges") = List(es)
        /\ Of(g, "entry_node_id") = Of(nodes[1], "id")
    BY <1>2 DEF Draft_, Dict, Of
  <1> HIDE DEF g, es
  <1>8. /\ Of(g, "nodes").is = "list" /\ Of(g, "nodes").v = nodes /\ Many(Of(g, "nodes")) = nodes
        /\ Of(g, "edges").is = "list" /\ Of(g, "edges").v = es /\ Many(Of(g, "edges")) = es
    BY <1>7 DEF List, Many
  <1>9. DOMAIN es = 1 .. m - 1
    BY DEF es
  <1>10. Strip(Else(Of(g, "entry_node_id"), "")) = NodeIds[1] /\ NodeIds[1] # ""
    <2>1. Of(g, "entry_node_id") = Str(NodeIds[1])
      BY <1>1, <1>3, <1>7
    <2>2. Else(Of(g, "entry_node_id"), "") = NodeIds[1]
      BY <2>1, StrFacts, ZenonT(60)
    <2> QED  BY <1>1, <2>2, NodeIdsFacts DEF Trimmed
  <1>11. /\ b.nodes = [i \in 1 .. m |-> BuiltNode(nodes[i])] /\ b.entry = NodeIds[1]
         /\ b.edges = [i \in 1 .. m - 1 |-> <<NodeIds[i], NodeIds[i + 1]>>]
    <2>1. /\ b.nodes = [i \in DOMAIN nodes |-> BuiltNode(nodes[i])]
          /\ b.edges = [i \in DOMAIN es |-> <<Strip(Of(es[i], "from_node_id").v),
                                              Strip(Of(es[i], "to_node_id").v)>>]
          /\ b.entry = NodeIds[1]
      BY <1>8, <1>10 DEF BuiltGraph
    <2> HIDE DEF b
    <2> QED  BY <1>2, <1>4, <1>9, <2>1
  <1> HIDE DEF b
  <1>12. /\ DOMAIN b.nodes = 1 .. m /\ Len(b.nodes) = m
         /\ \A i \in 1 .. m : b.nodes[i].id = NodeIds[i] /\ b.nodes[i].action_type = acts[i]
    <2>1. b.nodes = [i \in 1 .. m |-> b.nodes[i]]
      BY <1>11
    <2>2. Len(b.nodes) = m
      BY <1>1, <2>1, LenOfList
    <2> QED  BY <1>3, <1>11, <2>2
  <1>13. GraphIsSound(b)
    <2> DEFINE S  == 1 .. m
               h  == [i \in S |-> NodeIds[i]]
               T  == {b.nodes[i].id : i \in DOMAIN b.nodes}
    <2>1. h \in Surjection(S, T)
      BY <1>12 DEF Surjection
    <2>2. \A i, j \in S : h[i] = h[j] => i = j
      BY <1>1, NodeIdsFacts
    <2>3. h \in Bijection(S, T)
      BY <2>1, <2>2 DEF Bijection, Injection, IsInjective, Surjection
    <2>4. IsFiniteSet(S) /\ Cardinality(S) = m
      BY <1>1, FS_Interval
    <2>5. Cardinality(T) = m
      BY <2>3, <2>4, FS_Bijection DEF ExistsBijection
    <2>8. \A i \in 1 .. m : NodeIds[i] \in T
      BY <1>12
    <2>9. b.entry = NodeIds[1]
      BY <1>11
    <2>10. DOMAIN b.edges = 1 .. m - 1
      BY <1>11
    <2>11. \A i \in 1 .. m - 1 : b.edges[i][1] = NodeIds[i] /\ b.edges[i][2] = NodeIds[i + 1]
      BY <1>11
    <2> HIDE DEF T
    <2>6. b.entry \in T
      BY <1>1, <2>8, <2>9
    <2>7. \A i \in DOMAIN b.edges : {b.edges[i][1], b.edges[i][2]} \subseteq T
      BY <1>1, <2>8, <2>10, <2>11
    <2> USE DEF T
    <2> QED  BY <1>12, <2>5, <2>6, <2>7 DEF GraphIsSound
  <1>14. nodes # <<>>
    BY <1>1, <1>2
  <1>15. GraphFits(g)
    <2>2. Of(g, "entry_node_id") = Str(NodeIds[1])
      BY <1>1, <1>3, <1>7
    <2>3. Given(Of(g, "entry_node_id"), "str")
      BY <2>2 DEF Given, Str
    <2>4. Given(Of(g, "edges"), "list")
      BY <1>8 DEF Given
    <2>1. Given(Of(g, "edges"), "list") /\ Given(Of(g, "entry_node_id"), "str")
      BY <2>3, <2>4
    <2> QED  BY <1>2, <1>3, <1>4, <1>7, <1>8, <1>9, <1>13, <1>14, <2>1 DEF GraphFits, b
  <1>16. Fits(raw)
    <2>1. Text(Of(raw, "name")) /\ Text(Of(raw, "version"))
      <3>1. Trimmed(Slug) /\ Trimmed("1.0.0")
        BY DEF Trimmed, Strip, Slug
      <3> QED  BY <1>0, <3>1, TrimmedFacts
    <2>2. OrNull(Of(raw, "description"), "str") /\ OneOf(Of(raw, "status"), ToolStatus)
      BY <1>5 DEF OrNull, OneOf, Str, ToolStatus
    <2>3. OneOf(Of(Of(raw, "trigger"), "type"), TriggerType)
      BY <1>6 DEF OneOf, Str, TriggerType
    <2>4. SpecsFit(Of(raw, "inputs")) /\ SpecsFit(Of(raw, "outputs"))
      BY <1>5, UnsetFacts DEF SpecsFit, List
    <2>5. ApprovalFits(Of(raw, "approval"))
      <3>1. OneOf(Of(Of(raw, "approval"), "level"), ApprovalLevel)
        BY <1>6 DEF OneOf, Str, ApprovalLevel
      <3>2. Listable(Of(Of(raw, "approval"), "approvers"))
        BY <1>6, UnsetFacts DEF Listable
      <3> QED  BY <1>6, <3>1, <3>2 DEF ApprovalFits
    <2>6. Falsy(Of(raw, "id"))
      BY <1>5, UnsetFacts
    <2>7. \A key \in {"schedule", "ai", "metadata"} :
            Falsy(Of(raw, key)) \/ Of(raw, key).is = "dict"
      BY <1>5, UnsetFacts
    <2> QED  BY <1>5, <1>6, <1>15, <2>1, <2>2, <2>3, <2>4, <2>5, <2>6, <2>7 DEF Fits, g
  <1>17. IsList(Of(g, "nodes")) /\ IsList(Of(raw, "inputs"))
    <2>1. nodes \in Seq({nodes[i] : i \in DOMAIN nodes})
      BY <1>1, <1>2
    <2>2. IsList(Of(g, "nodes"))
      BY <1>8, <2>1 DEF IsList
    <2>3. IsList(Of(raw, "inputs"))
      <3>1. Of(raw, "inputs").v = <<>>
        BY <1>5 DEF List
      <3>2. \A S : <<>> \in Seq(S)
        OBVIOUS
      <3> QED  BY <3>1, <3>2 DEF IsList
    <2> QED  BY <2>2, <2>3
  <1>18. /\ Built(raw).graph = b /\ Built(raw).status = Else(Of(raw, "status"), "draft")
         /\ Built(raw).level = Else(Of(Of(raw, "approval"), "level"), "admin")
         /\ Built(raw).required = (Of(Of(raw, "approval"), "required").is = "absent"
                                      \/ ~Falsy(Of(Of(raw, "approval"), "required")))
    BY DEF Built, b, g
  <1>19. Built(raw).status = "draft" /\ Built(raw).level = "admin" /\ Built(raw).required
    <2>1. Built(raw).status = "draft" /\ Built(raw).level = "admin"
      <3>1. Of(raw, "status") = Str("draft") /\ Of(Of(raw, "approval"), "level") = Str("admin")
        BY <1>5, <1>6
      <3>2. Else(Str("draft"), "draft") = "draft" /\ Else(Str("admin"), "admin") = "admin"
        BY DEF Else, Str
      <3> QED  BY <1>18, <3>1, <3>2
    <2>2. Built(raw).required
      <3>1. Bool(TRUE).is # "absent" /\ ~Falsy(Bool(TRUE))
        BY DEF Falsy, Bool
      <3> QED  BY <1>6, <1>18, <3>1
    <2> QED  BY <2>1, <2>2
  <1>20. k = b
    BY <1>18
  <1>21. \A i \in 1 .. m - 1 : k.edges[i] = <<k.nodes[i].id, k.nodes[i + 1].id>>
    <2>1. \A i \in 1 .. m - 1 : b.edges[i] = <<NodeIds[i], NodeIds[i + 1]>>
      BY <1>11
    <2> SUFFICES ASSUME NEW i \in 1 .. m - 1
                 PROVE  k.edges[i] = <<k.nodes[i].id, k.nodes[i + 1].id>>
      OBVIOUS
    <2>2. k.edges[i] = <<NodeIds[i], NodeIds[i + 1]>>
      BY <1>20, <2>1
    <2>3. k.nodes[i].id = NodeIds[i] /\ k.nodes[i + 1].id = NodeIds[i + 1]
      BY <1>1, <1>12, <1>20
    <2> QED  BY <2>2, <2>3
  <1>22. k.entry = k.nodes[1].id
    BY <1>1, <1>11, <1>12, <1>20
  <1> QED  BY <1>12, <1>16, <1>17, <1>19, <1>20, <1>21, <1>22 DEF g, IsDraft

LEMMA InLargerSeq ==
  ASSUME NEW S, NEW T, S \subseteq T, NEW s \in Seq(S), Len(s) <= 5
  PROVE  s \in Seq(T) /\ Len(s) \in 0 .. 5
  <1>1. Len(s) \in Nat /\ s = [i \in 1 .. Len(s) |-> s[i]] /\ \A i \in 1 .. Len(s) : s[i] \in T
    OBVIOUS
  <1>2. s \in Seq(T)
    <2>1. s \in [1 .. Len(s) -> T]
      BY <1>1
    <2> QED  BY <1>1, <2>1
  <1> QED  BY <1>1, <1>2

LEMMA PlansAreDrafts == EveryPlanIsADraft
  <1> SUFFICES ASSUME NEW steps \in Proposable, NEW source \in {"rule_based", "ai_assisted"}
               PROVE  LET raw  == Planned(steps, source)
                          tool == Built(raw)
                          g    == tool.graph
                      IN /\ Fits(raw) /\ Fits(Stored(tool)) /\ Built(Stored(tool)) = tool
                         /\ tool.status = "draft" /\ tool.required /\ tool.level = "admin"
                         /\ steps # <<>> => [i \in DOMAIN g.nodes |-> g.nodes[i].action_type] = steps
                         /\ g.entry = g.nodes[1].id
                         /\ \A i \in 1 .. Len(g.nodes) - 1 :
                              g.edges[i] = <<g.nodes[i].id, g.nodes[i + 1].id>>
    BY DEF EveryPlanIsADraft
  <1> DEFINE raw == Planned(steps, source)
             g   == Built(raw).graph
  <1>1. steps \in Seq(Actions) /\ Len(steps) \in 0 .. 5
    <2>1. \A some : InOrder(StepTypes, some) \in Seq(Actions) /\ Len(InOrder(StepTypes, some)) \in 0 .. 5
      <3> SUFFICES ASSUME NEW some
                   PROVE  InOrder(StepTypes, some) \in Seq(Actions) /\ Len(InOrder(StepTypes, some)) \in 0 .. 5
        OBVIOUS
      <3>1. InOrder(StepTypes, some) \in Seq(ToSetOf(StepTypes)) /\ Len(InOrder(StepTypes, some)) <= 5
        BY StepTypesFacts, TakenInOrder DEF Plain
      <3>2. ToSetOf(StepTypes) \subseteq Actions
        BY DEF Actions
      <3> DEFINE s == InOrder(StepTypes, some)
                 S == ToSetOf(StepTypes)
      <3> HIDE DEF s, S
      <3>3. s \in Seq(S) /\ S \subseteq Actions /\ Len(s) <= 5
        BY <3>1, <3>2 DEF s, S
      <3>4. s \in Seq(Actions) /\ Len(s) \in 0 .. 5
        BY <3>3, InLargerSeq
      <3> QED  BY <3>4 DEF s
    <2>2. \A some : InOrder(PrimitiveTypes, some) \in Seq(Actions) /\ Len(InOrder(PrimitiveTypes, some)) \in 0 .. 5
      <3> SUFFICES ASSUME NEW some
                   PROVE  InOrder(PrimitiveTypes, some) \in Seq(Actions) /\ Len(InOrder(PrimitiveTypes, some)) \in 0 .. 5
        OBVIOUS
      <3>1. InOrder(PrimitiveTypes, some) \in Seq(ToSetOf(PrimitiveTypes)) /\ Len(InOrder(PrimitiveTypes, some)) <= 5
        BY PrimitiveTypesFacts, TakenInOrder DEF Plain
      <3>2. ToSetOf(PrimitiveTypes) \subseteq Actions
        BY DEF Actions
      <3> DEFINE s == InOrder(PrimitiveTypes, some)
                 S == ToSetOf(PrimitiveTypes)
      <3> HIDE DEF s, S
      <3>3. s \in Seq(S) /\ S \subseteq Actions /\ Len(s) <= 5
        BY <3>1, <3>2 DEF s, S
      <3>4. s \in Seq(Actions) /\ Len(s) \in 0 .. 5
        BY <3>3, InLargerSeq
      <3> QED  BY <3>4 DEF s
    <2> QED  BY <2>1, <2>2 DEF Proposable
  <1>2. \E m, acts :
          /\ m \in 1 .. 5
          /\ \A i \in 1 .. m : acts[i] \in Actions
          /\ \E src : raw = Draft_(src, NodesFor(m, acts))
          /\ steps # <<>> => acts = steps /\ m = Len(steps)
    <2>1. CASE steps = <<>>
      <3> DEFINE acts == [i \in 1 .. 1 |-> "manual_review_required"]
      <3>1. raw = Draft_("user_defined", NodesFor(1, acts))
        <4>1. raw = Draft_("user_defined", <<PlannedNode(NodeIds[1], "manual_review_required")>>)
          BY <2>1 DEF Planned, Placeholder
        <4>2. <<PlannedNode(NodeIds[1], "manual_review_required")>> = NodesFor(1, acts)
          BY DEF NodesFor
        <4> QED  BY <4>1, <4>2
      <3>2. \A i \in 1 .. 1 : acts[i] \in Actions
        BY DEF Actions
      <3>3. 1 \in 1 .. 5
        OBVIOUS
      <3> HIDE DEF acts, raw
      <3> QED  BY <2>1, <3>1, <3>2, <3>3
    <2>2. CASE steps # <<>>
      <3>1. /\ Len(steps) \in 1 .. 5 /\ DOMAIN steps = 1 .. Len(steps)
            /\ \A i \in 1 .. Len(steps) : steps[i] \in Actions
        BY <1>1, <2>2
      <3>2. raw = Draft_(source, NodesFor(Len(steps), steps))
        BY <2>2, <3>1 DEF Planned, Mapped, NodesFor
      <3> HIDE DEF raw
      <3> QED  BY <3>1, <3>2
    <2> QED  BY <2>1, <2>2
  <1> HIDE DEF raw
  <1>3. PICK m, acts :
          /\ m \in 1 .. 5
          /\ \A i \in 1 .. m : acts[i] \in Actions
          /\ \E src : raw = Draft_(src, NodesFor(m, acts))
          /\ steps # <<>> => acts = steps /\ m = Len(steps)
    BY <1>2
  <1>4. /\ Fits(raw) /\ IsList(Of(Of(raw, "graph"), "nodes")) /\ IsList(Of(raw, "inputs"))
        /\ Built(raw).status = "draft" /\ Built(raw).required /\ Built(raw).level = "admin"
        /\ DOMAIN g.nodes = 1 .. m /\ Len(g.nodes) = m
        /\ \A i \in 1 .. m : g.nodes[i].action_type = acts[i]
        /\ g.entry = g.nodes[1].id
        /\ \A i \in 1 .. m - 1 : g.edges[i] = <<g.nodes[i].id, g.nodes[i + 1].id>>
    <2>1. PICK src : raw = Draft_(src, NodesFor(m, acts))
      BY <1>3
    <2> DEFINE nodes == NodesFor(m, acts)
    <2>2. nodes = NodesFor(m, acts) /\ raw = Draft_(src, nodes)
      BY <2>1
    <2>3. m \in 1 .. 5 /\ \A i \in 1 .. m : acts[i] \in Actions
      BY <1>3
    <2>4. PICK k : k = g
      OBVIOUS
    <2> HIDE DEF nodes
    <2>5. k = Built(raw).graph
      BY <2>4
    <2> HIDE DEF g
    <2>6. IsDraft(raw, k, m, acts)
      BY <2>2, <2>3, <2>5, DraftFacts
    <2> QED  BY <2>4, <2>6 DEF IsDraft
  <1>5. LoadsAgain(raw)
    BY <1>4, AcceptedForEver
  <1>6. Fits(Stored(Built(raw))) /\ Built(Stored(Built(raw))) = Built(raw)
    BY <1>5 DEF LoadsAgain
  <1>7. steps # <<>> => [i \in DOMAIN g.nodes |-> g.nodes[i].action_type] = steps
    <2> SUFFICES ASSUME steps # <<>> PROVE [i \in DOMAIN g.nodes |-> g.nodes[i].action_type] = steps
      OBVIOUS
    <2>1. DOMAIN g.nodes = 1 .. Len(steps) /\ \A i \in 1 .. Len(steps) : g.nodes[i].action_type = steps[i]
      BY <1>3, <1>4
    <2>2. steps = [i \in 1 .. Len(steps) |-> steps[i]]
      BY <1>1
    <2> HIDE DEF g
    <2> QED  BY <2>1, <2>2
  <1> QED  BY <1>4, <1>6, <1>7 DEF raw

\* A value that is put in the place of another.
LEMMA PutInPlace ==
  ASSUME NEW f, NEW part, NEW key, NEW x, NEW g, g = [f EXCEPT ![part][key] = x]
  PROVE  /\ DOMAIN g = DOMAIN f
         /\ \A p \in DOMAIN f :
              /\ DOMAIN g[p] = DOMAIN f[p] \/ g[p] = f[p]
              /\ \A k \in DOMAIN f[p] : g[p][k] = f[p][k] \/ g[p][k] = x
  <1>1. DOMAIN g = DOMAIN f /\ \A p \in DOMAIN f : p # part => g[p] = f[p]
    OBVIOUS
  <1>2. ASSUME part \in DOMAIN f PROVE g[part] = [f[part] EXCEPT ![key] = x]
    BY <1>2
  <1>3. ASSUME part \in DOMAIN f
        PROVE  /\ DOMAIN g[part] = DOMAIN f[part]
               /\ \A k \in DOMAIN f[part] : g[part][k] = f[part][k] \/ g[part][k] = x
    BY <1>2, <1>3
  <1> QED  BY <1>1, <1>3

LEMMA ListsOfOneOrTwo ==
  /\ \A a : IsList(List(<<a>>))
  /\ \A a, b : IsList(List(<<a, b>>))
  <1>1. ASSUME NEW a PROVE IsList(List(<<a>>))
    <2>1. <<a>> \in Seq({a}) /\ {<<a>>[i] : i \in DOMAIN <<a>>} = {a}
      OBVIOUS
    <2> QED  BY <2>1 DEF IsList, List
  <1>2. ASSUME NEW a, NEW b PROVE IsList(List(<<a, b>>))
    <2>1. <<a, b>> \in Seq({a, b}) /\ {<<a, b>>[i] : i \in DOMAIN <<a, b>>} = {a, b}
      OBVIOUS
    <2> QED  BY <2>1 DEF IsList, List
  <1> QED  BY <1>1, <1>2

LEMMA DescribedLists ==
  ASSUME NEW t, NEW u, IsList(t[3]), IsList(Of(t[3], "nodes")),
         IsList(u[3]), IsList(Of(u[3], "nodes")), NEW raw, raw = Described(t, u)
  PROVE  IsList(Of(Of(raw, "graph"), "nodes")) /\ IsList(Of(raw, "inputs"))
  <1> DEFINE d0 == [Ordinary EXCEPT ![t[1]][t[2]] = t[3]]
             d  == [d0 EXCEPT ![u[1]][u[2]] = u[3]]
             Unless(x, part) == IF x.is = "absent" THEN part ELSE x
             node  == Dict([d.node EXCEPT !.retry = Unless(@, Dict(d.retry))])
             nodes == List(<<node, Dict(d.other)>>)
             edges == List(<<Dict(d.edge)>>)
             graph == Dict([d.graph EXCEPT !.nodes = Unless(@, nodes), !.edges = Unless(@, edges)])
             tool  == [d.tool EXCEPT !.graph = Unless(@, graph),
                                     !.approval = Unless(@, Dict(d.approval))]
  <1>1. raw = Dict(tool)
    BY DEF Described
  <1>2. \A part \in DOMAIN Ordinary : \A key \in DOMAIN Ordinary[part] :
          /\ part \in DOMAIN d /\ key \in DOMAIN d[part]
          /\ d[part][key] = Ordinary[part][key] \/ d[part][key] = t[3] \/ d[part][key] = u[3]
    <2>1. /\ DOMAIN d0 = DOMAIN Ordinary
          /\ \A p \in DOMAIN Ordinary :
               /\ DOMAIN d0[p] = DOMAIN Ordinary[p] \/ d0[p] = Ordinary[p]
               /\ \A k \in DOMAIN Ordinary[p] : d0[p][k] = Ordinary[p][k] \/ d0[p][k] = t[3]
      BY PutInPlace
    <2> HIDE DEF d0
    <2>2. /\ DOMAIN d = DOMAIN d0
          /\ \A p \in DOMAIN d0 :
               /\ DOMAIN d[p] = DOMAIN d0[p] \/ d[p] = d0[p]
               /\ \A k \in DOMAIN d0[p] : d[p][k] = d0[p][k] \/ d[p][k] = u[3]
      BY PutInPlace
    <2> QED  BY <2>1, <2>2
  <1> HIDE DEF d
  <1>3. /\ "tool" \in DOMAIN Ordinary /\ "graph" \in DOMAIN Ordinary.tool
        /\ "inputs" \in DOMAIN Ordinary.tool
        /\ "graph" \in DOMAIN Ordinary /\ "nodes" \in DOMAIN Ordinary.graph
        /\ Ordinary.tool.graph = Unset /\ Ordinary.graph.nodes = Unset
        /\ Ordinary.tool.inputs = List(<<Dict([name |-> Str(" a")])>>)
    BY DEF Ordinary
  <1>4. /\ "graph" \in DOMAIN d.tool /\ "inputs" \in DOMAIN d.tool /\ "nodes" \in DOMAIN d.graph
        /\ d.tool.graph = Unset \/ d.tool.graph = t[3] \/ d.tool.graph = u[3]
        /\ d.graph.nodes = Unset \/ d.graph.nodes = t[3] \/ d.graph.nodes = u[3]
        /\ \/ d.tool.inputs = List(<<Dict([name |-> Str(" a")])>>)
           \/ d.tool.inputs = t[3] \/ d.tool.inputs = u[3]
    BY <1>2, <1>3
  <1> HIDE DEF node, nodes, edges
  <1>5. IsList(nodes) /\ IsList(List(<<Dict([name |-> Str(" a")])>>))
    BY ListsOfOneOrTwo DEF nodes
  <1>6. Of(graph, "nodes") = Unless(d.graph.nodes, nodes)
    BY <1>4 DEF Dict, Of
  <1>7. IsList(Of(graph, "nodes"))
    <2>1. d.graph.nodes = Unset => Unless(d.graph.nodes, nodes) = nodes
      BY DEF Unset
    <2> QED  BY <1>4, <1>5, <1>6, <2>1
  <1> HIDE DEF graph
  <1>8. Of(raw, "graph") = Unless(d.tool.graph, graph) /\ Of(raw, "inputs") = d.tool.inputs
    <2>1. tool.graph = Unless(d.tool.graph, graph) /\ tool.inputs = d.tool.inputs
      BY <1>4
    <2>2. "graph" \in DOMAIN tool /\ "inputs" \in DOMAIN tool
      BY <1>4
    <2> HIDE DEF tool
    <2>3. Of(raw, "graph") = tool.graph /\ Of(raw, "inputs") = tool.inputs
      BY <1>1, <2>2 DEF Dict, Of
    <2> QED  BY <2>1, <2>3
  <1>9. IsList(Of(Of(raw, "graph"), "nodes"))
    <2>1. d.tool.graph = Unset => Unless(d.tool.graph, graph) = graph
      BY DEF Unset
    <2> QED  BY <1>4, <1>7, <1>8, <2>1
  <1>10. IsList(Of(raw, "inputs"))
    BY <1>4, <1>5, <1>8
  <1> QED  BY <1>9, <1>10

LEMMA DescribedLoadAgain == ToolsLoadAgain
  <1> SUFFICES ASSUME NEW i \in DOMAIN Tweaks, NEW j \in DOMAIN Tweaks, i <= j,
                      Fits(Described(Tweaks[i], Tweaks[j]))
               PROVE  LoadsAgain(Described(Tweaks[i], Tweaks[j]))
    BY DEF ToolsLoadAgain
  <1>1. /\ IsList(Of(Of(Described(Tweaks[i], Tweaks[j]), "graph"), "nodes"))
        /\ IsList(Of(Described(Tweaks[i], Tweaks[j]), "inputs"))
    BY TweaksAreJson, DescribedLists
  <1> QED  BY <1>1, AcceptedForEver

-----------------------------------------------------------------------------
(***************************************************************************)
(* The workspaces and the workflows that are made of their proposals.      *)
(***************************************************************************)

\* A proposal is said to be the risk it is, and rules alone leave the demand for a
\* dataset to that of a workflow.
Demands(p, dataset) ==
  /\ RiskIsTold(p)
  /\ p.kind = "workflow" /\ p.source = "rule_based" /\ ~dataset => p.asks

\* A workflow can be run that is made of one of the proposals.
CanRun(space) ==
  \E p \in space.proposals :
    /\ p.kind = "workflow" /\ p.steps # <<>>
    /\ p.source = "rule_based" => space.dataset

\* What a request carries from one of its steps to the next fits the workspace: it has no
\* proposal before its own, and one to make a workflow of until that is stored.
Hands(j, sp) ==
  /\ j.pc = "propose" =>
       /\ j.space \in DOMAIN sp /\ sp[j.space].proposals = {}
       /\ Demands(j.proposal, sp[j.space].dataset)
  /\ j.pc \in {"store", "link"} => j.space \in DOMAIN sp /\ CanRun(sp[j.space])

ProposalsInv ==
  /\ \A w \in Threads : Hands(job[w], spaces)
  /\ \A v, w \in AtSteps({"propose"}) : job[v].space = job[w].space => v = w
  /\ \A s \in DOMAIN spaces : \A p \in spaces[s].proposals : Demands(p, spaces[s].dataset)
  /\ \A f \in DOMAIN flows : flows[f].of \in DOMAIN spaces /\ CanRun(spaces[flows[f].of])

\* There is a reason why a workspace may not be linked to the workflow f of it.
Excused(f) == flows[f].of \in cut \/ \E w \in AtSteps({"link"}) : job[w].flow = f

LinksInv ==
  /\ \A w \in AtSteps({"link"}) : flows[job[w].flow].of = job[w].space
  /\ \A s \in DOMAIN spaces :
       spaces[s].flow # 0 => flows[spaces[s].flow] = [of |-> s, there |-> TRUE]
  /\ \A f \in DOMAIN flows : spaces[flows[f].of].flow # 0 \/ Excused(f)

DraftsInv == SpacesInv /\ ProposalsInv /\ LinksInv

LEMMA ComposedDemands ==
  ASSUME NEW text, NEW dataset, NEW p \in Composed(text, dataset)
  PROVE  Demands(p, dataset)
  <1> DEFINE rules == ByRules(text, dataset)
  <1>1. rules.kind = "workflow" /\ ~dataset => rules.asks
    BY DEF ByRules, AsksForDataset
  <1>2. CASE p = rules
    BY <1>1, <1>2, ByRulesFacts DEF Demands
  <1>3. CASE p \in Enriched(rules)
    BY <1>3, RefinedFacts DEF Demands
  <1> QED  BY <1>2, <1>3 DEF Composed

\* What a step of w has to show that leaves the proposals there are, and their datasets.
LEMMA ProposalsKept ==
  ASSUME SpacesInv, ProposalsInv, NEW w \in Threads, job' = [job EXCEPT ![w] = job'[w]],
         DOMAIN spaces \subseteq DOMAIN spaces',
         \A s \in DOMAIN spaces : /\ spaces'[s].proposals = spaces[s].proposals
                                  /\ spaces'[s].dataset = spaces[s].dataset,
         \A s \in DOMAIN spaces' : s \in DOMAIN spaces \/ spaces'[s].proposals = {},
         \A f \in DOMAIN flows' : flows'[f].of \in DOMAIN spaces /\ CanRun(spaces[flows'[f].of]),
         Hands(job'[w], spaces'),
         job'[w].pc = "propose" => job'[w].space \notin DOMAIN spaces \/ job' = job
  PROVE  ProposalsInv'
  <1>1. job = [v \in Threads |-> job[v]]
    BY DEF SpacesInv, JobsOK
  <1>2. \A v \in Threads : v # w => job'[v] = job[v]
    BY <1>1
  <1>3. \A s \in DOMAIN spaces : CanRun(spaces[s]) => CanRun(spaces'[s])
    BY DEF CanRun
  <1>4. \A v \in Threads : Hands(job'[v], spaces')
    <2>1. \A v \in Threads : v # w => Hands(job[v], spaces)
      BY DEF ProposalsInv
    <2>2. \A v \in Threads : v # w => Hands(job[v], spaces')
      BY <1>3, <2>1 DEF Hands
    <2> QED  BY <1>2, <2>2
  <1>5. \A u, v \in AtSteps({"propose"})' : job'[u].space = job'[v].space => u = v
    <2>1. CASE job' = job
      BY <2>1 DEF ProposalsInv, AtSteps
    <2>2. CASE job'[w].pc = "propose" => job'[w].space \notin DOMAIN spaces
      <3>1. \A v \in Threads : v # w /\ job[v].pc = "propose" => job[v].space \in DOMAIN spaces
        BY DEF ProposalsInv, Hands
      <3>2. \A u, v \in Threads : u # w /\ v # w /\ job[u].pc = "propose" /\ job[v].pc = "propose"
                                    /\ job[u].space = job[v].space => u = v
        BY DEF ProposalsInv, AtSteps
      <3> QED  BY <1>2, <2>2, <3>1, <3>2 DEF AtSteps
    <2> QED  BY <2>1, <2>2
  <1>6. \A s \in DOMAIN spaces' : \A p \in spaces'[s].proposals : Demands(p, spaces'[s].dataset)
    BY DEF ProposalsInv
  <1>7. \A f \in DOMAIN flows' : flows'[f].of \in DOMAIN spaces' /\ CanRun(spaces'[flows'[f].of])
    BY <1>3
  <1> QED  BY <1>4, <1>5, <1>6, <1>7 DEF ProposalsInv

\* A workspace gets its proposal while nothing depends on one.
LEMMA ProposeKeeps ==
  ASSUME DraftsInv, NEW w \in Threads, Propose(w)
  PROVE  ProposalsInv'
  <1> DEFINE s == job[w].space
             p == job[w].proposal
  <1>1. /\ job = [v \in Threads |-> job[v]] /\ spaces \in Seq(SpaceRows) /\ "pc" \in DOMAIN job[w]
        /\ job[w].pc = "propose" /\ End(w) /\ flows' = flows
        /\ spaces' = [spaces EXCEPT ![s] = [spaces[s] EXCEPT !.proposals = {p},
                                                            !.status = "proposed"]]
    BY DEF DraftsInv, SpacesInv, JobsOK, Propose, At
  <1>2. s \in DOMAIN spaces /\ spaces[s].proposals = {} /\ Demands(p, spaces[s].dataset)
    BY <1>1 DEF DraftsInv, ProposalsInv, Hands
  <1>3. spaces[s] \in SpaceRows
    BY <1>1, <1>2
  <1>4. /\ DOMAIN spaces' = DOMAIN spaces
        /\ \A r \in DOMAIN spaces : r # s => spaces'[r] = spaces[r]
        /\ spaces'[s].proposals = {p} /\ spaces'[s].dataset = spaces[s].dataset
    BY <1>1, <1>2, <1>3 DEF SpaceRows
  <1>5. /\ \A v \in Threads : v # w => job'[v] = job[v]
        /\ job'[w].pc = "rest"
    BY <1>1 DEF End, Rest
  <1>6. ~CanRun(spaces[s])
    BY <1>2 DEF CanRun
  <1>7. \A v \in Threads : v # w /\ job[v].pc = "propose" => job[v].space # s
    BY <1>1 DEF DraftsInv, ProposalsInv, AtSteps
  <1>8. \A v \in Threads : Hands(job'[v], spaces')
    <2>1. \A v \in Threads : v # w => Hands(job[v], spaces)
      BY DEF DraftsInv, ProposalsInv
    <2>2. \A v \in Threads : v # w => Hands(job[v], spaces')
      BY <1>4, <1>6, <1>7, <2>1 DEF Hands
    <2>3. Hands(job'[w], spaces')
      BY <1>5 DEF Hands
    <2> QED  BY <1>5, <2>2, <2>3
  <1>9. \A u, v \in AtSteps({"propose"})' : job'[u].space = job'[v].space => u = v
    BY <1>5 DEF DraftsInv, ProposalsInv, AtSteps
  <1>10. \A r \in DOMAIN spaces' : \A q \in spaces'[r].proposals : Demands(q, spaces'[r].dataset)
    BY <1>2, <1>4 DEF DraftsInv, ProposalsInv
  <1>11. \A f \in DOMAIN flows' : flows'[f].of \in DOMAIN spaces' /\ CanRun(spaces'[flows'[f].of])
    BY <1>1, <1>4, <1>6 DEF DraftsInv, ProposalsInv
  <1> QED  BY <1>8, <1>9, <1>10, <1>11 DEF ProposalsInv

\* The links are left alone, and no thread comes to a link or leaves one.
LEMMA LinksElsewhere ==
  ASSUME DraftsInv, NEW w \in Threads, job' = [job EXCEPT ![w] = job'[w]],
         job[w].pc # "link", job'[w].pc # "link", flows' = flows, cut' = cut,
         DOMAIN spaces \subseteq DOMAIN spaces',
         \A s \in DOMAIN spaces : spaces'[s].flow = spaces[s].flow,
         \A s \in DOMAIN spaces' : s \in DOMAIN spaces \/ spaces'[s].flow = 0
  PROVE  LinksInv'
  <1>1. job = [v \in Threads |-> job[v]]
    BY DEF DraftsInv, SpacesInv, JobsOK
  <1>2. /\ AtSteps({"link"})' = AtSteps({"link"})
        /\ \A v \in AtSteps({"link"}) : job'[v] = job[v]
    BY <1>1 DEF AtSteps
  <1>3. \A f : Excused(f)' <=> Excused(f)
    BY <1>2 DEF Excused
  <1>4. \A f \in DOMAIN flows : flows[f].of \in DOMAIN spaces
    BY DEF DraftsInv, ProposalsInv
  <1>5. \A f \in DOMAIN flows : spaces'[flows[f].of].flow # 0 \/ Excused(f)'
    BY <1>3, <1>4 DEF DraftsInv, LinksInv
  <1>6. \A s \in DOMAIN spaces' :
          spaces'[s].flow # 0 => flows[spaces'[s].flow] = [of |-> s, there |-> TRUE]
    BY DEF DraftsInv, LinksInv
  <1> QED  BY <1>2, <1>5, <1>6 DEF DraftsInv, LinksInv

\* A request of another part, and one that makes a workspace or a workflow of it.
LEMMA DraftsElsewhere ==
  ASSUME DraftsInv, NEW w \in Threads, NEW steps, Leads(w, steps), steps \cap SpacePcs = {},
         job[w].pc # "link", UNCHANGED drafts
  PROVE  ProposalsInv' /\ LinksInv'
  <1>1. /\ job'[w].pc \notin SpacePcs /\ job' = [job EXCEPT ![w] = job'[w]]
        /\ spaces' = spaces /\ flows' = flows /\ cut' = cut
    BY DEF Leads, drafts
  <1>2. Hands(job'[w], spaces') /\ job'[w].pc # "propose" /\ job'[w].pc # "link"
    BY <1>1 DEF Hands, SpacePcs
  <1>3. ProposalsInv'
    BY <1>1, <1>2, ProposalsKept DEF DraftsInv, ProposalsInv
  <1> QED  BY <1>1, <1>2, <1>3, LinksElsewhere

LEMMA StoreKeeps ==
  ASSUME DraftsInv, NEW w \in Threads, Store(w)
  PROVE  ProposalsInv' /\ LinksInv'
  <1> DEFINE s == job[w].space
  <1>0. PICK n : n = Len(flows) + 1
    OBVIOUS
  <1>1. /\ job = [v \in Threads |-> job[v]] /\ flows \in Seq(FlowRows)
        /\ job[w].pc = "store" /\ spaces' = spaces /\ cut' = cut
        /\ flows' = Append(flows, [of |-> s, there |-> TRUE])
        /\ job' = [job EXCEPT ![w] = [pc |-> "link", space |-> s, flow |-> n]]
    BY <1>0 DEF DraftsInv, SpacesInv, JobsOK, Store, At
  <1>2. s \in DOMAIN spaces /\ CanRun(spaces[s])
    BY <1>1 DEF DraftsInv, ProposalsInv, Hands
  <1>3. /\ DOMAIN flows' = DOMAIN flows \cup {n} /\ n \notin DOMAIN flows
        /\ flows'[n] = [of |-> s, there |-> TRUE]
        /\ \A f \in DOMAIN flows : flows'[f] = flows[f]
        /\ \A f \in DOMAIN flows : f # 0
    BY <1>0, <1>1
  <1>4. /\ job'[w] = [pc |-> "link", space |-> s, flow |-> n]
        /\ \A v \in Threads : v # w => job'[v] = job[v]
        /\ job' = [job EXCEPT ![w] = job'[w]]
    BY <1>1
  <1>5. Hands(job'[w], spaces') /\ job'[w].pc # "propose"
    BY <1>1, <1>2, <1>4 DEF Hands
  <1>6. \A f \in DOMAIN flows' : flows'[f].of \in DOMAIN spaces /\ CanRun(spaces[flows'[f].of])
    BY <1>2, <1>3 DEF DraftsInv, ProposalsInv
  <1>7. ProposalsInv'
    BY <1>1, <1>4, <1>5, <1>6, ProposalsKept DEF DraftsInv, ProposalsInv
  <1>8. \A v \in AtSteps({"link"})' : flows'[job'[v].flow].of = job'[v].space
    <2>1. \A v \in AtSteps({"link"}) : job[v].flow \in DOMAIN flows
      BY DEF DraftsInv, SpacesInv, Brings, AtSteps
    <2> QED  BY <1>3, <1>4, <2>1 DEF DraftsInv, LinksInv, AtSteps
  <1>9. \A r \in DOMAIN spaces' :
          spaces'[r].flow # 0 => flows'[spaces'[r].flow] = [of |-> r, there |-> TRUE]
    <2>1. \A r \in DOMAIN spaces : spaces[r].flow \in {0} \cup DOMAIN flows
      BY DEF DraftsInv, SpacesInv
    <2> QED  BY <1>1, <1>3, <2>1 DEF DraftsInv, LinksInv
  <1>10. \A f \in DOMAIN flows' : spaces'[flows'[f].of].flow # 0 \/ Excused(f)'
    <2>1. Excused(n)'
      BY <1>4 DEF Excused, AtSteps
    <2>2. \A f \in DOMAIN flows : Excused(f) => Excused(f)'
      BY <1>1, <1>3, <1>4 DEF Excused, AtSteps
    <2> QED  BY <1>1, <1>3, <2>1, <2>2 DEF DraftsInv, LinksInv
  <1> QED  BY <1>7, <1>8, <1>9, <1>10 DEF LinksInv

LEMMA LinkKeeps ==
  ASSUME DraftsInv, NEW w \in Threads, NEW ok \in BOOLEAN, Link(w, ok)
  PROVE  ProposalsInv' /\ LinksInv'
  <1> DEFINE s == job[w].space
             n == job[w].flow
  <1>1. /\ job = [v \in Threads |-> job[v]] /\ spaces \in Seq(SpaceRows)
        /\ flows \in Seq(FlowRows)
        /\ job[w].pc = "link" /\ End(w) /\ flows' = flows
        /\ n \in DOMAIN flows
    BY DEF DraftsInv, SpacesInv, JobsOK, Brings, Link, At
  <1>2. s \in DOMAIN spaces /\ flows[n].of = s /\ n # 0
    BY <1>1 DEF DraftsInv, ProposalsInv, LinksInv, Hands, AtSteps
  <1>3. /\ job'[w].pc = "rest" /\ job' = [job EXCEPT ![w] = job'[w]]
        /\ \A v \in Threads : v # w => job'[v] = job[v]
    BY <1>1 DEF End, Rest
  <1>4. Hands(job'[w], spaces') /\ job'[w].pc # "propose"
    BY <1>3 DEF Hands
  <1>5. \A v \in AtSteps({"link"})' : v \in AtSteps({"link"}) /\ v # w /\ job'[v] = job[v]
    BY <1>3 DEF AtSteps
  <1>6. \A f \in DOMAIN flows : Excused(f) =>
          \/ flows[f].of \in cut \/ f = n \/ \E v \in AtSteps({"link"})' : job'[v].flow = f
    BY <1>3 DEF Excused, AtSteps
  <1>7. CASE spaces' = spaces /\ cut' = cut \cup {s}
    <2>1. ProposalsInv'
      BY <1>1, <1>3, <1>4, <1>7, ProposalsKept DEF DraftsInv, ProposalsInv
    <2>2. \A f \in DOMAIN flows : Excused(f) => Excused(f)'
      BY <1>1, <1>2, <1>6, <1>7 DEF Excused
    <2>3. LinksInv'
      BY <1>1, <1>5, <1>7, <2>2 DEF DraftsInv, LinksInv
    <2> QED  BY <2>1, <2>3
  <1>8. CASE flows[n].there /\ cut' = cut /\ spaces' = [spaces EXCEPT ![s].flow = n]
    <2>1. spaces[s] \in SpaceRows /\ flows[n] \in FlowRows
      BY <1>1, <1>2
    <2>2. /\ DOMAIN spaces' = DOMAIN spaces
          /\ \A r \in DOMAIN spaces : r # s => spaces'[r] = spaces[r]
          /\ spaces'[s].flow = n /\ spaces'[s].proposals = spaces[s].proposals
          /\ spaces'[s].dataset = spaces[s].dataset
      BY <1>2, <1>8, <2>1 DEF SpaceRows
    <2>3. ProposalsInv'
      BY <1>1, <1>3, <1>4, <2>2, ProposalsKept DEF DraftsInv, ProposalsInv
    <2>4. \A r \in DOMAIN spaces' :
            spaces'[r].flow # 0 => flows'[spaces'[r].flow] = [of |-> r, there |-> TRUE]
      <3>1. flows[n] = [of |-> s, there |-> TRUE]
        BY <1>2, <1>8, <2>1 DEF FlowRows
      <3> QED  BY <1>1, <2>2, <3>1 DEF DraftsInv, LinksInv
    <2>5. \A f \in DOMAIN flows : spaces'[flows[f].of].flow # 0 \/ Excused(f)'
      <3>1. \A f \in DOMAIN flows : Excused(f) => Excused(f)' \/ f = n
        BY <1>1, <1>6, <1>8 DEF Excused
      <3>2. \A f \in DOMAIN flows : flows[f].of \in DOMAIN spaces
        BY DEF DraftsInv, ProposalsInv
      <3> QED  BY <1>2, <2>2, <3>1, <3>2 DEF DraftsInv, LinksInv
    <2> QED  BY <1>1, <1>5, <2>3, <2>4, <2>5 DEF DraftsInv, LinksInv
  <1> QED  BY <1>7, <1>8 DEF Link, LinkTo, MayLink

LEMMA ComposeKeeps ==
  ASSUME DraftsInv, NEW w \in Threads, NEW text, NEW dataset, Compose(w, text, dataset)
  PROVE  ProposalsInv' /\ LinksInv'
  <1>0. PICK n : n = Len(spaces) + 1
    OBVIOUS
  <1>1. PICK p \in Composed(text, dataset) : Begin(w, [pc |-> "propose", space |-> n, proposal |-> p])
    BY <1>0 DEF Compose
  <1>2. /\ job = [v \in Threads |-> job[v]] /\ spaces \in Seq(SpaceRows)
        /\ spaces' = Append(spaces, NewSpace(dataset)) /\ flows' = flows /\ cut' = cut
    BY DEF DraftsInv, SpacesInv, JobsOK, Compose
  <1>3. /\ job'[w] = [pc |-> "propose", space |-> n, proposal |-> p]
        /\ job' = [job EXCEPT ![w] = job'[w]] /\ job[w].pc = "rest"
    BY <1>1, <1>2 DEF Begin, Rest
  <1>4. /\ DOMAIN spaces' = DOMAIN spaces \cup {n} /\ n \notin DOMAIN spaces
        /\ \A s \in DOMAIN spaces : spaces'[s] = spaces[s]
        /\ spaces'[n].proposals = {} /\ spaces'[n].dataset = dataset /\ spaces'[n].flow = 0
    BY <1>0, <1>2 DEF NewSpace
  <1>5. Hands(job'[w], spaces')
    BY <1>3, <1>4, ComposedDemands DEF Hands
  <1>6. \A s \in DOMAIN spaces' : s \in DOMAIN spaces \/ (spaces'[s].proposals = {} /\ spaces'[s].flow = 0)
    BY <1>4
  <1>7. ProposalsInv'
    <2>1. \A f \in DOMAIN flows' : flows'[f].of \in DOMAIN spaces /\ CanRun(spaces[flows'[f].of])
      BY <1>2 DEF DraftsInv, ProposalsInv
    <2>2. job'[w].space \notin DOMAIN spaces
      BY <1>3, <1>4
    <2> QED  BY <1>3, <1>4, <1>5, <1>6, <2>1, <2>2, ProposalsKept DEF DraftsInv
  <1>8. LinksInv'
    BY <1>2, <1>3, <1>4, <1>6, LinksElsewhere
  <1> QED  BY <1>7, <1>8

LEMMA DraftKeeps ==
  ASSUME DraftsInv, NEW w \in Threads, NEW s \in DOMAIN spaces, Draft(w, s)
  PROVE  ProposalsInv' /\ LinksInv'
  <1>1. /\ job = [v \in Threads |-> job[v]]
        /\ Begin(w, [pc |-> "store", space |-> s])
        /\ spaces' = spaces /\ flows' = flows /\ cut' = cut
    BY DEF DraftsInv, SpacesInv, JobsOK, Draft, drafts
  <1>2. /\ job'[w] = [pc |-> "store", space |-> s]
        /\ job' = [job EXCEPT ![w] = job'[w]] /\ job[w].pc = "rest"
    BY <1>1 DEF Begin, Rest
  <1>3. CanRun(spaces[s])
    <2>1. PICK p \in spaces[s].proposals : Draftable(spaces[s], p)
      BY DEF Draft
    <2>2. Demands(p, spaces[s].dataset)
      BY DEF DraftsInv, ProposalsInv
    <2> QED  BY <2>1, <2>2 DEF Draftable, Demands, CanRun
  <1>4. Hands(job'[w], spaces') /\ job'[w].pc # "propose" /\ job'[w].pc # "link"
    BY <1>1, <1>2, <1>3 DEF Hands
  <1>5. ProposalsInv'
    BY <1>1, <1>2, <1>4, ProposalsKept DEF DraftsInv, ProposalsInv
  <1> QED  BY <1>1, <1>2, <1>4, <1>5, LinksElsewhere

\* Requests that are done at once.
LEMMA AdvanceKeeps ==
  ASSUME DraftsInv, NEW w \in Threads, NEW s \in DOMAIN spaces, NEW x, Advance(w, s, x)
  PROVE  ProposalsInv' /\ LinksInv'
  <1>1. /\ job = [v \in Threads |-> job[v]] /\ spaces \in Seq(SpaceRows)
        /\ spaces' = [spaces EXCEPT ![s].status = x]
        /\ job' = job /\ job[w].pc = "rest" /\ flows' = flows /\ cut' = cut
    BY DEF DraftsInv, SpacesInv, JobsOK, Advance, Rest
  <1>2. spaces[s] \in SpaceRows
    BY <1>1
  <1>3. /\ DOMAIN spaces' = DOMAIN spaces
        /\ \A r \in DOMAIN spaces : /\ spaces'[r].proposals = spaces[r].proposals
                                    /\ spaces'[r].dataset = spaces[r].dataset
                                    /\ spaces'[r].flow = spaces[r].flow
    BY <1>1, <1>2 DEF SpaceRows
  <1>4. Hands(job'[w], spaces') /\ job' = [job EXCEPT ![w] = job'[w]]
    BY <1>1 DEF Hands
  <1>5. ProposalsInv'
    BY <1>1, <1>3, <1>4, ProposalsKept DEF DraftsInv, ProposalsInv
  <1> QED  BY <1>1, <1>3, <1>4, <1>5, LinksElsewhere

LEMMA DeleteKeeps ==
  ASSUME DraftsInv, NEW w \in Threads, NEW f \in DOMAIN flows, DeleteWorkflow(w, f)
  PROVE  ProposalsInv' /\ LinksInv'
  <1>1. /\ job = [v \in Threads |-> job[v]] /\ spaces \in Seq(SpaceRows)
        /\ flows \in Seq(FlowRows)
        /\ flows' = [flows EXCEPT ![f].there = FALSE]
        /\ job' = job /\ job[w].pc = "rest" /\ cut' = cut \cup {flows[f].of}
        /\ spaces' = [s \in DOMAIN spaces |->
                        IF spaces[s].flow = f THEN [spaces[s] EXCEPT !.flow = 0] ELSE spaces[s]]
    BY DEF DraftsInv, SpacesInv, JobsOK, DeleteWorkflow, Rest
  <1>2. \A s \in DOMAIN spaces : spaces[s] \in SpaceRows
    BY <1>1
  <1>3. /\ DOMAIN spaces' = DOMAIN spaces
        /\ \A s \in DOMAIN spaces :
             /\ spaces'[s].proposals = spaces[s].proposals
             /\ spaces'[s].dataset = spaces[s].dataset
             /\ spaces'[s].flow = IF spaces[s].flow = f THEN 0 ELSE spaces[s].flow
    BY <1>1, <1>2 DEF SpaceRows
  <1>4. flows[f] \in FlowRows
    BY <1>1
  <1>5. /\ DOMAIN flows' = DOMAIN flows
        /\ \A g \in DOMAIN flows : flows'[g].of = flows[g].of /\ (g # f => flows'[g] = flows[g])
        /\ \A g \in DOMAIN flows : g # 0
    BY <1>1, <1>4 DEF FlowRows
  <1>6. Hands(job'[w], spaces') /\ job' = [job EXCEPT ![w] = job'[w]]
    BY <1>1 DEF Hands
  <1>7. ProposalsInv'
    <2>1. \A g \in DOMAIN flows' : flows'[g].of \in DOMAIN spaces /\ CanRun(spaces[flows'[g].of])
      BY <1>5 DEF DraftsInv, ProposalsInv
    <2>2. \A s \in DOMAIN spaces' : s \in DOMAIN spaces
      BY <1>3
    <2>3. DOMAIN spaces \subseteq DOMAIN spaces' /\ (job'[w].pc = "propose" => job' = job)
      BY <1>1, <1>3
    <2> QED  BY <1>3, <1>6, <2>1, <2>2, <2>3, ProposalsKept DEF DraftsInv
  <1>8. \A v \in AtSteps({"link"})' : flows'[job'[v].flow].of = job'[v].space
    <2>1. \A v \in AtSteps({"link"}) : job[v].flow \in DOMAIN flows
      BY DEF DraftsInv, SpacesInv, Brings, AtSteps
    <2> QED  BY <1>1, <1>5, <2>1 DEF DraftsInv, LinksInv, AtSteps
  <1>9. \A s \in DOMAIN spaces' :
          spaces'[s].flow # 0 => flows'[spaces'[s].flow] = [of |-> s, there |-> TRUE]
    <2>1. \A s \in DOMAIN spaces : spaces[s].flow \in {0} \cup DOMAIN flows
      BY DEF DraftsInv, SpacesInv
    <2> QED  BY <1>3, <1>5, <2>1 DEF DraftsInv, LinksInv
  <1>10. ASSUME NEW g \in DOMAIN flows' PROVE spaces'[flows'[g].of].flow # 0 \/ Excused(g)'
    <2> DEFINE s == flows[g].of
    <2>1. g \in DOMAIN flows /\ flows'[g].of = s /\ s \in DOMAIN spaces
      BY <1>5 DEF DraftsInv, ProposalsInv
    <2>2. spaces[s].flow # 0 \/ Excused(g)
      BY <2>1 DEF DraftsInv, LinksInv
    <2>3. CASE spaces[s].flow = f
      <3>1. flows[f] = [of |-> s, there |-> TRUE]
        BY <1>5, <2>1, <2>3 DEF DraftsInv, LinksInv
      <3> QED  BY <1>1, <2>1, <3>1 DEF Excused
    <2>4. Excused(g) => Excused(g)'
      BY <1>1, <2>1 DEF Excused, AtSteps
    <2>5. CASE spaces[s].flow # f
      BY <1>3, <2>1, <2>2, <2>4, <2>5
    <2> QED  BY <2>3, <2>5
  <1> QED  BY <1>7, <1>8, <1>9, <1>10 DEF LinksInv

\* A handler of the workspaces keeps them.
LEMMA DraftsHandlers ==
  ASSUME DraftsInv, NEW w \in Threads, SpaceStep(w) \/ SpaceRequest(w)
  PROVE  ProposalsInv' /\ LinksInv'
  <1>1. CASE Propose(w)
    <2> DEFINE s == job[w].space
    <2>1. /\ job = [v \in Threads |-> job[v]] /\ spaces \in Seq(SpaceRows)
          /\ job[w].pc = "propose" /\ End(w) /\ flows' = flows /\ cut' = cut
          /\ spaces' = [spaces EXCEPT ![s] = [spaces[s] EXCEPT !.proposals = {job[w].proposal},
                                                               !.status = "proposed"]]
      BY <1>1 DEF DraftsInv, SpacesInv, JobsOK, Propose, At
    <2>2. s \in DOMAIN spaces
      BY <2>1 DEF DraftsInv, ProposalsInv, Hands
    <2>3. spaces[s] \in SpaceRows
      BY <2>1, <2>2
    <2>4. /\ DOMAIN spaces' = DOMAIN spaces
          /\ \A r \in DOMAIN spaces : spaces'[r].flow = spaces[r].flow
      BY <2>1, <2>2, <2>3 DEF SpaceRows
    <2>5. job'[w].pc = "rest" /\ job' = [job EXCEPT ![w] = job'[w]]
      BY <2>1 DEF End, Rest
    <2> QED  BY <1>1, <2>1, <2>4, <2>5, ProposeKeeps, LinksElsewhere
  <1>2. ASSUME NEW x \in {"executed", "saved"}, NEW s \in DOMAIN spaces, Advance(w, s, x)
        PROVE  ProposalsInv' /\ LinksInv'
    BY <1>2, AdvanceKeeps
  <1> QED
    BY <1>1, <1>2, StoreKeeps, LinkKeeps, ComposeKeeps, DraftKeeps, DeleteKeeps
       DEF SpaceStep, SpaceRequest

\* A thread at the link is at work on workspaces.
LEMMA OthersDoNotLink ==
  ASSUME NEW w \in Threads,
         \/ ToolStep(w) \/ ToolRequest(w) \/ AuditStep(w) \/ AuditRequest(w) \/ AccountStep(w)
         \/ AccountRequest(w) \/ (\E a \in Addresses : Verify(w, a)) \/ Denied(w)
  PROVE  job[w].pc # "link"
  <1> USE DEF At, Rest, Begin
  <1>1. CASE ToolStep(w)
    BY <1>1 DEF ToolStep, CreateLook, CreateInsert, EditLook, EditName, EditWrite, ApproveLook,
                ApproveWrite
  <1>2. CASE ToolRequest(w)
    BY <1>2 DEF ToolRequest, CreateTool, ApproveTool, EditTool
  <1>3. CASE AuditStep(w)
    BY <1>3 DEF AuditStep, AppendLine, InsertRow, RemoveRows, RowsStay, RemoveRead, RemoveWrite,
                RemoveFails, Logging, Removing, AtSteps
  <1>4. CASE AuditRequest(w)
    BY <1>4 DEF AuditRequest, LogEvent, Remove
  <1>5. CASE AccountStep(w)
    BY <1>5 DEF AccountStep, RegisterLook, RegisterInsert, RegisterMail, VerifyWrite, LoginCheck,
                PasswordLook, PasswordWrite, InviteLook, InviteUse, AdminLook, AdminInsert
  <1>6. CASE AccountRequest(w)
    BY <1>6 DEF AccountRequest, CreateInvite, Register, RegisterAdmin, Login, ChangePassword
  <1>7. CASE (\E a \in Addresses : Verify(w, a)) \/ Denied(w)
    BY <1>7 DEF Verify, Denied
  <1> QED  BY <1>1, <1>2, <1>3, <1>4, <1>5, <1>6, <1>7

LEMMA DraftsRestart == DraftsInv /\ Restart => ProposalsInv' /\ LinksInv'
  <1> SUFFICES ASSUME DraftsInv, Restart PROVE ProposalsInv' /\ LinksInv'
    OBVIOUS
  <1>1. /\ \A w \in Threads : job'[w].pc = "rest"
        /\ spaces' = spaces /\ flows' = flows
        /\ cut' = cut \cup {job[w].space : w \in AtSteps({"link"})}
    BY DEF Restart, Rest
  <1>2. ProposalsInv'
    BY <1>1 DEF DraftsInv, ProposalsInv, Hands, AtSteps
  <1>3. \A f \in DOMAIN flows : Excused(f) => Excused(f)'
    BY <1>1 DEF Excused, DraftsInv, LinksInv, AtSteps
  <1>4. LinksInv'
    BY <1>1, <1>3 DEF DraftsInv, LinksInv, AtSteps
  <1> QED  BY <1>2, <1>4

\* Every step keeps the workspaces and their workflows.
LEMMA DraftsStep == DraftsInv /\ [ANext]_avars => DraftsInv'
  <1> SUFFICES ASSUME DraftsInv, [ANext]_avars PROVE ProposalsInv' /\ LinksInv'
    BY SpacesStep DEF DraftsInv
  <1>0. JobsOK
    BY DEF DraftsInv, SpacesInv
  <1>1. ASSUME UNCHANGED <<job, drafts>> PROVE ProposalsInv' /\ LinksInv'
    BY <1>1 DEF DraftsInv, ProposalsInv, LinksInv, Excused, AtSteps, drafts
  <1>2. CASE Approvals
    BY <1>1, <1>2 DEF Approvals
  <1>3. ASSUME NEW w \in Threads, Arrive(w) PROVE ProposalsInv' /\ LinksInv'
    <2>1. CASE SpaceRequest(w)
      BY <2>1, DraftsHandlers
    <2>2. CASE (AccountRequest(w) \/ \E a \in Addresses : Verify(w, a)) /\ ByAccounts
      BY <1>0, <2>2, AccountRequests, OthersDoNotLink, DraftsElsewhere
         DEF ByAccounts, SignInPcs, SpacePcs
    <2>3. CASE AuditRequest(w) /\ ByAudit
      BY <1>0, <2>3, AuditJobs, OthersDoNotLink, DraftsElsewhere
         DEF ByAudit, Elsewhere, Still401, LogPcs, CredentialSteps, SpacePcs
    <2>4. CASE ToolRequest(w) /\ ByTools
      BY <1>0, <2>4, ToolJobs, OthersDoNotLink, DraftsElsewhere
         DEF ByTools, Elsewhere, SpacePcs, ToolPcs
    <2> QED  BY <1>3, <2>1, <2>2, <2>3, <2>4 DEF Arrive
  <1>4. ASSUME NEW w \in Threads, Continue(w) PROVE ProposalsInv' /\ LinksInv'
    <2>1. CASE SpaceStep(w)
      BY <2>1, DraftsHandlers
    <2>2. CASE AccountStep(w) /\ ByAccounts
      BY <1>0, <2>2, AccountJobs, OthersDoNotLink, DraftsElsewhere
         DEF ByAccounts, Still401, OnwardPcs, LogPcs, CredentialSteps, SpacePcs
    <2>3. CASE AuditStep(w) /\ ByAudit
      BY <1>0, <2>3, AuditJobs, OthersDoNotLink, DraftsElsewhere
         DEF ByAudit, Elsewhere, Still401, LogPcs, CredentialSteps, SpacePcs
    <2>4. CASE ToolStep(w) /\ ByTools
      BY <1>0, <2>4, ToolJobs, OthersDoNotLink, DraftsElsewhere
         DEF ByTools, Elsewhere, SpacePcs, ToolPcs
    <2>5. CASE Denied(w) /\ UNCHANGED drafts
      <3>1. Leads(w, {"rest"})
        BY <1>0, <2>5 DEF Denied, End, Rest, Leads, JobsOK
      <3> QED  BY <2>5, <3>1, OthersDoNotLink, DraftsElsewhere DEF SpacePcs
    <2> QED  BY <1>4, <2>1, <2>2, <2>3, <2>4, <2>5 DEF Continue
  <1>5. CASE Clock
    BY <1>1, <1>5 DEF Clock, Expire
  <1>6. CASE Restart
    BY <1>6, DraftsRestart
  <1>7. CASE UNCHANGED avars
    BY <1>1, <1>7 DEF avars
  <1> QED  BY <1>2, <1>3, <1>4, <1>5, <1>6, <1>7 DEF ANext

LEMMA DraftsInit == AInit => DraftsInv
  <1> SUFFICES ASSUME AInit PROVE DraftsInv
    OBVIOUS
  <1>1. \A w \in Threads : job[w].pc = "rest"
    BY DEF AInit, Rest
  <1>2. DOMAIN spaces = {} /\ DOMAIN flows = {}
    BY DEF AInit, SpacesInit
  <1>3. ProposalsInv /\ LinksInv
    BY <1>1, <1>2 DEF ProposalsInv, LinksInv, Hands, AtSteps
  <1> QED  BY <1>3, AdministrationInit DEF DraftsInv, AdministrationInv

(***************************************************************************)
(* However requests overlap and wherever the server is restarted between   *)
(* storing a workflow and linking it, a workflow that was stored can run,  *)
(* and a workspace is linked to a workflow of its own that is there, or    *)
(* there is a reason why it is not.                                        *)
(***************************************************************************)
THEOREM DraftsStaySound == ASpec => []WorkflowsAreSound
  <1>1. AInit => DraftsInv
    BY DraftsInit
  <1>2. DraftsInv => WorkflowsAreSound
    BY DEF DraftsInv, ProposalsInv, LinksInv, Excused, CanRun, WorkflowsAreSound,
           WorkflowsCanRun, WorkflowsAreLinked
  <1> QED  BY <1>1, <1>2, DraftsStep, PTL DEF ASpec

(***************************************************************************)
(* From any text to a tool: what it composes to can be stored, what is     *)
(* planned of that is a draft that loads again, as does every tool that    *)
(* was ever accepted, and no proposal that a workspace keeps is said to be *)
(* less of a risk than one of its steps, whatever the model answered.      *)
(***************************************************************************)
THEOREM PlansStaySound == ASpec => []PlansAreSound
  <1>1. AInit => DraftsInv
    BY DraftsInit
  <1>2. DraftsInv => PlansAreSound
    BY TextsCompose, PlansAreDrafts, DescribedLoadAgain
       DEF DraftsInv, ProposalsInv, Demands, RiskIsTold, PlansAreSound
  <1> QED  BY <1>1, <1>2, DraftsStep, PTL DEF ASpec
=============================================================================
