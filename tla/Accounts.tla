------------------------------ MODULE Accounts ------------------------------
(***************************************************************************)
(* Accounts: registering, verifying the address, signing in, changing the  *)
(* password, and the invites that make administrators (api/v1/routes.py,   *)
(* data/invite_service.py).  Every call of the database is a step: what a  *)
(* handler has looked at may have changed when it writes.                  *)
(*                                                                         *)
(* An address is a mailbox and a spelling; invites are kept in lower case, *)
(* accounts as they are spelled.  Real mail is switched on, so that only   *)
(* verified accounts sign in.                                              *)
(***************************************************************************)
EXTENDS RequestThreads

CONSTANTS
  Mailboxes,
  Spellings,    \* ways to spell a mailbox, "lower" among them
  Passwords,
  Initial,      \* bound: those of them accounts are registered with
  MaxInvites    \* bound: invites that are created

VARIABLES
  users,        \* the row of each address: role, verified, password, token
  invites,      \* admin_invites, in the order of their creation
  sessions      \* the access tokens that were issued: for whom, with what role

accounts == <<users, invites, sessions>>

Addresses == Mailboxes \X Spellings
Norm(a)   == <<a[1], "lower">>

Row(role, password) ==
  [role |-> role, verified |-> role = "admin", password |-> password,
   token |-> "made"]

AccountsInit ==
  /\ users = [a \in Addresses |-> NoRow]
  /\ invites = <<>>
  /\ sessions = {}

Issue(a, role) == sessions' = sessions \cup {[who |-> a, role |-> role]}

-----------------------------------------------------------------------------
(* POST /auth/register *)

Register(w, a, p) ==
  /\ Begin(w, [pc |-> "register_look", who |-> a, password |-> p])
  /\ UNCHANGED accounts

RegisterLook(w) ==
  /\ At(w, "register_look")
  /\ IF users[job[w].who] # NoRow THEN End(w) ELSE Goto(w, "register_insert")
  /\ UNCHANGED accounts

\* The address is unique: whoever comes second gets an error.
RegisterInsert(w) ==
  LET a == job[w].who
  IN /\ At(w, "register_insert")
     /\ IF users[a] # NoRow
          THEN End(w) /\ UNCHANGED users
          ELSE /\ users' = [users EXCEPT ![a] = Row("user", job[w].password)]
               /\ Goto(w, "register_mail")
     /\ UNCHANGED <<invites, sessions>>

\* The mail with the token, and the access token of the new account.
RegisterMail(w) ==
  LET a == job[w].who
  IN /\ At(w, "register_mail")
     /\ users' = [users EXCEPT ![a].token = "mailed"]
     /\ Issue(a, "user")
     /\ End(w)
     /\ UNCHANGED invites

(* GET /auth/verify-email, with the link that was mailed to a *)

Verify(w, a) ==
  /\ users[a] # NoRow /\ users[a].token = "mailed"
  /\ Begin(w, [pc |-> "verify_write", who |-> a])
  /\ UNCHANGED accounts

VerifyWrite(w) ==
  /\ At(w, "verify_write")
  /\ users' = [users EXCEPT ![job[w].who].verified = TRUE, ![job[w].who].token = "none"]
  /\ End(w)
  /\ UNCHANGED <<invites, sessions>>

(* POST /auth/login *)

Login(w, a, p) ==
  /\ Begin(w, [pc |-> "login", who |-> a, password |-> p])
  /\ UNCHANGED accounts

LoginCheck(w) ==
  LET u == users[job[w].who]
  IN /\ At(w, "login")
     /\ IF u = NoRow \/ (u # NoRow /\ u.password # job[w].password)
          THEN Goto(w, "denied") /\ UNCHANGED sessions
          ELSE /\ IF u.verified THEN Issue(job[w].who, u.role) ELSE UNCHANGED sessions
               /\ End(w)
     /\ UNCHANGED <<users, invites>>

(* POST /auth/change-password *)

ChangePassword(w, a, p, q) ==
  /\ \E s \in sessions : s.who = a
  /\ Begin(w, [pc |-> "password_look", who |-> a, password |-> p, new |-> q])
  /\ UNCHANGED accounts

\* Both outcomes go to the audit log; a new password that is the old one does not.
PasswordLook(w) ==
  LET old == users[job[w].who].password
  IN /\ At(w, "password_look")
     /\ IF job[w].password # old THEN Goto(w, "failed_file")
        ELSE IF job[w].new = old THEN End(w) ELSE Goto(w, "password_write")
     /\ UNCHANGED accounts

PasswordWrite(w) ==
  /\ At(w, "password_write")
  /\ users' = [users EXCEPT ![job[w].who].password = job[w].new]
  /\ Goto(w, "log_file")
  /\ UNCHANGED <<invites, sessions>>

-----------------------------------------------------------------------------
(* POST /admin/invites, by an administrator with an access token or an API key *)

CreateInvite(w, a) ==
  /\ job[w] = Rest
  /\ Len(invites) < MaxInvites
  /\ invites' = Append(invites, [to |-> Norm(a), used |-> FALSE, expired |-> FALSE])
  /\ UNCHANGED <<job, users, sessions>>

Expire(i) ==
  /\ ~invites[i].expired
  /\ invites' = [invites EXCEPT ![i].expired = TRUE]
  /\ UNCHANGED <<job, users, sessions>>

(* POST /auth/register-admin *)

RegisterAdmin(w, a, i, p) ==
  /\ Begin(w, [pc |-> "invite_look", who |-> a, invite |-> i, password |-> p])
  /\ UNCHANGED accounts

InviteLook(w) ==
  LET i == job[w].invite
  IN /\ At(w, "invite_look")
     /\ IF /\ invites[i].to = Norm(job[w].who)
           /\ ~invites[i].used /\ ~invites[i].expired
          THEN Goto(w, "invite_use")
          ELSE End(w)
     /\ UNCHANGED accounts

InviteUse(w) ==
  /\ At(w, "invite_use")
  /\ invites' = [invites EXCEPT ![job[w].invite].used = TRUE]
  /\ Goto(w, "admin_look")
  /\ UNCHANGED <<users, sessions>>

AdminLook(w) ==
  /\ At(w, "admin_look")
  /\ IF users[job[w].who] # NoRow THEN End(w) ELSE Goto(w, "admin_insert")
  /\ UNCHANGED accounts

\* Mutant of AdminInsert: an account that has come meanwhile is made an administrator's.
AdminInsertOver(w) ==
  LET a == job[w].who
  IN /\ At(w, "admin_insert")
     /\ users' = [users EXCEPT ![a] = Row("admin", job[w].password)]
     /\ Issue(a, "admin")
     /\ End(w)
     /\ UNCHANGED invites

AdminInsert(w) ==
  LET a == job[w].who
  IN /\ At(w, "admin_insert")
     /\ IF users[a] # NoRow
          THEN UNCHANGED <<users, sessions>>
          ELSE /\ users' = [users EXCEPT ![a] = Row("admin", job[w].password)]
               /\ Issue(a, "admin")
     /\ End(w)
     /\ UNCHANGED invites

-----------------------------------------------------------------------------
AccountStep(w) ==
  \/ RegisterLook(w) \/ RegisterInsert(w) \/ RegisterMail(w) \/ VerifyWrite(w)
  \/ LoginCheck(w) \/ PasswordLook(w) \/ PasswordWrite(w)
  \/ InviteLook(w) \/ InviteUse(w) \/ AdminLook(w) \/ AdminInsert(w)

AccountRequest(w) ==
  \E a \in Addresses :
    \/ CreateInvite(w, a)
    \/ \E p \in Initial :
         Register(w, a, p) \/ \E i \in DOMAIN invites : RegisterAdmin(w, a, i, p)
    \/ \E p \in Passwords :
         Login(w, a, p) \/ \E q \in Passwords : ChangePassword(w, a, p, q)

(***************************************************************************)
(* Every access token names an account that exists and has the role the    *)
(* token says, though role and address were looked at before; and every    *)
(* administrator stems from an invite to that mailbox, which is used up.   *)
(***************************************************************************)
AccessIsEarned ==
  /\ \A s \in sessions : users[s.who] # NoRow /\ users[s.who].role = s.role
  /\ \A a \in Addresses :
       users[a].role = "admin" =>
         \E i \in DOMAIN invites : invites[i].used /\ invites[i].to = Norm(a)

(***************************************************************************)
(* An invite that is used up, with nobody using it now, was not in vain:   *)
(* there is an account of its mailbox.                                     *)
(***************************************************************************)
InvitesLeadToAccounts ==
  \A i \in DOMAIN invites :
    \/ ~invites[i].used
    \/ \E w \in AtSteps({"admin_look", "admin_insert"}) : job[w].invite = i
    \/ \E a \in Addresses : Norm(a) = invites[i].to /\ users[a] # NoRow
=============================================================================
