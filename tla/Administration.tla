--------------------------- MODULE Administration ---------------------------
(***************************************************************************)
(* The requests that administer the server, together: accounts and         *)
(* invites, the dynamic tools, the audit log and its removal, workspaces,  *)
(* and the approvals of engine tools (ToolApproval), all behind the rate   *)
(* limiter, over one database, and with a server that may be restarted.    *)
(***************************************************************************)
EXTENDS ToolApproval, Limits, Accounts, AdminTools, AuditLog, Workspaces

CONSTANTS
  MaxRestarts   \* bound: restarts of the server

VARIABLES
  area,         \* the component whose requests arrive, see Areas
  restarts

avars == <<vars, job, limits, accounts, toolvars, audit, drafts, area, restarts>>

(***************************************************************************)
(* A bound: in one behaviour the requests of one component arrive.  The    *)
(* components have no tables in common; what they share is the limiter,    *)
(* the threads and the restart, which every behaviour has.                 *)
(***************************************************************************)
Areas == {"approvals", "accounts", "tools", "audit", "drafts"}

AInit ==
  /\ Init
  /\ job = [w \in Threads |-> Rest]
  /\ LimitsInit /\ AccountsInit /\ ToolsInit /\ AuditInit /\ SpacesInit
  /\ area \in Areas
  /\ restarts = 0

-----------------------------------------------------------------------------
\* What each component leaves to the others.
ByAccounts   == UNCHANGED <<toolvars, audit, drafts>>
ByTools      == UNCHANGED <<accounts, audit, drafts>>
ByAudit      == UNCHANGED <<accounts, toolvars, drafts>>
ByWorkspaces == UNCHANGED <<accounts, toolvars, audit>>

\* A request gets past the rate limiter and to its handler.
Arrive(w) ==
  /\ served < MaxRequests /\ served' = served + 1
  /\ UNCHANGED <<status, trail, req, saved, visited, area, restarts>>
  /\ \/ /\ Admit(TRUE)
        /\ \/ area = "accounts" /\ AccountRequest(w) /\ ByAccounts
           \/ area = "tools" /\ ToolRequest(w) /\ ByTools
           \/ area = "audit" /\ AuditRequest(w) /\ ByAudit
           \/ area = "drafts" /\ SpaceRequest(w) /\ ByWorkspaces
     \/ Admit(FALSE) /\ \E a \in Addresses : Verify(w, a) /\ ByAccounts

\* A handler goes on.
Continue(w) ==
  /\ UNCHANGED <<vars, area, restarts>>
  /\ \/ Denied(w) /\ UNCHANGED <<accounts, toolvars, audit, drafts>>
     \/ /\ UNCHANGED limits
        /\ \/ AccountStep(w) /\ ByAccounts
           \/ ToolStep(w) /\ ByTools
           \/ AuditStep(w) /\ ByAudit
           \/ SpaceStep(w) /\ ByWorkspaces

\* Approvals of engine tools, on other threads.
Approvals ==
  /\ area = "approvals"
  /\ Next
  /\ UNCHANGED <<job, limits, accounts, toolvars, audit, drafts, area, restarts>>

\* Time goes by, or a request is turned away, with nothing but the limiter's counters.
Clock ==
  /\ UNCHANGED <<vars, toolvars, audit, drafts, area, restarts>>
  /\ \/ (TurnAway \/ \E x \in Windows : TimePasses(x)) /\ UNCHANGED <<job, accounts>>
     \/ (\E i \in DOMAIN invites : Expire(i)) /\ UNCHANGED limits

(***************************************************************************)
(* The server stops and is started again: the requests under way are lost, *)
(* the limiter starts anew, the registry is read.                          *)
(***************************************************************************)
Restart ==
  /\ restarts < MaxRestarts /\ restarts' = restarts + 1
  /\ req' = [w \in Workers |-> Idle]
  /\ job' = [w \in Threads |-> Rest]
  /\ failures' = 0 /\ requests' = 0 /\ over' = {} /\ UNCHANGED minutes
  /\ LoadRegistry
  /\ exposed' = exposed \cup Pending \cup UNION {Going(job[w].what) : w \in Removing}
  /\ cut' = cut \cup {job[w].space : w \in AtSteps({"link"})}
  /\ UNCHANGED <<status, trail, served, saved, visited, accounts, tools, late,
                 file, rows, spaces, flows, area>>

ANext ==
  \/ Approvals \/ Clock \/ Restart
  \/ \E w \in Threads : Arrive(w) \/ Continue(w)

ASpec == AInit /\ [][ANext]_avars

-----------------------------------------------------------------------------
\* The rows of every table have their types.
ATypeOK ==
  /\ TypeOK
  /\ failures \in Nat /\ requests \in 0 .. MaxPerWindow /\ over \subseteq Windows
  /\ \A a \in Addresses : users[a] # NoRow => users[a].role \in {"user", "admin"}
  /\ \A t \in DOMAIN tools : tools[t].name \in ToolNames \ Builtin
  /\ \A s \in DOMAIN spaces : spaces[s].flow \in {0} \cup DOMAIN flows

(***************************************************************************)
(* Accounts, in the order their rows are written: nobody has access or is  *)
(* an administrator without having got it, and as long as the server was   *)
(* not restarted no invite is used up in vain.                             *)
(***************************************************************************)
AccountsAreEarned ==
  /\ ATypeOK
  /\ AccessIsEarned
  /\ restarts = 0 => InvitesLeadToAccounts

(***************************************************************************)
(* The dynamic tools come to rest as they were approved, whatever was      *)
(* under way, and only such are offered.                                   *)
(***************************************************************************)
ToolsAreAsApproved == EditsSettle /\ NamesSettle /\ RegistryWasApproved
=============================================================================
