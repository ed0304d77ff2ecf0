SPECIFICATION ASpec
CONSTANTS
  Tools = {t1}
  Workers = {w1, w2, w3}
  CallableOps = {"submit", "approve", "reject", "revoke", "deprecate"}
  MaxRequests = 4
  MayFail = TRUE
  Threads = {h1, h2}
  MaxFailures = 1
  MaxPerWindow = 3
  MaxMinutes = 1
  Mailboxes = {"m"}
  Spellings = {"lower", "mixed"}
  Passwords = {"p", "q"}
  Initial = {"p"}
  MaxInvites = 1
  ToolNames = {"a", "b", "email_sender"}
  Builtin = {"email_sender"}
  Configs = {"good", "other", "bad"}
  Valid = {"good", "other"}
  MaxTools = 3
  Clients = {c1}
  MaxLines = 8
  Intents <- MCIntents
  Tweaks <- MCTweaks
  MaxWorkspaces = 2
  MaxWorkflows = 2
  MaxRestarts = 1
SYMMETRY Symmetry
INVARIANT ApprovalsAreEarned
 
 
INVARIANT ToolsAreAsApproved
INVARIANT RecordsAgree
 
INVARIANT PlansAreSound
CHECK_DEADLOCK FALSE
