------------------------------- MODULE Limits -------------------------------
(***************************************************************************)
(* The rate limiter of api/middleware/rate_limiter.py, for one address:    *)
(* one counter of wrong passwords and one of requests that change          *)
(* something, each with a window of a minute that is renewed by the first  *)
(* request after it.  It runs on the event loop: a request is looked at    *)
(* and counted in one step, its answer in another.                         *)
(***************************************************************************)
EXTENDS RequestThreads

CONSTANTS
  MaxFailures,  \* _MAX_FAILURES
  MaxPerWindow, \* _MAX_REQUESTS
  MaxMinutes    \* bound: windows that end

ASSUME LimitsAssumption == MaxFailures \in Nat \ {0} /\ MaxPerWindow \in Nat \ {0}

VARIABLES
  failures,     \* _failure_tracker: wrong passwords in the window
  requests,     \* _request_tracker: requests in the window
  over,         \* the windows that are older than a minute
  minutes       \* windows that have ended

limits == <<failures, requests, over, minutes>>

Windows == {"failures", "requests"}

LimitsInit == failures = 0 /\ requests = 0 /\ over = {} /\ minutes = 0

\* The counters after a window that is over has been renewed.
FailuresNow == IF "failures" \in over THEN 0 ELSE failures
RequestsNow == IF "requests" \in over THEN 0 ELSE requests

\* A minute goes by; while the counter is 0 that changes nothing.
TimePasses(x) ==
  /\ x \notin over
  /\ IF x = "failures" THEN failures > 0 ELSE requests > 0
  /\ minutes < MaxMinutes /\ minutes' = minutes + 1
  /\ over' = over \cup {x}
  /\ UNCHANGED <<failures, requests>>

\* Mutant of Admit: the last failure that is allowed does not close the door.
AdmitOneMore(changes) ==
  /\ FailuresNow <= MaxFailures
  /\ changes => RequestsNow < MaxPerWindow
  /\ failures' = FailuresNow
  /\ requests' = IF changes THEN RequestsNow + 1 ELSE requests
  /\ over' = IF changes THEN {} ELSE over \ {"failures"}
  /\ UNCHANGED minutes

\* A request goes on to its handler; only those that change something are counted.
Admit(changes) ==
  /\ FailuresNow < MaxFailures
  /\ changes => RequestsNow < MaxPerWindow
  /\ failures' = FailuresNow
  /\ requests' = IF changes THEN RequestsNow + 1 ELSE requests
  /\ over' = IF changes THEN {} ELSE over \ {"failures"}
  /\ UNCHANGED minutes

\* 429 for too many requests: the window of the failures may have been renewed.
TurnAway ==
  /\ FailuresNow < MaxFailures
  /\ RequestsNow >= MaxPerWindow
  /\ failures' = FailuresNow
  /\ over' = over \ {"failures"}
  /\ UNCHANGED <<requests, minutes>>

\* The handler of a credential path has answered 401; the answer is counted.
Denied(w) ==
  /\ At(w, "denied")
  /\ failures' = failures + 1
  /\ End(w)
  /\ UNCHANGED <<requests, over, minutes>>

\* Steps of a request that may still end in a counted 401.
CredentialSteps == {"login", "password_look", "failed_file", "failed_row", "denied"}

(***************************************************************************)
(* Although a wrong password is counted only after it was answered, no     *)
(* more of them count in one window than the limit lets in and the threads *)
(* had under way; and of requests that change something never more than    *)
(* the limit get through in a window, which are counted as they come.      *)
(***************************************************************************)
LimitsHold ==
  /\ failures + Cardinality(AtSteps(CredentialSteps)) <= MaxFailures - 1 + Cardinality(Threads)
  /\ requests <= MaxPerWindow
=============================================================================
