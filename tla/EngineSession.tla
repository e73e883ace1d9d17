----------------------------- MODULE EngineSession -----------------------------
(***************************************************************************)
(* The portal's session with the engine: EngineClient on one side, login,  *)
(* the session store and requireAuth of the server on the other.           *)
(*                                                                         *)
(* The store is in memory: a restart of the server forgets every session.  *)
(* Calls of the portal run concurrently and share one login; each repeats  *)
(* its request once after a 401.  A cookie is a number, 0 is none.  What a *)
(* request does once let in is modelled in UploadPortal and JobEngine.     *)
(***************************************************************************)
EXTENDS Integers, FiniteSets

CONSTANTS
  Calls,            \* calls of the portal that may be under way together
  MaxCookies,       \* bounds on sessions ever made,
  MaxRestarts,      \* on restarts of the server
  MaxFaults         \* and on requests lost or timed out

ASSUME SessionAssumption ==
  IsFiniteSet(Calls) /\ {MaxCookies, MaxRestarts, MaxFaults} \subseteq Nat

VARIABLES
  following,   \* whether the portal has uploads whose jobs it follows
  live,        \* server: the live sessions
  cookies,     \* cookies given out
  cookie,      \* client: this.cookie
  logins,      \* client: the logins under way; more than one only by mistake
  call,        \* per call: its step, attempt, the cookie it sent, its last result
  restarts, faults

sessionVars == <<following, live, cookies, cookie, logins, call, restarts, faults>>

Idle(result) == [at |-> "idle", attempt |-> 0, sent |-> 0, result |-> result]

SessionInit ==
  /\ following \in BOOLEAN
  /\ live = {} /\ cookies = 0 /\ cookie = 0 /\ logins = {}
  /\ call = [c \in Calls |-> Idle("none")]
  /\ restarts = 0 /\ faults = 0

\* Mutant: every call that needs a login makes one of its own.
OwnLogin(c) == logins \cup {[by |-> c, answer |-> 0]}

\* login(): joins the login under way, or begins one.
Joined(c) == IF logins = {} THEN {[by |-> c, answer |-> 0]} ELSE logins

NeedsLogin(c, attempt) ==
  /\ call' = [call EXCEPT ![c].at = "waiting", ![c].attempt = attempt]
  /\ logins' = Joined(c)

Begin(c) ==
  /\ following /\ call[c].at = "idle"
  /\ IF cookie = 0 THEN NeedsLogin(c, 0)
     ELSE call' = [call EXCEPT ![c].at = "sending", ![c].attempt = 0] /\ UNCHANGED logins
  /\ UNCHANGED <<following, live, cookies, cookie, restarts, faults>>

\* fetch with the cookie of this moment.
Send(c) ==
  /\ call[c].at = "sending"
  /\ call' = [call EXCEPT ![c].at = "sent", ![c].sent = cookie]
  /\ UNCHANGED <<following, live, cookies, cookie, logins, restarts, faults>>

\* requireAuth: a session that is not in the store has no userId.
ServeCall(c) ==
  /\ call[c].at = "sent"
  /\ call' = [call EXCEPT ![c].at = IF call[c].sent \in live THEN "ok" ELSE "401"]
  /\ UNCHANGED <<following, live, cookies, cookie, logins, restarts, faults>>

Again(c) == call[c].at = "401" /\ call[c].attempt = 0

\* The answer arrives: a first 401 leads to a login, a second ends the call.
Answered(c) ==
  /\ call[c].at \in {"ok", "401"}
  /\ IF Again(c) THEN NeedsLogin(c, 1)
     ELSE call' = [call EXCEPT ![c] = Idle(call[c].at)] /\ UNCHANGED logins
  /\ UNCHANGED <<following, live, cookies, cookie, restarts, faults>>

\* The server is away, or AbortSignal.timeout comes first, request served or not.
CallFails(c) ==
  /\ call[c].at \in {"sent", "ok", "401"} /\ faults < MaxFaults
  /\ faults' = faults + 1
  /\ call' = [call EXCEPT ![c] = Idle("failed")]
  /\ UNCHANGED <<following, live, cookies, cookie, logins, restarts>>

\* POST /api/auth/login: the password is verified and the session stored.
ServeLogin(l) ==
  /\ l \in logins /\ l.answer = 0 /\ cookies < MaxCookies
  /\ cookies' = cookies + 1 /\ live' = live \cup {cookies'}
  /\ logins' = (logins \ {l}) \cup {[l EXCEPT !.answer = cookies']}
  /\ UNCHANGED <<following, cookie, call, restarts, faults>>

Waiters == {c \in Calls : call[c].at = "waiting"}

LoggedIn(l) ==
  /\ l \in logins /\ l.answer > 0
  /\ cookie' = l.answer /\ logins' = logins \ {l}
  /\ call' = [c \in Calls |->
                IF c \in Waiters THEN [call[c] EXCEPT !.at = "sending"] ELSE call[c]]
  /\ UNCHANGED <<following, live, cookies, restarts, faults>>

\* All calls that await the promise.
FailedWith(l) == Waiters

\* Refused, unreachable or timed out; every call that waited fails with it.
LoginFails(l) ==
  /\ l \in logins /\ faults < MaxFaults
  /\ faults' = faults + 1 /\ logins' = logins \ {l}
  /\ call' = [c \in Calls |-> IF c \in FailedWith(l) THEN Idle("failed") ELSE call[c]]
  /\ UNCHANGED <<following, live, cookies, cookie, restarts>>

ServerForgets ==
  /\ restarts < MaxRestarts /\ restarts' = restarts + 1
  /\ live' = {}
  /\ UNCHANGED <<following, cookies, cookie, logins, call, faults>>

SessionNext ==
  \/ \E c \in Calls : Begin(c) \/ Send(c) \/ ServeCall(c) \/ Answered(c) \/ CallFails(c)
  \/ \E l \in logins : ServeLogin(l) \/ LoggedIn(l) \/ LoginFails(l)
  \/ ServerForgets

SessionSpec == SessionInit /\ [][SessionNext]_sessionVars

\* The portal polls the jobs it follows; requests are answered or timed out.  A call and a login
\* have one step to take at a time.
SessionFairness ==
  /\ \A c \in Calls : WF_sessionVars(Begin(c) \/ Send(c) \/ ServeCall(c) \/ Answered(c))
  /\ WF_sessionVars(\E l \in logins : ServeLogin(l) \/ LoggedIn(l))

SessionLiveSpec == SessionSpec /\ SessionFairness

-------------------------------------------------------------------------------
(* Well formed; a call waits only for a login that is under way.             *)
SessionTypeOK ==
  /\ following \in BOOLEAN
  /\ live \subseteq 1..cookies /\ cookies \in 0..MaxCookies /\ cookie \in 0..cookies
  /\ logins \subseteq [by: Calls, answer: 0..cookies]
  /\ call \in [Calls -> [at: {"idle", "waiting", "sending", "sent", "ok", "401"}, attempt: 0..1,
                         sent: 0..cookies, result: {"none", "ok", "401", "failed"}]]
  /\ Waiters # {} => logins # {}

(* Logins are shared: between restarts the portal leaves no more sessions on *)
(* the server than it has calls, each for a 401 that an older cookie earned, *)
(* and one for each login whose answer was lost.                             *)
SessionsBounded ==
  Cardinality(logins) <= 1 /\ Cardinality(live) <= Cardinality(Calls) + faults

(* After the last restart and fault every call of the portal succeeds again, *)
(* with nobody touching the portal.                                          *)
Recovers ==
  /\ <>[](following => \A c \in Calls : call[c].at = "idle" => call[c].result = "ok")
  /\ \A c \in Calls : []<>(call[c].at = "idle")

(* The calls of the portal share its logins, and get over every restart.     *)
LoginsShared == [](SessionTypeOK /\ SessionsBounded) /\ Recovers
===============================================================================
