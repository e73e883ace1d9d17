----------------------------- MODULE PortalAccess -----------------------------
(***************************************************************************)
(* Who may use the upload portal: its start, its login and its sessions.   *)
(*                                                                         *)
(* The tables sessions, auth_limits and auth_config survive a restart; the *)
(* flag loginBusy and the login in progress do not.  A login awaits its    *)
(* password check between being counted and being decided, and everything  *)
(* else may happen meanwhile.  Time is a clock that ticks.                 *)
(*                                                                         *)
(* There is one account, so a session stands for its owner, and its number *)
(* for the token, its hash and the CSRF token, which are drawn together.   *)
(* Origin checks, the request rate and the form of requests are left out.  *)
(***************************************************************************)
EXTENDS Integers, Sequences, FiniteSets

CONSTANTS
  MaxTime,           \* bound: the clock
  MaxTokens,         \* bound: sessions ever opened
  PortalPasswords,   \* what UPLOAD_PASSWORD (and UPLOAD_USERNAME) may be set to
  SessionLife,       \* 24 hours
  LoginWindow,       \* 15 minutes
  MaxLogins,         \* 10 in the code
  MaxSessions        \* 20 in the code

ASSUME AccessAssumption ==
  /\ MaxTime \in Nat /\ MaxTokens \in Nat /\ PortalPasswords # {}
  /\ SessionLife \in Nat \ {0} /\ LoginWindow \in Nat \ {0}
  /\ MaxLogins \in Nat \ {0} /\ MaxSessions \in Nat \ {0}

VARIABLES
  now,         \* the clock
  config,      \* the account in the environment
  running,     \* the process answers
  sessions,    \* table sessions: token -> expires
  limit,       \* table auth_limits: the row of portal-login
  verifier,    \* table auth_config: the account of the last start
  login,       \* the login whose password is being checked
  issued,      \* history: per token, when and in which era it was issued
  era,         \* history: how often a start has found a changed account
  ended,       \* history: tokens logged out
  checks       \* history: when passwords were checked, since the last success

tables  == <<sessions, limit, verifier>>
history == <<issued, era, ended, checks>>

accessVars == <<now, config, running, sessions, limit, verifier, login, history>>

Tokens == 1..MaxTokens
NoRow  == [count |-> 0, expires |-> 0]
NoOne  == "nobody"

AccessInit ==
  /\ now = 0
  /\ config \in PortalPasswords
  /\ running = FALSE
  /\ sessions = <<>> /\ limit = NoRow /\ verifier = NoOne
  /\ login = "none"
  /\ issued = <<>> /\ era = 0 /\ ended = {} /\ checks = <<>>

\* A token is good while its row is there and not expired.
ValidToken(token) == token \in DOMAIN sessions /\ sessions[token] > now

Without(tokens) == [t \in DOMAIN sessions \ tokens |-> sessions[t]]
Expired == {t \in DOMAIN sessions : sessions[t] < now}

-------------------------------------------------------------------------------
(* Start, stop and change of the account.                                    *)

\* Mutant: a changed account leaves the sessions alone.
KeptAfterRotation == sessions

\* The sessions after a start that found another account, or none.
Rotated == <<>>

\* createUploadApp: the sessions and the new verifier change in one transaction.
StartPortal ==
  /\ ~ running
  /\ running' = TRUE
  /\ IF verifier = config
     THEN UNCHANGED <<sessions, verifier, era>>
     ELSE sessions' = Rotated /\ verifier' = config /\ era' = era + 1
  /\ UNCHANGED <<now, config, limit, login, issued, ended, checks>>

\* The process ends, for whatever reason, and a password check with it.
Stop ==
  /\ running
  /\ running' = FALSE /\ login' = "none"
  /\ UNCHANGED <<now, config, tables, history>>

ChangeAccount ==
  /\ ~ running /\ era < 2
  /\ config' \in PortalPasswords
  /\ UNCHANGED <<now, running, tables, login, history>>

-------------------------------------------------------------------------------
(* Login and logout.                                                         *)

\* auth_limits after one more attempt: an expired row is replaced.
Counted ==
  IF limit = NoRow \/ limit.expires < now
  THEN [count |-> 1, expires |-> now + LoginWindow]
  ELSE [limit EXCEPT !.count = @ + 1]

Allowed == limit = NoRow \/ limit.expires < now \/ limit.count < MaxLogins

\* The attempt is counted before the password is looked at.
BeginLogin ==
  /\ running /\ login = "none" /\ Allowed
  /\ limit' = Counted
  /\ checks' = Append(checks, now)
  /\ login' \in {"right", "wrong"}
  /\ UNCHANGED <<now, config, running, sessions, verifier, issued, era, ended>>

RefuseLogin ==
  /\ login = "wrong"
  /\ login' = "none"
  /\ UNCHANGED <<now, config, running, tables, history>>

\* The sessions kept beside the new one: the newest MaxSessions - 1.
RoomFor(kept) == Cardinality(kept) <= MaxSessions - 1

Newest(kept, all) ==
  /\ kept \subseteq all
  /\ kept = all \/ Cardinality(kept) = MaxSessions - 1
  /\ \A k \in kept, gone \in all \ kept : sessions[k] >= sessions[gone]

FinishLogin ==
  /\ login = "right"
  /\ LET token == Cardinality(DOMAIN issued) + 1
         live  == DOMAIN sessions \ Expired
     IN  /\ token \in Tokens
         /\ \E kept \in SUBSET live :
              /\ RoomFor(kept) /\ Newest(kept, live)
              /\ sessions' = [t \in kept \cup {token} |->
                                IF t = token THEN now + SessionLife ELSE sessions[t]]
         /\ issued' = [t \in 1..token |->
                         IF t = token THEN [at |-> now, era |-> era] ELSE issued[t]]
  /\ limit' = NoRow /\ checks' = <<>>
  /\ login' = "none"
  /\ UNCHANGED <<now, config, running, verifier, era, ended>>

Logout(token) ==
  /\ running /\ ValidToken(token)
  /\ sessions' = Without({token})
  /\ ended' = ended \cup {token}
  /\ UNCHANGED <<now, config, running, limit, verifier, login, issued, era, checks>>

\* The timer's maintenance, as far as it touches these tables.
Maintenance ==
  /\ running /\ Expired # {}
  /\ sessions' = Without(Expired)
  /\ UNCHANGED <<now, config, running, limit, verifier, login, history>>

ClockTick ==
  /\ now < MaxTime
  /\ now' = now + 1
  /\ UNCHANGED <<config, running, tables, login, history>>

AccessNext ==
  \/ StartPortal \/ Stop \/ ChangeAccount \/ ClockTick \/ Maintenance
  \/ BeginLogin \/ RefuseLogin \/ FinishLogin
  \/ \E token \in Tokens : Logout(token)

AccessSpec == AccessInit /\ [][AccessNext]_accessVars

-------------------------------------------------------------------------------
(* The state is well formed, and the sessions kept are bounded.              *)
AccessTypeOK ==
  /\ now \in 0..MaxTime /\ config \in PortalPasswords /\ running \in BOOLEAN
  /\ DOMAIN sessions \subseteq Tokens
  /\ \A t \in DOMAIN sessions : sessions[t] \in 0..(MaxTime + SessionLife)
  /\ Cardinality(DOMAIN sessions) <= MaxSessions
  /\ limit.count \in 0..MaxLogins /\ limit.expires \in 0..(MaxTime + LoginWindow)
  /\ verifier \in PortalPasswords \cup {NoOne}
  /\ login \in {"none", "right", "wrong"} /\ (login # "none" => running)

(* app.ts:21: password rotation revokes old cookies, while ordinary restarts *)
(* preserve sessions.  A token is good only if it was issued under this      *)
(* account, has not been logged out and is not too old; and then it is good, *)
(* over any restarts, unless MaxSessions later logins have pushed it out.    *)
SessionsExact ==
  running => \A t \in DOMAIN issued :
    LET mine  == issued[t].era = era /\ t \notin ended /\ now < issued[t].at + SessionLife
        later == {u \in DOMAIN issued \ {t} : issued[u].era = era /\ issued[u].at >= issued[t].at}
    IN  /\ ValidToken(t) => mine
        /\ mine /\ Cardinality(later) < MaxSessions => ValidToken(t)

(* app.ts:65: the login budget survives restarts.  A success resets it; since*)
(* then no more than two windows' worth of passwords are checked within the  *)
(* time of one, as the windows do not slide, whatever is restarted.          *)
LoginBudget ==
  \A i \in 1..(Len(checks) - 2 * MaxLogins) : checks[i + 2 * MaxLogins] - checks[i] > LoginWindow

(* Who is let in, and how often anyone may try, whatever is logged out,      *)
(* expires, is pushed out, restarted or put under another password.          *)
AccessInv == AccessTypeOK /\ SessionsExact /\ LoginBudget
===============================================================================
