------------------------------- MODULE Accounts -------------------------------
(***************************************************************************)
(* The accounts of the server: how they are seeded when it starts.         *)
(*                                                                         *)
(* At each start index.ts looks at the environment, which the operator may *)
(* have changed, and begins up to three seedings.  Each checks the users   *)
(* table, waits for scrypt, and inserts; only the portal's account is      *)
(* waited for before the server listens.  The server may stop between any  *)
(* two steps.  A hash stands for the password it was made of.              *)
(***************************************************************************)
EXTENDS Integers, FiniteSets

CONSTANTS
  UserNames,            \* user names
  php, upload,          \* those of the two service accounts
  AdminNames,           \* values of ADMIN_USERNAME
  Passwords, NoUser,
  Crashes,              \* whether the server may also stop while it starts
  MaxStarts             \* bound on starts of the server

ASSUME AccountsAssumption ==
  /\ {php, upload} \cup AdminNames \subseteq UserNames /\ php # upload
  /\ {php, upload} \cap AdminNames = {} /\ MaxStarts \in Nat /\ Crashes \in BOOLEAN
  /\ NoUser \notin Passwords /\ NoUser \notin [is_admin: BOOLEAN, password: Passwords]

Accs  == [is_admin: BOOLEAN, password: Passwords]
Seeds == {"admin", "php", "upload"}

VARIABLES
  users,       \* per name: the row of the users table, or NoUser
  env,         \* adminUsername, and the password given for each seed, or NoUser
  seed,        \* per seeding: "none", "hashing" or "done"
  listening,
  starts       \* how often the server started, 0 before the first time

accountsVars == <<users, env, seed, listening, starts>>

NameOf(s, e) == CASE s = "admin" -> e.adminUsername [] s = "php" -> php [] s = "upload" -> upload

AccountsInit ==
  /\ users = [n \in UserNames |-> NoUser]
  /\ env \in [adminUsername: AdminNames, password: [Seeds -> {NoUser}]]
  /\ seed = [s \in Seeds |-> "none"] /\ listening = FALSE /\ starts = 0

\* Mutant: a service account is inserted or replaced.
Upserted(s, name) == s = "admin" => \A n \in UserNames : users[n] = NoUser

\* seedAdminUser does nothing if there is any user, seedServiceUser if its own exists.
NotSeeded(s, name) ==
  IF s = "admin" THEN \A n \in UserNames : users[n] = NoUser ELSE users[name] = NoUser

\* All three checks are made before the first of the hashes is ready.
StartServer(e) ==
  /\ starts < MaxStarts /\ starts' = starts + 1
  /\ starts = 0 \/ Crashes \/ (listening /\ \A s \in Seeds : seed[s] = "done")
  /\ env' = e /\ listening' = FALSE
  /\ seed' = [s \in Seeds |->
       IF e.password[s] # NoUser /\ NotSeeded(s, NameOf(s, e))
       THEN "hashing" ELSE "done"]
  /\ UNCHANGED users

Inserted(s) == [is_admin |-> s = "admin", password |-> env.password[s]]

HashReady(s) ==
  /\ seed[s] = "hashing"
  /\ users' = [users EXCEPT ![NameOf(s, env)] = Inserted(s)]
  /\ seed' = [seed EXCEPT ![s] = "done"]
  /\ UNCHANGED <<env, listening, starts>>

Awaited == seed["upload"] = "done"

Listen ==
  /\ starts > 0 /\ ~listening /\ Awaited
  /\ listening' = TRUE
  /\ UNCHANGED <<users, env, seed, starts>>

AccountsNext ==
  \/ \E e \in [adminUsername: AdminNames, password: [Seeds -> Passwords \cup {NoUser}]] :
       StartServer(e)
  \/ \E s \in Seeds : HashReady(s)
  \/ Listen

AccountsSpec == AccountsInit /\ [][AccountsNext]_accountsVars

-------------------------------------------------------------------------------
Administrators == {n \in UserNames : users[n] # NoUser /\ users[n].is_admin}

(* Well formed; there is never a second administrator, also after the server *)
(* was started with another ADMIN_USERNAME, and no service account is one.   *)
AccountsTypeOK ==
  /\ users \in [UserNames -> Accs \cup {NoUser}]
  /\ seed \in [Seeds -> {"none", "hashing", "done"}]
  /\ listening \in BOOLEAN /\ starts \in 0..MaxStarts
  /\ Cardinality(Administrators) <= 1 /\ Administrators \subseteq AdminNames

(* A start, with whatever environment, changes no account that exists.       *)
AccountsKept == [][\A n \in UserNames : users[n] # NoUser => users'[n] = users[n]]_accountsVars

(* Once the server listens, the portal has an account, if given a password.  *)
PortalServed == listening /\ env.password["upload"] # NoUser => users[upload] # NoUser

(* No start takes an account away or changes one, and none that listens      *)
(* leaves the portal without its own, wherever earlier starts were cut off.  *)
AccountsSafe == [](AccountsTypeOK /\ PortalServed) /\ AccountsKept
===============================================================================
