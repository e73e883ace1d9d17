------------------------------- MODULE MCServices -------------------------------
(***************************************************************************)
(* Nine components for TLC, in one state space.  They share no state, so   *)
(* whatever one of them does in a run with the others it does alone: a     *)
(* behaviour is of one part, and the others rest in one state.  The        *)
(* registry is two parts: edits of any workstation, and wakes of the last  *)
(* one together with edits of it.                                          *)
(***************************************************************************)
EXTENDS PortalAccess, Accounts, JobInput, AllowedPaths, Registry,
        RemoteBridge, UploadClient, EngineSession, TransferDeadline

CONSTANT Parts     \* the components to explore

VARIABLE part

\* A transfer that is over.
NoTransfer ==
  /\ phase = "ended" /\ closed = TRUE /\ idle = Off /\ total = Off
  /\ expired = 0 /\ silent = 0 /\ age = 0

\* What a component may begin with is chosen only when it is explored.
Init ==
  /\ part \in Parts
  /\ AccessInit /\ AccountsInit /\ InputInit /\ PathInit /\ RegistryInit
  /\ BridgeInit /\ ClientInit /\ SessionInit
  /\ IF part = "deadline" THEN DeadlineInit ELSE NoTransfer
  /\ created = IF part = "wakes" THEN MaxId - 1 ELSE 0
  /\ part = "accounts" \/ env.adminUsername = CHOOSE name \in AdminNames : TRUE
  /\ part = "access" \/ config = CHOOSE password \in PortalPasswords : TRUE
  /\ part = "paths" \/ roots = {}
  /\ part = "uploads" \/ tab = [t \in Tabs |-> NewTab(CHOOSE f \in Files : TRUE)]
  /\ following = (part = "sessions")

storeVars == <<registryVars, accountsVars, accessVars>>
checkVars == <<inputVars, pathVars>>
wireVars  == <<bridgeVars, clientVars, sessionVars, deadlineVars>>

vars == <<part, storeVars, checkVars, wireVars>>

Store ==
  \/ part = "edits" /\ Edits /\ UNCHANGED <<accountsVars, accessVars>>
  \/ part = "wakes" /\ RegistryNext /\ UNCHANGED <<accountsVars, accessVars>>
  \/ part = "accounts" /\ AccountsNext /\ UNCHANGED <<registryVars, accessVars>>
  \/ part = "access" /\ AccessNext /\ UNCHANGED <<registryVars, accountsVars>>

Check ==
  \/ part = "inputs" /\ InputNext /\ UNCHANGED pathVars
  \/ part = "paths" /\ PathNext /\ UNCHANGED inputVars

Wire ==
  \/ part = "bridge" /\ BridgeNext /\ UNCHANGED <<clientVars, sessionVars, deadlineVars>>
  \/ part = "uploads" /\ ClientNext /\ UNCHANGED <<bridgeVars, sessionVars, deadlineVars>>
  \/ part = "sessions" /\ SessionNext /\ UNCHANGED <<bridgeVars, clientVars, deadlineVars>>
  \/ part = "deadline" /\ DeadlineNext /\ UNCHANGED <<bridgeVars, clientVars, sessionVars>>

Next ==
  \/ Store /\ UNCHANGED <<part, checkVars, wireVars>>
  \/ Check /\ UNCHANGED <<part, storeVars, wireVars>>
  \/ Wire /\ UNCHANGED <<part, storeVars, checkVars>>

Spec == Init /\ [][Next]_vars

LiveSpec == Spec /\ BridgeFairness /\ ClientFairness /\ SessionFairness /\ DeadlineFairness
===============================================================================
