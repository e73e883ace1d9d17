---------------------------- MODULE MCAgentControl ----------------------------
(***************************************************************************)
(* Finite instances of AgentControl for TLC.  Records and machines are     *)
(* interchangeable: no action or property singles one out.                 *)
(***************************************************************************)
EXTENDS AgentControl, TLC

MCSymmetry == Permutations(Stations) \cup Permutations(Machines)
==============================================================================
