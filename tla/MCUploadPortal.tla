---------------------------- MODULE MCUploadPortal ----------------------------
(***************************************************************************)
(* Finite instances of UploadPortal for TLC.                               *)
(***************************************************************************)
EXTENDS UploadPortal

\* Clients are alike: only their number matters to a safety property.
Interchangeable == Permutations(Requests)
==============================================================================
