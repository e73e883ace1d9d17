--------------------------------- MODULE WebApp ---------------------------------
(***************************************************************************)
(* The web application's router: one page is open at a time, and what a    *)
(* page keeps (its lists, timers and requests) exists only while it is     *)
(* mounted.  The user is logged in; the page stays open.                   *)
(*                                                                         *)
(* Whatever makes a request of a page fail is one count of faults.         *)
(***************************************************************************)
EXTENDS Naturals

CONSTANTS
  None,            \* nothing: no answer yet, no dialog, no request
  Pending,         \* a request on its way
  Failed,          \* one without an answer
  MaxFaults        \* bound on the requests that fail for no reason of the server's

ASSUME WebAppAssumption == MaxFaults \in Nat /\ None \notin Nat

\* Left out: the login screen and the detail page of a workstation.
Routes == {"/", "/jobs", "/audit", "/remote/:id"}

VARIABLES
  page,            \* the route whose page is open
  faults           \* how many requests are still to fail

WebAppInit == page \in Routes /\ faults \in 0..MaxFaults

\* The page's component is rendered, and its effects run.
Mounted(route) == page = route

Fault == faults > 0 /\ faults' = faults - 1
===============================================================================
