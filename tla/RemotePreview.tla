----------------------------- MODULE RemotePreview -----------------------------
(***************************************************************************)
(* The thumbnails of remote desktops in the browser's localStorage.        *)
(*                                                                         *)
(* Remote pages capture their canvas now and then; the dashboards of all   *)
(* tabs show what is stored, and hear of changes by events: `storage' from *)
(* other tabs, the page's own event from the same tab.  The order in which *)
(* Object.keys lists localStorage is left to the browser, so the key that  *)
(* makes room is any of them.  A frame is one of a few values; drawing and *)
(* scaling, and the race of two tabs inside one save, are left out.        *)
(***************************************************************************)
EXTENDS Integers, FiniteSets

CONSTANTS
  Tabs,          \* the browser's tabs
  Keys,          \* pairs of a user and a workstation
  Frames,        \* what a canvas may look like
  Blank,         \* nothing stored
  MaxPreviews,   \* 24 in the code
  Outcomes       \* of setItem: TRUE, and FALSE if the storage may be full

ASSUME PreviewAssumption ==
  MaxPreviews \in Nat \ {0} /\ Blank \notin Frames /\ Outcomes \subseteq BOOLEAN

VARIABLES
  stored,        \* per key: the thumbnail in localStorage
  tab,           \* per tab: its page, and the thumbnails its cards show
  notified       \* tabs with an event to handle

previewVars == <<stored, tab, notified>>

Kept == {k \in Keys : stored[k] # Blank}

PreviewInit ==
  /\ stored = [k \in Keys |-> Blank]
  /\ tab = [t \in Tabs |-> [page |-> "cards", shown |-> [k \in Keys |-> Blank]]]
  /\ notified = {}

\* Room is made for a new key when there are MaxPreviews of them: keys[0] goes.
Victims(k) ==
  IF k \notin Kept /\ Cardinality(Kept) >= MaxPreviews THEN {{v} : v \in Kept} ELSE {{}}

\* Mutant: the cards listen to the events of their own tab only.
HearsOwnOnly(t) == {t}

\* The tabs whose cards hear of a save in tab t.
Hears(t) == Tabs

\* A save of a new frame; setItem may throw, and then only the victim is gone.
saveRemotePreview(t, k, frame) ==
  /\ tab[t].page = "remote" /\ stored[k] # frame
  /\ \E gone \in Victims(k), fits \in Outcomes :
       /\ stored' = [x \in Keys |-> CASE x \in gone     -> Blank
                                      [] x = k /\ fits -> frame
                                      [] OTHER         -> stored[x]]
       /\ notified' = notified \cup IF fits THEN Hears(t) ELSE {u \in Hears(t) \ {t} : gone # {}}
  /\ UNCHANGED tab

\* useSyncExternalStore: an event makes the cards read the store again.
ReadAgain(t) ==
  /\ t \in notified
  /\ tab' = [tab EXCEPT ![t].shown = stored]
  /\ notified' = notified \ {t}
  /\ UNCHANGED stored

OpenRemote(t) ==
  /\ tab[t].page = "cards"
  /\ tab' = [tab EXCEPT ![t].page = "remote"]
  /\ UNCHANGED <<stored, notified>>

\* Back to the dashboard: its cards read the store when they are mounted.
OpenCards(t) ==
  /\ tab[t].page = "remote"
  /\ tab' = [tab EXCEPT ![t] = [page |-> "cards", shown |-> stored]]
  /\ UNCHANGED <<stored, notified>>

PreviewNext ==
  \E t \in Tabs :
    \/ ReadAgain(t) \/ OpenRemote(t) \/ OpenCards(t)
    \/ \E k \in Keys, frame \in Frames : saveRemotePreview(t, k, frame)

PreviewSpec == PreviewInit /\ [][PreviewNext]_previewVars

-------------------------------------------------------------------------------
(* The store is well formed and, as remotePreview.ts:39 says, bounded.       *)
PreviewTypeOK ==
  /\ stored \in [Keys -> Frames \cup {Blank}]
  /\ tab \in [Tabs -> [page: {"cards", "remote"}, shown: [Keys -> Frames \cup {Blank}]]]
  /\ notified \subseteq Tabs
  /\ Cardinality(Kept) <= MaxPreviews

(* The cards of a tab that has handled its events show what is stored, also  *)
(* when another tab saved, or lost, it, or a save failed halfway.            *)
CardsFresh == \A t \in Tabs \ notified : tab[t].page = "cards" => tab[t].shown = stored

(* The thumbnails of all tabs are what the browser keeps, within its bound.  *)
PreviewInv == PreviewTypeOK /\ CardsFresh
===============================================================================
