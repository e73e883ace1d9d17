----------------------------- MODULE RemoteBridge -----------------------------
(***************************************************************************)
(* A remote desktop session: the page's noVNC client, the WebSocket that   *)
(* the server accepts, and the TCP connection it opens to the workstation. *)
(*                                                                         *)
(* Reconnecting replaces the page's client by a new one, so sessions are   *)
(* numbered in the order the page opens them, and the parts of several may *)
(* be alive at once.  Bytes travel as numbered chunks, one sequence per    *)
(* leg; a leg that closes is drained first or dropped whole.               *)
(*                                                                         *)
(* noVNC, the VNC server and the operating systems are the environment.    *)
(* The VNC password, zoom and key shortcuts are left out, and so is a      *)
(* machine that vanishes without a FIN: no code waits for it.              *)
(***************************************************************************)
EXTENDS SequencesExt

CONSTANTS
  MaxRemotes,    \* bound: sessions the page opens
  MaxChunks      \* bound: chunks sent in each direction of a session

ASSUME BridgeAssumption == MaxRemotes \in Nat /\ MaxChunks \in Nat

VARIABLES
  page,      \* the page: its client, the session it listens to, what it shows
  rfb,       \* per session: the state of its noVNC client
  link,      \* per session: the two connections of the bridge and their bytes
  audit,     \* the remote.start and remote.end rows
  crashed,   \* sessions a server restart has cut
  admits     \* whether the user is signed in and the workstation enabled

bridgeVars == <<page, rfb, link, audit, crashed, admits>>

Sessions == 1..MaxRemotes
NoClient == 0
Upto(n)  == [i \in 1..n |-> i]

Page == [client: Sessions \cup {NoClient}, heard: SUBSET Sessions,
         pill: {"connecting", "connected", "disconnected"}]
Link == [ws: {"none", "open", "closing", "closed"},
         tcp: {"none", "connecting", "up", "closed"},
         sent: 0..MaxChunks, up: Seq(Nat), pending: Seq(Nat), vnc: Seq(Nat),
         spoken: 0..MaxChunks, down: Seq(Nat), back: Seq(Nat), seen: Seq(Nat)]
AuditRow == [action: {"remote.start", "remote.end"}, session: Sessions]

\* Before the upgrade: nothing of the session exists at the server.
NoLink == [ws |-> "none", tcp |-> "none", sent |-> 0, up |-> <<>>, pending |-> <<>>, vnc |-> <<>>,
           spoken |-> 0, down |-> <<>>, back |-> <<>>, seen |-> <<>>]

BridgeInit ==
  /\ page = [client |-> NoClient, heard |-> {}, pill |-> "connecting"]
  /\ rfb = [s \in Sessions |-> "none"]
  /\ link = [s \in Sessions |-> NoLink]
  /\ audit = <<>>
  /\ crashed = {}
  /\ admits = TRUE

Recorded(action, s) == \E i \in DOMAIN audit : audit[i] = [action |-> action, session |-> s]
recordRemoteAudit(action, s) == audit' = Append(audit, [action |-> action, session |-> s])

-------------------------------------------------------------------------------
(* The page. *)

\* rfb.disconnect(): the client stops at once; its event comes later.
Disconnected(s) ==
  [r \in Sessions |-> IF r = s /\ rfb[r] \in {"connecting", "connected"} THEN "leaving" ELSE rfb[r]]

\* The effect's cleanup forgets the old client, whose events are no longer heard.
Unheard(s) == page.heard \ {s}

\* The effect runs: on opening the page, and after every change of reconnectKey.
Connect ==
  /\ page.client = NoClient \/ page.pill # "connected"
  /\ \E s \in Sessions :
       /\ rfb[s] = "none"
       /\ \A r \in Sessions : r < s => rfb[r] # "none"
       /\ rfb' = [Disconnected(page.client) EXCEPT ![s] = "connecting"]
       /\ page' = [client |-> s, heard |-> Unheard(page.client) \cup {s}, pill |-> "connecting"]
  /\ UNCHANGED <<link, audit, crashed, admits>>

handleDisconnect ==
  /\ page.client # NoClient /\ page.pill = "connected"
  /\ rfb' = Disconnected(page.client)
  /\ UNCHANGED <<page, link, audit, crashed, admits>>

\* The user leaves the page.
Unmount ==
  /\ page.client # NoClient
  /\ rfb' = Disconnected(page.client)
  /\ page' = [page EXCEPT !.client = NoClient, !.heard = Unheard(page.client)]
  /\ UNCHANGED <<link, audit, crashed, admits>>

\* noVNC's connect event: the handshake needs an answer of the VNC server.
onConnect(s) ==
  /\ rfb[s] = "connecting" /\ link[s].seen # <<>>
  /\ rfb' = [rfb EXCEPT ![s] = "connected"]
  /\ page' = IF s \in page.heard THEN [page EXCEPT !.pill = "connected"] ELSE page
  /\ UNCHANGED <<link, audit, crashed, admits>>

\* noVNC's disconnect event: its WebSocket is closed, by whichever side.
onDisconnect(s) ==
  /\ rfb[s] \in {"connecting", "connected", "leaving"}
  /\ \/ link[s].ws \in {"closing", "closed"} /\ link[s].back = <<>>
     \/ rfb[s] = "leaving"
     \/ s \in crashed
  /\ rfb' = [rfb EXCEPT ![s] = "disconnected"]
  /\ page' = IF s \in page.heard THEN [page EXCEPT !.pill = "disconnected"] ELSE page
  /\ UNCHANGED <<link, audit, crashed, admits>>

-------------------------------------------------------------------------------
(* The server: the upgrade and the bridge. *)

Waiting(s) == rfb[s] # "none" /\ link[s].ws = "none" /\ s \notin crashed

\* The upgrade: 401, 404, or a WebSocket, its audit row and the TCP connection.
Upgrade(s) ==
  /\ Waiting(s)
  /\ IF admits
     THEN /\ link' = [link EXCEPT ![s].ws = "open", ![s].tcp = "connecting"]
          /\ recordRemoteAudit("remote.start", s)
     ELSE /\ link' = [link EXCEPT ![s].ws = "closed"]
          /\ UNCHANGED audit
  /\ UNCHANGED <<page, rfb, crashed, admits>>

\* Mutant: the connection is marked ready and the chunks held back go out later.
ReadyFirst(l) == [l EXCEPT !.tcp = "up"]

\* 'connect': what was held back goes out before anything that comes later.
Flushed(l) == [l EXCEPT !.tcp = "up", !.vnc = l.vnc \o l.pending, !.pending = <<>>]

TcpConnects(s) ==
  /\ link[s].tcp = "connecting"
  /\ link' = [link EXCEPT ![s] = Flushed(link[s])]
  /\ UNCHANGED <<page, rfb, audit, crashed, admits>>

\* Mutant: an error of the TCP connection leaves the WebSocket open.
cleanupTcp(l) == [l EXCEPT !.tcp = "closed", !.down = <<>>]

\* cleanup(): both connections go, whichever of them ended first.
cleanup(l) == [l EXCEPT !.tcp = "closed", !.down = <<>>,
                        !.ws = IF l.ws = "open" THEN "closing" ELSE l.ws]

\* 'error' or 'close' of the TCP connection: refused, reset or ended.
TcpEnds(s) ==
  /\ link[s].tcp \in {"connecting", "up"}
  /\ link' = [link EXCEPT ![s] = cleanup(link[s])]
  /\ UNCHANGED <<page, rfb, audit, crashed, admits>>

\* 'message' of the WebSocket; it still comes while the WebSocket is closing.
Forwarded(l, chunk) ==
  CASE l.tcp = "up"         -> [l EXCEPT !.vnc = Append(@, chunk)]
    [] l.tcp = "connecting" -> [l EXCEPT !.pending = Append(@, chunk)]
    [] OTHER                -> l

WsMessage(s) ==
  /\ link[s].ws \in {"open", "closing"} /\ link[s].up # <<>>
  /\ link' = [link EXCEPT ![s] = Forwarded([link[s] EXCEPT !.up = Tail(@)], Head(link[s].up))]
  /\ UNCHANGED <<page, rfb, audit, crashed, admits>>

\* 'data' of the TCP connection: sent on only while the WebSocket is open.
TcpData(s) ==
  /\ link[s].tcp = "up" /\ link[s].down # <<>>
  /\ link' = [link EXCEPT ![s].down = Tail(@),
                          ![s].back = @ \o (IF link[s].ws = "open" THEN <<Head(link[s].down)>>
                                                                ELSE <<>>)]
  /\ UNCHANGED <<page, rfb, audit, crashed, admits>>

\* The end row is written once the WebSocket is closed, whoever closed it.
EndRow(s) == recordRemoteAudit("remote.end", s)

\* 'close' of the WebSocket: the closing handshake is over, or the connection lost.
WsCloses(s) ==
  /\ link[s].ws \in {"open", "closing"}
  /\ link' = [link EXCEPT ![s] = [cleanup(link[s]) EXCEPT !.ws = "closed", !.up = <<>>]]
  /\ EndRow(s)
  /\ UNCHANGED <<page, rfb, crashed, admits>>

\* The server dies: its sockets go without any close event, the rows remain.
ServerRestart ==
  LET cut == {s \in Sessions : rfb[s] # "none" /\ link[s].ws # "closed"}
  IN  /\ cut # {}
      /\ crashed' = crashed \cup cut
      /\ link' = [s \in Sessions |-> IF s \in cut
                    THEN [cleanup(link[s]) EXCEPT !.ws = "closed", !.up = <<>>, !.pending = <<>>]
                    ELSE link[s]]
  /\ UNCHANGED <<page, rfb, audit, admits>>

-------------------------------------------------------------------------------
(* The environment: the two ends that talk, and the administrator. *)

BrowserSends(s) ==
  /\ rfb[s] \in {"connecting", "connected"} /\ link[s].ws = "open" /\ link[s].sent < MaxChunks
  /\ link' = [link EXCEPT ![s].sent = @ + 1, ![s].up = Append(@, link[s].sent + 1)]
  /\ UNCHANGED <<page, rfb, audit, crashed, admits>>

BrowserReads(s) ==
  /\ rfb[s] \in {"connecting", "connected"} /\ link[s].back # <<>>
  /\ link' = [link EXCEPT ![s].back = Tail(@), ![s].seen = Append(@, Head(link[s].back))]
  /\ UNCHANGED <<page, rfb, audit, crashed, admits>>

VncSends(s) ==
  /\ link[s].tcp = "up" /\ link[s].spoken < MaxChunks
  /\ link' = [link EXCEPT ![s].spoken = @ + 1, ![s].down = Append(@, link[s].spoken + 1)]
  /\ UNCHANGED <<page, rfb, audit, crashed, admits>>

\* The workstation is switched off or on again, or the user signs out or in.
AccessChanges == admits' = ~admits /\ UNCHANGED <<page, rfb, link, audit, crashed>>

BridgeNext ==
  \/ Connect \/ handleDisconnect \/ Unmount \/ ServerRestart \/ AccessChanges
  \/ \E s \in Sessions :
       \/ onConnect(s) \/ onDisconnect(s) \/ Upgrade(s) \/ TcpConnects(s) \/ TcpEnds(s)
       \/ WsMessage(s) \/ TcpData(s) \/ WsCloses(s)
       \/ BrowserSends(s) \/ BrowserReads(s) \/ VncSends(s)

BridgeSpec == BridgeInit /\ [][BridgeNext]_bridgeVars

\* One of the two sides has begun to close the WebSocket.
Leaving(s) == rfb[s] \in {"leaving", "disconnected"} \/ link[s].ws = "closing"

\* Connections are set up or refused, close frames arrive or time out, and what
\* has arrived is handled.  Nobody is assumed to send, leave or reconnect.
BridgeFairness ==
  \A s \in Sessions :
    /\ WF_bridgeVars(Upgrade(s)) /\ WF_bridgeVars(TcpConnects(s) \/ TcpEnds(s))
    /\ WF_bridgeVars(WsMessage(s)) /\ WF_bridgeVars(TcpData(s)) /\ WF_bridgeVars(BrowserReads(s))
    /\ WF_bridgeVars(Leaving(s) /\ WsCloses(s)) /\ WF_bridgeVars(onDisconnect(s))

BridgeLiveSpec == BridgeSpec /\ BridgeFairness

-------------------------------------------------------------------------------
(* The state is well formed, and no chunk is both delivered and held back. *)
BridgeTypeOK ==
  /\ page \in Page
  /\ rfb \in [Sessions -> {"none", "connecting", "connected", "leaving", "disconnected"}]
  /\ link \in [Sessions -> Link]
  /\ \A s \in Sessions : Len(link[s].vnc) + Len(link[s].pending) <= link[s].sent
  /\ audit \in Seq(AuditRow)
  /\ crashed \subseteq Sessions /\ admits \in BOOLEAN

(* While both connections live, what the browser sent is exactly what the    *)
(* VNC server has, then what is held back until the TCP connection is up,    *)
(* then what is on the wire, and the same the other way: nothing is lost,    *)
(* repeated or overtaken.  After that each side has a beginning of it.       *)
BytesInOrder ==
  \A s \in Sessions :
    LET l == link[s]
    IN  /\ l.ws = "open" => l.vnc \o l.pending \o l.up = Upto(l.sent)
        /\ l.ws = "open" /\ l.tcp = "up" => l.seen \o l.back \o l.down = Upto(l.spoken)
        /\ IsPrefix(l.vnc, Upto(l.sent)) /\ IsPrefix(l.seen, Upto(l.spoken))

(* wsProxy.ts:63-69: the audit rows are the truth about who is connected: a  *)
(* start without its end is a live session or one that a server crash cut,   *)
(* an end comes once and after its start.                                    *)
RowsPaired ==
  /\ \A i, j \in DOMAIN audit : audit[i] = audit[j] => i = j
  /\ \A j \in DOMAIN audit : audit[j].action = "remote.end" =>
       \E i \in 1..(j - 1) : audit[i] = [action |-> "remote.start", session |-> audit[j].session]
  /\ \A s \in Sessions :
       link[s].ws \in {"open", "closing"} \/ (s \in crashed /\ Recorded("remote.start", s)
                                                /\ ~Recorded("remote.end", s))
         <=> Recorded("remote.start", s) /\ ~Recorded("remote.end", s)

(* What the page shows is the state of its current client: a late event of a *)
(* client it replaced does not get through.                                  *)
PillHonest ==
  page.client # NoClient =>
    CASE page.pill = "connecting"   -> rfb[page.client] = "connecting"
      [] page.pill = "connected"    -> rfb[page.client] \in {"connected", "leaving"}
      [] page.pill = "disconnected" -> rfb[page.client] = "disconnected"

(* Once either side has left a session, which is for good, both of its       *)
(* connections are closed in the end, and the browser knows of it.           *)
Left(s)   == rfb[s] # "none" /\ (page.client # s \/ link[s].tcp = "closed")
Closed(s) ==
  link[s].ws = "closed" /\ link[s].tcp \in {"none", "closed"} /\ rfb[s] = "disconnected"
SessionsEnd == \A s \in Sessions : []<>(Left(s) => Closed(s))

(* The bridge keeps every byte in its place on either side.                  *)
BridgeInv == BridgeTypeOK /\ BytesInOrder

(* A session is told of truly, on the page and in the log, and ends on both  *)
(* sides, whichever of them goes first and however it goes.                  *)
SessionsToldAndEnded == [](RowsPaired /\ PillHonest) /\ SessionsEnd
===============================================================================
