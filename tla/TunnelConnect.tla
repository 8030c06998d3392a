---------------------------- MODULE TunnelConnect ----------------------------
(***************************************************************************)
(* How the client side of webrtc-proxy gets its data channel: the dialling *)
(* goroutine of main (cmd/webrtc-proxy/main.go), Connect (peerjs/peer.go)  *)
(* and the callback of pion that says that the channel is open             *)
(* (peerjs/connection.go).  One connection is dialled at a time; what is   *)
(* left of an earlier one is dead.                                         *)
(***************************************************************************)
EXTENDS Naturals

VARIABLES
  dial,     \* the goroutine: "connect", "wait" (in Connect), "got" (Connect
            \* returned), "select", "sleep" or "returned"
  channel,  \* pion's channel: "none", "dialled", "up", "closed"
  fired,    \* pion's OnOpen: "no", "read" (onOpen was read), "woke" (openCh is
            \* closed), "done"
  onOpen,   \* DataConnection.onOpen is set
  callback, \* what fired read of onOpen
  opened,   \* the channel opened of this turn of the loop is closed
  conn,     \* client.conn is this connection
  served    \* a request that came now would be sent through the tunnel

vars == <<dial, channel, fired, onOpen, callback, opened, conn, served>>

Init ==
  /\ dial = "connect" /\ channel = "none" /\ fired = "no"
  /\ onOpen = FALSE /\ callback = FALSE
  /\ opened = FALSE /\ conn = FALSE /\ served = FALSE

-----------------------------------------------------------------------------
(* The dialling goroutine.                                                 *)
Connect ==
  /\ dial = "connect" /\ dial' = "wait"
  /\ channel' = "dialled" /\ fired' = "no"
  /\ onOpen' = FALSE /\ callback' = FALSE /\ opened' = FALSE
  /\ UNCHANGED <<conn, served>>

Connected ==
  /\ dial = "wait" /\ fired \in {"woke", "done"}
  /\ dial' = "got"
  /\ UNCHANGED <<channel, fired, onOpen, callback, opened, conn, served>>

\* The context of 30 seconds ends; main sleeps for five and tries again.
ConnectFails ==
  /\ dial = "wait" /\ dial' = "sleep"
  /\ channel' = "closed"
  /\ UNCHANGED <<fired, onOpen, callback, opened, conn, served>>

Again ==
  /\ dial = "sleep" /\ dial' = "connect"
  /\ UNCHANGED <<channel, fired, onOpen, callback, opened, conn, served>>

OnOpen ==
  /\ dial = "got" /\ dial' = "select"
  /\ onOpen' = TRUE
  /\ UNCHANGED <<channel, fired, callback, opened, conn, served>>

Opened ==
  /\ dial = "select" /\ opened
  /\ dial' = "returned"
  /\ UNCHANGED <<channel, fired, onOpen, callback, opened, conn, served>>

\* 30 seconds pass: the connection is closed (OnClose: setConn(nil)) and the
\* loop goes round.
NotOpened ==
  /\ dial = "select" /\ dial' = "connect"
  /\ channel' = "closed" /\ conn' = FALSE
  /\ UNCHANGED <<fired, onOpen, callback, opened, served>>

-----------------------------------------------------------------------------
(* pion                                                                    *)
ChannelUp ==
  /\ channel = "dialled" /\ channel' = "up"
  /\ UNCHANGED <<dial, fired, onOpen, callback, opened, conn, served>>

\* wireDataChannel: onOpen is read under the lock, openCh is closed, and the
\* callback runs if there was one.
ReadOnOpen ==
  /\ channel = "up" /\ fired = "no" /\ fired' = "read"
  /\ callback' = onOpen
  /\ UNCHANGED <<dial, channel, onOpen, opened, conn, served>>

CloseOpenCh ==
  /\ fired = "read" /\ fired' = "woke"
  /\ UNCHANGED <<dial, channel, onOpen, callback, opened, conn, served>>

RunCallback ==
  /\ fired = "woke" /\ fired' = "done"
  /\ IF callback THEN conn' = TRUE /\ opened' = TRUE ELSE UNCHANGED <<conn, opened>>
  /\ UNCHANGED <<dial, channel, onOpen, callback, served>>

\* A request from the browser: 502 without a connection.
Request ==
  /\ served' = (conn /\ channel = "up")
  /\ UNCHANGED <<dial, channel, fired, onOpen, callback, opened, conn>>

Dialler == Connect \/ Connected \/ Again \/ OnOpen \/ Opened
Pion    == ReadOnOpen \/ CloseOpenCh \/ RunCallback

Next == Dialler \/ ConnectFails \/ NotOpened \/ ChannelUp \/ Pion \/ Request

\* Both sides run, and the browser asks again and again.
Fairness ==
  /\ WF_vars(Dialler) /\ WF_vars(NotOpened) /\ WF_vars(Pion) /\ WF_vars(Request)
  /\ SF_vars(RunCallback) /\ SF_vars(Opened)

Spec == Init /\ [][Next]_vars /\ Fairness

-----------------------------------------------------------------------------
\* The client "connects to wt-<name>, serves a local HTTP port and tunnels
\* every request over the DataChannel" (cmd/webrtc-proxy/main.go:8-9): when the
\* network lets Connect succeed again and again, a request is tunnelled at last.
RequestsAreTunnelled == []<>(dial = "got") => <>served
=============================================================================
