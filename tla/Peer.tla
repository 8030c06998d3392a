-------------------------------- MODULE Peer --------------------------------
(***************************************************************************)
(* A Peer of pkg/peerjs and its DataConnections (peer.go, connection.go).  *)
(*                                                                         *)
(* The goroutines: the one that calls Start, readLoop (which feeds the     *)
(* channel msgs), handleLoop (which takes from it), the one that calls      *)
(* Close, one per Connect, and those in which pion runs the callbacks of a  *)
(* data channel.  A connection may be closed by several of them at once;   *)
(* closing[c] says how far each one is.                                     *)
(*                                                                         *)
(* pion (the PeerConnection, its ICE agent and its data channels) is        *)
(* external and modelled as the code relies on it: a description can only   *)
(* be set on a PeerConnection that is not closed, negotiation ends with a   *)
(* connection or a failure, OnOpen and OnClose are called at most once, in  *)
(* goroutines of their own, and not before OnDataChannel has returned.      *)
(* NewPeerConnection is assumed to succeed.  What the application does in   *)
(* its callbacks is left to the module that extends this one (PeerNode).    *)
(*                                                                         *)
(* ICE candidates, heartbeats and the data that is sent are left out.       *)
(***************************************************************************)
EXTENDS Naturals, Sequences, FiniteSets

CONSTANTS
  Inbound,   \* connections that remote peers offer
  Outbound,  \* connections that the program makes with Connect
  Children,  \* further data channels of inbound connections
  Parent,    \* Parent[k]: the connection whose PeerConnection k shares
  Remotes,   \* ids of the remote peers
  Remote,    \* Remote[c]: the peer at the other end of c
  MaxMsgs,   \* capacity of msgs
  Nil        \* none

Conns == Inbound \cup Outbound \cup Children

\* On whose behalf a connection is closed: LEAVE, Peer.Close, the context of
\* Connect, the ICE watchdog, OnClose of the channel, and the application, which
\* has the connection limit, the hello timer and refused frames.
Reasons == {"leave", "peer", "ctx", "ice", "event", "limit", "hello", "refuse"}

ASSUME PeerAssumption ==
  /\ Parent \in [Children -> Inbound]
  /\ Remote \in [Conns -> Remotes]
  /\ \A k \in Children : Remote[k] = Remote[Parent[k]]
  /\ Inbound \cap Outbound = {} /\ (Inbound \cup Outbound) \cap Children = {}
  /\ MaxMsgs \in Nat \ {0}
  /\ Nil \notin Reasons

\* Signaling messages: OPEN, which comes first unless the server refuses, and
\* those about connections.
Messages == [type : {"OPEN"}]
            \cup [type : {"OFFER"}, conn : Inbound]
            \cup [type : {"ANSWER"}, conn : Outbound]
            \cup [type : {"LEAVE"}, src : Remotes]

VARIABLES
  sig,      \* the WebSocket: "none", "up", "down" (lost) or "closed" (by us)
  open,     \* Peer.open
  closeCh,  \* has closeCh been closed?
  msgs,     \* the channel between readLoop and handleLoop
  starter,  \* where Start is
  reader,   \* where readLoop is
  held,     \* the message that readLoop has read and not yet passed on
  loop,     \* where handleLoop is
  job,      \* the message that handleLoop is working on
  shutter,  \* where Peer.Close is
  gather,   \* gather[r]: connections that "leave" or "peer" still has to close
  seen      \* the signaling messages that have arrived

VARIABLES
  conns,    \* the connections in p.conns
  stage,    \* stage[c]: how far the goroutine that sets c up is
  pcs,      \* pcs[c]: the PeerConnection of c
  desc,     \* desc[c]: the negotiation of c
  chan,     \* chan[c]: the data channel of c
  dcOpen,   \* DataConnection.open
  openCh,   \* the connections whose openCh is closed
  events,   \* events[c]: the callbacks that pion has started, or will
  closing,  \* closing[c][r]: how far the call of Close for reason r is
  hooked,   \* the connections with an onClose callback
  owes      \* owes[c]: for which reason onClose is about to be called

loops == <<sig, open, closeCh, msgs, starter, reader, held, loop, job, shutter,
           gather, seen>>
wiring == <<conns, stage, pcs, desc, chan, dcOpen, openCh, events, closing,
            hooked, owes>>
peerVars == <<loops, wiring>>

PeerInit ==
  /\ sig = "none" /\ open = FALSE /\ closeCh = FALSE
  /\ msgs = <<>> /\ held = Nil /\ job = Nil
  /\ starter = "dial" /\ reader = "none" /\ loop = "none"
  /\ shutter = "idle"
  /\ gather = [r \in {"leave", "peer"} |-> {}]
  /\ seen = {} /\ conns = {} /\ openCh = {} /\ hooked = {}
  /\ stage = [c \in Conns |-> "no"]
  /\ pcs = [c \in Inbound \cup Outbound |-> "none"]
  /\ desc = [c \in Inbound \cup Outbound |-> "none"]
  /\ chan = [c \in Conns |-> "none"]
  /\ dcOpen = [c \in Conns |-> FALSE]
  /\ events = [c \in Conns |-> {}]
  /\ closing = [c \in Conns |-> [r \in Reasons |-> "no"]]
  /\ owes = [c \in Conns |-> Nil]

\* The connection that owns the PeerConnection of c.
Owner(c) == IF c \in Children THEN Parent[c] ELSE c
Family(c) == {d \in Conns : Owner(d) = c}

Enter(c, l) == stage' = [stage EXCEPT ![c] = l]

\* A goroutine is started, or goes on, to close c.
CloseFor(c, r) == closing' = [closing EXCEPT ![c][r] = "enter"]

-----------------------------------------------------------------------------
(* Start, failStart and readLoop.                                          *)

Dial ==
  /\ starter = "dial"
  /\ \/ starter' = "failed" /\ UNCHANGED <<sig, reader>>
     \/ starter' = "wait" /\ sig' = "up" /\ reader' = "read"
  /\ UNCHANGED <<wiring, open, closeCh, msgs, held, loop, job, shutter, gather, seen>>

\* The first message decides; the deadline and the context end the wait, too.
\* failStart closes the socket and the channel.
Await ==
  /\ starter = "wait"
  /\ \/ /\ msgs # <<>> /\ Head(msgs).type = "OPEN"
        /\ msgs' = Tail(msgs)
        /\ open' = TRUE /\ starter' = "ok" /\ loop' = "select"
        /\ UNCHANGED <<sig, closeCh>>
     \/ /\ \/ msgs # <<>> /\ Head(msgs).type # "OPEN" /\ msgs' = Tail(msgs)
           \/ UNCHANGED msgs
        /\ sig' = "closed" /\ closeCh' = TRUE /\ starter' = "failed"
        /\ UNCHANGED <<open, loop>>
  /\ UNCHANGED <<wiring, reader, held, job, shutter, gather, seen>>

\* The server may send anything once; an answer only after an offer was sent.
Read(m) ==
  /\ reader = "read" /\ sig = "up"
  /\ m \notin seen
  /\ m.type = "ANSWER" => desc[m.conn] = "offered"
  /\ seen' = seen \cup {m}
  /\ held' = m
  /\ reader' = "push"
  /\ UNCHANGED <<wiring, sig, open, closeCh, msgs, starter, loop, job, shutter,
                 gather>>

\* A mutant of Push: a full channel is waited for and nothing else.
PushBlocks ==
  /\ reader = "push"
  /\ Len(msgs) < MaxMsgs
  /\ msgs' = Append(msgs, held)
  /\ reader' = "read"
  /\ held' = Nil
  /\ UNCHANGED <<wiring, sig, open, closeCh, starter, loop, job, shutter,
                 gather, seen>>

\* The message is passed on, however long that takes, unless closeCh is closed.
Push ==
  /\ reader = "push"
  /\ \/ /\ Len(msgs) < MaxMsgs
        /\ msgs' = Append(msgs, held)
        /\ reader' = "read"
     \/ /\ closeCh
        /\ reader' = "done"
        /\ UNCHANGED msgs
  /\ held' = Nil
  /\ UNCHANGED <<wiring, sig, open, closeCh, starter, loop, job, shutter,
                 gather, seen>>

\* The read fails, because the server is gone or the socket was closed here.
ReadFails ==
  /\ reader = "read" /\ sig # "up"
  /\ closeCh' = TRUE
  /\ reader' = "done"
  /\ UNCHANGED <<wiring, sig, open, msgs, starter, held, loop, job, shutter,
                 gather, seen>>

\* The signaling server goes away.
SignalLost ==
  /\ sig = "up"
  /\ sig' = "down"
  /\ UNCHANGED <<wiring, open, closeCh, msgs, starter, reader, held, loop, job,
                 shutter, gather, seen>>

-----------------------------------------------------------------------------
(* handleLoop and handleMessage.                                           *)

\* select: with closeCh closed and messages waiting, either may be chosen.
Select ==
  /\ loop = "select"
  /\ \/ /\ closeCh
        /\ loop' = "done"
        /\ UNCHANGED <<msgs, job>>
     \/ /\ msgs # <<>>
        /\ msgs' = Tail(msgs)
        /\ job' = Head(msgs) /\ loop' = "handle"
  /\ UNCHANGED <<wiring, sig, open, closeCh, starter, reader, held, shutter,
                 gather, seen>>

Handled == loop' = "select" /\ job' = Nil

\* An OFFER for a connection that is not known yet registers it.
Offered(next) ==
  /\ loop = "handle" /\ job.type = "OFFER"
  /\ stage[job.conn] = "no"
  /\ conns' = conns \cup {job.conn}
  /\ Enter(job.conn, next)
  /\ UNCHANGED <<loops, pcs, desc, chan, dcOpen, openCh, events, closing, hooked, owes>>

\* onOffer makes the PeerConnection ...
MakePC(c) ==
  /\ stage[c] = "makepc" /\ c \in Inbound
  /\ pcs' = [pcs EXCEPT ![c] = "new"]
  /\ Enter(c, "answer")
  /\ UNCHANGED <<loops, conns, desc, chan, dcOpen, openCh, events, closing, hooked, owes>>

\* ... and handleOffer answers, unless c was closed meanwhile; the answer gets
\* out if the socket is still up.
Answer(c) ==
  /\ stage[c] = "answer"
  /\ desc' = [desc EXCEPT ![c] = IF pcs[c] = "closed" THEN @
                                 ELSE IF sig = "up" THEN "sent" ELSE "set"]
  /\ Enter(c, "done")
  /\ UNCHANGED <<loops, conns, pcs, chan, dcOpen, openCh, events, closing, hooked, owes>>

OfferHandled ==
  /\ loop = "handle" /\ job.type = "OFFER" /\ stage[job.conn] = "done"
  /\ Handled
  /\ UNCHANGED <<wiring, sig, open, closeCh, msgs, starter, reader, held,
                 shutter, gather, seen>>

HandleAnswer ==
  /\ loop = "handle" /\ job.type = "ANSWER"
  /\ desc' = IF job.conn \in conns /\ pcs[job.conn] = "new"
             THEN [desc EXCEPT ![job.conn] = "sent"] ELSE desc
  /\ Handled
  /\ UNCHANGED <<sig, open, closeCh, msgs, starter, reader, held, shutter, gather, seen, conns, stage, pcs, chan, dcOpen, openCh,
                 events, closing, hooked, owes>>

\* LEAVE and EXPIRE: the connections to that peer are closed, one by one.
HandleLeave ==
  /\ loop = "handle" /\ job.type = "LEAVE"
  /\ gather' = [gather EXCEPT !["leave"] = {c \in conns : Remote[c] = job.src}]
  /\ loop' = "leave"
  /\ UNCHANGED <<wiring, sig, open, closeCh, msgs, starter, reader, held, job,
                 shutter, seen>>

\* The goroutine that closes the connections in gather[r] has none under way.
BetweenCloses(r) == \A c \in Conns : closing[c][r] = "no"

CloseNext(r) ==
  /\ r = "leave" => loop = "leave"
  /\ r = "peer" => shutter = "conns"
  /\ BetweenCloses(r)
  /\ \E c \in gather[r] :
       /\ gather' = [gather EXCEPT ![r] = @ \ {c}]
       /\ CloseFor(c, r)
  /\ UNCHANGED <<sig, open, closeCh, msgs, starter, reader, held, loop, job, shutter, seen, conns, stage, pcs, desc, chan, dcOpen, openCh,
                 events, hooked, owes>>

LeaveHandled ==
  /\ loop = "leave" /\ gather["leave"] = {} /\ BetweenCloses("leave")
  /\ Handled
  /\ UNCHANGED <<wiring, sig, open, closeCh, msgs, starter, reader, held,
                 shutter, gather, seen>>

-----------------------------------------------------------------------------
(* Peer.Close.                                                             *)

\* Close first notes which connections there are.
Shut ==
  /\ shutter = "idle" /\ starter = "ok"
  /\ open' = FALSE
  /\ gather' = [gather EXCEPT !["peer"] = conns]
  /\ shutter' = "ws"
  /\ UNCHANGED <<wiring, sig, closeCh, msgs, starter, reader, held, loop, job, seen>>

\* It closes the socket and closeCh (once), then the connections.
ShutSignal ==
  /\ shutter = "ws"
  /\ sig' = "closed" /\ closeCh' = TRUE
  /\ shutter' = "conns"
  /\ UNCHANGED <<wiring, open, msgs, starter, reader, held, loop, job, gather, seen>>

ShutDone ==
  /\ shutter = "conns" /\ gather["peer"] = {} /\ BetweenCloses("peer")
  /\ shutter' = "done"
  /\ UNCHANGED <<wiring, sig, open, closeCh, msgs, starter, reader, held, loop,
                 job, gather, seen>>

-----------------------------------------------------------------------------
(* Connect.                                                                *)

Connect(c) ==
  /\ c \in Outbound /\ stage[c] = "no" /\ starter = "ok"
  /\ Enter(c, IF open THEN "register" ELSE "failed")
  /\ UNCHANGED <<loops, conns, pcs, desc, chan, dcOpen, openCh, events, closing,
                 hooked, owes>>

Register(c) ==
  /\ stage[c] = "register" /\ c \in Outbound
  /\ conns' = conns \cup {c}
  /\ Enter(c, "makepc")
  /\ UNCHANGED <<loops, pcs, desc, chan, dcOpen, openCh, events, closing, hooked, owes>>

\* The PeerConnection and its data channel are made and wired.
Prepare(c) ==
  /\ stage[c] = "makepc" /\ c \in Outbound
  /\ pcs' = [pcs EXCEPT ![c] = "new"]
  /\ Enter(c, "offer")
  /\ UNCHANGED <<loops, conns, desc, chan, dcOpen, openCh, events, closing, hooked, owes>>

\* The offer is sent, whatever comes of it; on a closed PeerConnection Connect
\* returns the error.
Offer(c) ==
  /\ stage[c] = "offer"
  /\ \/ /\ pcs[c] = "closed"
        /\ Enter(c, "failed")
        /\ UNCHANGED desc
     \/ /\ pcs[c] # "closed"
        /\ Enter(c, "wait")
        /\ desc' = [desc EXCEPT ![c] = IF sig = "up" THEN "offered" ELSE @]
  /\ UNCHANGED <<loops, conns, pcs, chan, dcOpen, openCh, events, closing, hooked, owes>>

\* openCh wakes the wait, or the context ends it and the connection is closed.
Wait(c) ==
  /\ \/ /\ stage[c] = "wait" /\ c \in openCh
        /\ Enter(c, "done") /\ UNCHANGED closing
     \/ /\ stage[c] = "wait"
        /\ Enter(c, "cancel") /\ CloseFor(c, "ctx")
     \/ /\ stage[c] = "cancel" /\ closing[c]["ctx"] = "no"
        /\ Enter(c, "failed") /\ UNCHANGED closing
  /\ UNCHANGED <<loops, conns, pcs, desc, chan, dcOpen, openCh, events, hooked, owes>>

-----------------------------------------------------------------------------
(* pion and its callbacks.                                                 *)

\* Both descriptions are set: ICE finds a path, if both ends have them, ...
Connected(c) ==
  /\ c \in Inbound \cup Outbound /\ pcs[c] = "new" /\ desc[c] = "sent"
  /\ pcs' = [pcs EXCEPT ![c] = "connected"]
  /\ UNCHANGED <<loops, conns, stage, desc, chan, dcOpen, openCh, events, closing,
                 hooked, owes>>

\* ... or it fails, then or later; the watchdog closes the connection.
IceFails(c) ==
  /\ c \in Inbound \cup Outbound
  /\ pcs[c] \in {"new", "connected"} /\ desc[c] \in {"set", "sent"}
  /\ pcs' = [pcs EXCEPT ![c] = "failed"]
  /\ CloseFor(c, "ice")
  /\ UNCHANGED <<loops, conns, stage, desc, chan, dcOpen, openCh, events, hooked, owes>>

\* A remote peer opens another channel on a connection: OnDataChannel wires
\* and registers it.
NewChild(k, next) ==
  /\ k \in Children /\ stage[k] = "no"
  /\ pcs[Parent[k]] = "connected" /\ chan[Parent[k]] = "open"
  /\ conns' = conns \cup {k}
  /\ Enter(k, next)
  /\ UNCHANGED <<loops, pcs, desc, chan, dcOpen, openCh, events, closing, hooked, owes>>

\* The channel is up, and OnOpen is called, after OnDataChannel has returned;
\* when the PeerConnection was closed meanwhile, OnClose is called as well.
ChannelUp(c) ==
  /\ chan[c] = "none"
  /\ \/ c \in Children /\ stage[c] = "done"
     \/ c \notin Children /\ pcs[c] = "connected"
  /\ \/ /\ pcs[Owner(c)] # "closed"
        /\ chan' = [chan EXCEPT ![c] = "open"]
        /\ events' = [events EXCEPT ![c] = @ \cup {"open"}]
     \/ /\ pcs[Owner(c)] = "closed"
        /\ chan' = [chan EXCEPT ![c] = "closed"]
        /\ events' = [events EXCEPT ![c] = @ \cup {"open", "close"}]
  /\ UNCHANGED <<loops, conns, stage, pcs, desc, dcOpen, openCh, closing, hooked, owes>>

OnOpen(c) ==
  /\ "open" \in events[c]
  /\ events' = [events EXCEPT ![c] = @ \ {"open"}]
  /\ dcOpen' = [dcOpen EXCEPT ![c] = TRUE]
  /\ openCh' = openCh \cup {c}
  /\ UNCHANGED <<loops, conns, stage, pcs, desc, chan, closing, hooked, owes>>

OnClose(c) ==
  /\ "close" \in events[c]
  /\ events' = [events EXCEPT ![c] = @ \ {"close"}]
  /\ CloseFor(c, "event")
  /\ UNCHANGED <<loops, conns, stage, pcs, desc, chan, dcOpen, openCh, hooked, owes>>

\* The open channels among cs are closed, by either end; OnClose will be called.
ChannelsDown(cs) ==
  LET down == {c \in cs : chan[c] = "open"} IN
  /\ chan' = [c \in Conns |-> IF c \in down THEN "closed" ELSE chan[c]]
  /\ events' = [c \in Conns |-> IF c \in down THEN events[c] \cup {"close"} ELSE events[c]]

RemoteCloses(c) ==
  /\ chan[c] = "open"
  /\ ChannelsDown({c})
  /\ UNCHANGED <<loops, conns, stage, pcs, desc, dcOpen, openCh, closing, hooked, owes>>

-----------------------------------------------------------------------------
(* DataConnection.Close, called for reason r.                              *)

At(c, r, l) == closing[c][r] = l
GoOn(c, r, l) == closing' = [closing EXCEPT ![c][r] = l]

\* Under dc.mu open is reset, and who finds it set will call onClose; then the
\* channel is closed, if it was open, and the PeerConnection with all its
\* channels, if it is there and not the parent's.  (Nobody can tell these
\* sections apart: only pion looks at the latter, and only Close at open.)
CloseDown(c, r) ==
  /\ At(c, r, "enter")
  /\ \/ /\ c \notin Children /\ pcs[c] # "none"
        /\ pcs' = [pcs EXCEPT ![c] = "closed"]
        /\ ChannelsDown(Family(c))
     \/ /\ c \notin Children => pcs[c] = "none"
        /\ ChannelsDown(IF dcOpen[c] THEN {c} ELSE {})
        /\ UNCHANGED pcs
  /\ owes' = [owes EXCEPT ![c] = IF dcOpen[c] /\ c \in hooked THEN r ELSE @]
  /\ GoOn(c, r, "unregister")
  /\ UNCHANGED <<loops, conns, stage, desc, openCh, hooked>>

\* A mutant of CloseEnter: the PeerConnection of a connection that is not open
\* is left alone.
CloseSkipsUnopened(c, r) ==
  /\ \/ dcOpen[c] /\ CloseDown(c, r)
     \/ /\ ~dcOpen[c] /\ At(c, r, "enter") /\ GoOn(c, r, "unregister")
        /\ UNCHANGED <<loops, conns, stage, pcs, desc, chan, events, openCh, hooked, owes>>
  /\ dcOpen' = [dcOpen EXCEPT ![c] = FALSE]

\* A mutant of CloseEnter: open is not reset.
CloseKeepsOpen(c, r) ==
  CloseDown(c, r) /\ UNCHANGED dcOpen

CloseEnter(c, r) ==
  CloseDown(c, r) /\ dcOpen' = [dcOpen EXCEPT ![c] = FALSE]

\* A mutant of Unregister: a connection that never opened is forgotten about.
UnregisterOpened(c, r) ==
  /\ At(c, r, "unregister")
  /\ conns' = IF c \in openCh THEN conns \ {c} ELSE conns
  /\ GoOn(c, r, IF owes[c] = r THEN "callback" ELSE "no")
  /\ UNCHANGED <<loops, stage, pcs, desc, chan, dcOpen, openCh, events, hooked, owes>>

\* A mutant of Unregister: p.mu is held while a LEAVE is being handled.
UnregisterWaits(c, r) ==
  /\ At(c, r, "unregister") /\ loop # "leave"
  /\ conns' = conns \ {c}
  /\ GoOn(c, r, IF owes[c] = r THEN "callback" ELSE "no")
  /\ UNCHANGED <<loops, stage, pcs, desc, chan, dcOpen, openCh, events, hooked, owes>>

\* teardown also deletes the entry in p.conns.
Unregister(c, r) ==
  /\ At(c, r, "unregister")
  /\ conns' = conns \ {c}
  /\ GoOn(c, r, IF owes[c] = r THEN "callback" ELSE "no")
  /\ UNCHANGED <<loops, stage, pcs, desc, chan, dcOpen, openCh, events, hooked, owes>>

\* onClose has been called.
CalledBack(c, r) ==
  /\ At(c, r, "callback")
  /\ owes' = [owes EXCEPT ![c] = Nil]
  /\ GoOn(c, r, "no")
  /\ UNCHANGED <<loops, conns, stage, pcs, desc, chan, dcOpen, openCh, events, hooked>>

-----------------------------------------------------------------------------
\* What the goroutines of the peer, and pion, do by themselves.
PeerStep ==
  \/ Dial \/ Await \/ Push \/ ReadFails
  \/ Select \/ OfferHandled \/ HandleAnswer \/ HandleLeave \/ LeaveHandled
  \/ CloseNext("leave") \/ CloseNext("peer")
  \/ ShutSignal \/ ShutDone
  \/ \E c \in Conns :
       \/ MakePC(c) \/ Answer(c)
       \/ Register(c) \/ Prepare(c) \/ Offer(c) \/ Wait(c)
       \/ Connected(c) \/ (IceFails(c) /\ desc[c] = "set") \/ ChannelUp(c)
       \/ OnOpen(c) \/ OnClose(c)
       \/ \E r \in Reasons :
            CloseEnter(c, r) \/ Unregister(c, r)

\* What the server, the remote peers and the program choose to do.
PeerEnv ==
  \/ \E m \in Messages : m.type # "LEAVE" /\ Read(m)
  \/ \E c \in Conns : Connect(c)

\* What puts an end to something.
PeerFault ==
  \/ SignalLost \/ Shut
  \/ \E m \in Messages : m.type = "LEAVE" /\ Read(m)
  \/ \E c \in Conns : RemoteCloses(c) \/ IceFails(c)
-----------------------------------------------------------------------------
LoopsType ==
  /\ sig \in {"none", "up", "down", "closed"}
  /\ open \in BOOLEAN /\ closeCh \in BOOLEAN
  /\ msgs \in Seq(Messages) /\ Len(msgs) <= MaxMsgs
  /\ held \in Messages \cup {Nil} /\ job \in Messages \cup {Nil}
  /\ reader = "push" => held \in Messages
  /\ loop \in {"handle", "leave"} => job \in Messages
  /\ starter \in {"dial", "wait", "ok", "failed"}
  /\ reader \in {"none", "read", "push", "done"}
  /\ loop \in {"none", "select", "handle", "leave", "done"}
  /\ shutter \in {"idle", "ws", "conns", "done"}
  /\ gather \in [{"leave", "peer"} -> SUBSET Conns]
  /\ seen \subseteq Messages

WiringType ==
  /\ conns \subseteq Conns /\ openCh \subseteq Conns /\ hooked \subseteq Conns
  /\ stage \in [Conns -> {"no", "count", "install", "limit", "register", "makepc",
                          "answer", "offer", "wait", "cancel", "done", "failed"}]
  /\ pcs \in [Inbound \cup Outbound -> {"none", "new", "connected", "failed", "closed"}]
  /\ desc \in [Inbound \cup Outbound -> {"none", "offered", "set", "sent"}]
  /\ chan \in [Conns -> {"none", "open", "closed"}]
  /\ dcOpen \in [Conns -> BOOLEAN]
  /\ events \in [Conns -> SUBSET {"open", "close"}]
  /\ closing \in [Conns -> [Reasons -> {"no", "enter", "unregister", "callback"}]]
  /\ owes \in [Conns -> Reasons \cup {Nil}]

PeerTypeOK == LoopsType /\ WiringType
=============================================================================
