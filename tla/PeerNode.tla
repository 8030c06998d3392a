------------------------------ MODULE PeerNode ------------------------------
(***************************************************************************)
(* A file-serving node: pkg/peerfs/node.go on top of a Peer.                *)
(*                                                                         *)
(* The node counts the connections it is offered, closes those above        *)
(* MaxConns, and gives the others ten seconds to say hello.  The counter    *)
(* goes down in the OnClose callback, which DataConnection.Close calls only *)
(* when the connection was open and the callback was there.                 *)
(*                                                                         *)
(* The same module describes a program that only connects to others, as     *)
(* cmd/webrtc-proxy does, without callbacks of its own.  cast says which     *)
(* connections there will be: offered ones, or the program's own.           *)
(***************************************************************************)
EXTENDS Peer

CONSTANTS
  MaxConns,  \* Config.MaxConns
  Casts,     \* the sets of connections of which cast is one
  MaxFaults  \* bound: how often the environment ends something in a cast

ASSUME NodeAssumption ==
  /\ MaxConns \in Nat \ {0} 
  /\ Casts \subseteq SUBSET (Inbound \cup Children) \cup SUBSET Outbound
  /\ MaxFaults \in [Casts -> Nat]

VARIABLES
  cast,     \* the connections of this behaviour
  count,    \* connCount
  verdict,  \* verdict[c]: "none", "accepted" or "rejected" by the limit
  timer,    \* timer[c]: the hello timer
  authed,   \* the connections that have said hello
  refused,  \* those that have sent a frame that closes them
  faults    \* how many times the environment has ended something

nodeVars == <<cast, count, verdict, timer, authed, refused, faults>>
vars == <<peerVars, nodeVars>>

Init ==
  /\ PeerInit
  /\ cast \in Casts
  /\ count = 0
  /\ verdict = [c \in Conns |-> "none"]
  /\ timer = [c \in Conns |-> "off"]
  /\ authed = {} /\ refused = {} /\ faults = 0

-----------------------------------------------------------------------------
(* onConn, called by handleMessage and by OnDataChannel.                   *)

\* With onConn done, an inbound connection goes on with onOffer.
AfterOnConn(c) == IF c \in Children THEN "done" ELSE "makepc"

\* A mutant of CountConn: the limit is off by one.
CountConnOneMore(c) ==
  /\ stage[c] = "count"
  /\ count' = count + 1
  /\ \/ /\ count' > MaxConns + 1
        /\ verdict' = [verdict EXCEPT ![c] = "rejected"]
        /\ Enter(c, "limit") /\ CloseFor(c, "limit")
     \/ /\ count' <= MaxConns + 1
        /\ verdict' = [verdict EXCEPT ![c] = "accepted"]
        /\ Enter(c, "install") /\ UNCHANGED closing
  /\ UNCHANGED <<loops, conns, pcs, desc, chan, dcOpen, openCh, events, hooked,
                 owes, cast, timer, authed, refused, faults>>

\* Under connMu.  A connection too many is closed, at once.
CountConn(c) ==
  /\ stage[c] = "count"
  /\ count' = count + 1
  /\ \/ /\ count' > MaxConns
        /\ verdict' = [verdict EXCEPT ![c] = "rejected"]
        /\ Enter(c, "limit") /\ CloseFor(c, "limit")
     \/ /\ count' <= MaxConns
        /\ verdict' = [verdict EXCEPT ![c] = "accepted"]
        /\ Enter(c, "install") /\ UNCHANGED closing
  /\ UNCHANGED <<loops, conns, pcs, desc, chan, dcOpen, openCh, events, hooked,
                 owes, cast, timer, authed, refused, faults>>

\* The hello timer and the callbacks of an accepted connection.
Install(c) ==
  /\ stage[c] = "install"
  /\ timer' = [timer EXCEPT ![c] = "armed"]
  /\ hooked' = hooked \cup {c}
  /\ Enter(c, AfterOnConn(c))
  /\ UNCHANGED <<loops, conns, pcs, desc, chan, dcOpen, openCh, events, closing,
                 owes, cast, count, verdict, authed, refused, faults>>

\* The Close of a rejected connection has returned.
Rejected(c) ==
  /\ stage[c] = "limit" /\ closing[c]["limit"] = "no"
  /\ Enter(c, AfterOnConn(c))
  /\ UNCHANGED <<loops, conns, pcs, desc, chan, dcOpen, openCh, events, closing,
                 hooked, owes, nodeVars>>

\* The OnClose callback.
ConnClosed(c, r) ==
  /\ CalledBack(c, r)
  /\ timer' = [timer EXCEPT ![c] = "off"]
  /\ count' = count - 1
  /\ UNCHANGED <<cast, verdict, authed, refused, faults>>

-----------------------------------------------------------------------------
(* onMessage, as far as it decides who stays.                              *)

CanHear(c) == chan[c] = "open" /\ c \in hooked /\ c \notin authed

Hello(c) ==
  /\ CanHear(c)
  /\ authed' = authed \cup {c}
  /\ UNCHANGED <<peerVars, cast, count, verdict, timer, refused, faults>>

\* Another frame than hello closes the connection at once, a hello with a wrong
\* token after 100 ms.  Once per connection.
Refuse(c) ==
  /\ CanHear(c) /\ c \notin refused
  /\ refused' = refused \cup {c}
  /\ CloseFor(c, "refuse")
  /\ UNCHANGED <<loops, conns, stage, pcs, desc, chan, dcOpen, openCh, events,
                 hooked, owes>>

\* A mutant of HelloTimeout: the timer is set and does nothing.
HelloTimeoutIdle(c) ==
  /\ timer[c] = "armed" /\ stage[c] \in {"answer", "done"}
  /\ c \in Children => dcOpen[c]
  /\ timer' = [timer EXCEPT ![c] = "off"]
  /\ UNCHANGED <<peerVars, cast, count, verdict, authed, refused, faults>>

\* The timer fires: while the answer is made and sent, before the channel is up,
\* or between its opening and OnOpen.  Ten seconds are more than NewPeerConnection
\* takes, and than pion takes to report a further channel open, which is there
\* before onConn is called (Close leaves such a channel alone until then).
HelloTimeout(c) ==
  /\ timer[c] = "armed" /\ stage[c] \in {"answer", "done"}
  /\ c \in Children => dcOpen[c]
  /\ timer' = [timer EXCEPT ![c] = "off"]
  /\ \/ c \notin authed /\ CloseFor(c, "hello")
     \/ c \in authed /\ UNCHANGED closing
  /\ UNCHANGED <<loops, conns, stage, pcs, desc, chan, dcOpen, openCh, events,
                 hooked, owes, cast, count, verdict, authed, refused, faults>>

-----------------------------------------------------------------------------
\* An offer, or a further channel, reaches onConn.
Accept ==
  /\ \/ Offered("count")
     \/ \E k \in Children \cap cast : NewChild(k, "count")
  /\ UNCHANGED nodeVars

NodeStep ==
  \/ PeerStep /\ UNCHANGED nodeVars
  \/ loop = "handle" /\ Accept
  \/ \E c \in Conns :
       \/ CountConn(c) \/ Install(c) \/ Rejected(c) \/ HelloTimeout(c)
       \/ \E r \in Reasons : ConnClosed(c, r)

\* The connections are those of the cast, and the peers at their ends.
InCast ==
  /\ \A c \in Conns : stage'[c] # "no" => c \in cast
  /\ \A m \in seen' : /\ m.type = "OFFER" => m.conn \in cast
                      /\ m.type = "LEAVE" => \E c \in cast : Remote[c] = m.src

\* The environment ends something, MaxFaults[cast] times at most.
Fault ==
  /\ faults < MaxFaults[cast]
  /\ faults' = faults + 1
  /\ \/ PeerFault /\ InCast /\ UNCHANGED refused
     \/ \E c \in Conns : Refuse(c)
  /\ UNCHANGED <<cast, count, verdict, timer, authed>>

Next ==
  \/ NodeStep
  \/ PeerEnv /\ InCast /\ UNCHANGED nodeVars
  \/ Fault
  \/ Accept
  \/ \E c \in Conns : Hello(c)

Spec == Init /\ [][Next]_vars

\* The goroutines of the program run, timers fire, and an ICE negotiation ends
\* one way or the other.  Nothing is asked of the server, of the remote peers or
\* of the caller.  All loops of the model are finite, so this says that every
\* goroutine is run again and again.
FairSpec == Spec /\ WF_vars(NodeStep)
-----------------------------------------------------------------------------
(* Properties.                                                             *)

\* The types of the variables; no connection is counted that onConn has not
\* decided about.
TypeOK ==
  /\ PeerTypeOK
  /\ cast \in Casts
  /\ count \in 0..Cardinality({c \in Conns : verdict[c] # "none"})
  /\ verdict \in [Conns -> {"none", "accepted", "rejected"}]
  /\ timer \in [Conns -> {"off", "armed"}]
  /\ authed \subseteq Conns /\ refused \subseteq Conns
  /\ faults \in 0..MaxFaults[cast]

\* Never are more than MaxConns accepted connections open, however their
\* offers, their closings and the callbacks interleave (node.go:360-369, 381-386):
\* connCount may be too high but it is never too low.
AcceptedWithinLimit ==
  Cardinality({c \in Conns : verdict[c] = "accepted" /\ chan[c] = "open"}) <= MaxConns

\* Whatever handleLoop is doing, it comes back for the next message: closing
\* connections on a LEAVE does not wait for itself (peer.go:527-528).
HandlerReturns ==
  [](loop \in {"handle", "leave"} => <>(loop = "select"))

\* Once closeCh is closed, after a failed Start, a read error or Close, readLoop
\* and handleLoop end (peer.go:279-281, 313).
GoroutinesEnd ==
  closeCh ~> reader = "done" /\ loop \in {"none", "done"}

\* Connections that have been closed leave p.conns (connection.go:461-464), even
\* those that never opened.
Corpses == {c \in conns : stage[c] # "no" /\ pcs[Owner(c)] = "closed"}
ClosedAreForgotten == Corpses # {} ~> Corpses = {}

\* The connections that Peer.Close takes stock of stay closed in the end, the
\* ones included that have no PeerConnection yet or wait for an answer
\* (peer.go:342-354).
GatheredStayClosed ==
  \A c \in Conns : c \in gather["peer"] ~> [](pcs[Owner(c)] \in {"none", "closed"})

\* No accepted connection stays open without having said hello (node.go:374).
Strangers == {c \in Conns : verdict[c] = "accepted" /\ chan[c] = "open" /\ c \notin authed}
StrangersLeave == Strangers # {} ~> Strangers = {}

=============================================================================
