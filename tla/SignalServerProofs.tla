------------------------ MODULE SignalServerProofs ------------------------
(***************************************************************************)
(* Safety of the signaling server and of its directory, for any number of  *)
(* nodes, rooms, connections, ids, tokens and messages, any whitelist, any *)
(* heartbeat lifetime and any bound on the queues.                         *)
(*                                                                         *)
(* The directory.  RoomsMatchMetadata is what makes the answers to queries *)
(* agree, and it is inductive once it is known that a node's last          *)
(* heartbeat is a time of the past: only then is "no entry" told apart     *)
(* from an entry.                                                          *)
(*                                                                         *)
(* The server.  That the table of clients is sound and that replaced       *)
(* connections are closed is not inductive alone: while a takeover waits   *)
(* for the old connection, s.mu keeps the table entry from changing under  *)
(* it, and only because a goroutine that comes to clean up has seen a      *)
(* failure, which a connection never recovers from, does it leave working  *)
(* connections alone.                                                      *)
(*                                                                         *)
(* At most once.  A message is in the hands of the goroutine that read it, *)
(* in a queue, in the batch of a connection that replays a queue, or       *)
(* written to a connection; the invariant is that it is in one of these    *)
(* places only and there only once.  A step drops messages or moves them   *)
(* from one place to another, and what each step does to the places is one *)
(* of four moves.                                                          *)
(***************************************************************************)
EXTENDS SignalServer, DiscoveryGraph, SequenceTheorems, TLAPS

\* A node with metadata announced itself at some time up to now.
StampsArePast ==
  \A p \in Ids : stats[p] # NoStats => stats[p].last \in 1 .. now

DiscInv == DiscTypeOK /\ StampsArePast /\ RoomsMatchMetadata

-----------------------------------------------------------------------------

\* What a report consists of.
LEMMA ReportTypes ==
  \A r \in Reports :
    r.peer \in Ids /\ r.colls \in SUBSET Colls /\ r.type \in NodeTypes
      /\ r.peers \in SUBSET Ids
  BY DiscoveryAssumption

\* New metadata is never mistaken for none.
LEMMA StatsAreSomething ==
  ASSUME NEW t \in NodeTypes, NEW n \in Nat
  PROVE  [type |-> t, last |-> n] # NoStats
  BY DiscoveryAssumption

\* The empty directory (NewSignalServer) satisfies the invariant.
THEOREM DiscInitInvariant == DiscInit => DiscInv
<1> SUFFICES ASSUME DiscInit PROVE DiscInv
  OBVIOUS
<1>1. DiscTypeOK
  BY DEF DiscInit, DiscTypeOK, Absent
<1>2. StampsArePast
  BY DEF DiscInit, StampsArePast
<1>3. RoomsMatchMetadata
  BY DEF DiscInit, RoomsMatchMetadata
<1> QED
  BY <1>1, <1>2, <1>3 DEF DiscInv

\* An announcement (HandleAnnounce) preserves the invariant: it puts the node in
\* the rooms of its new metadata and takes it out of all others.
LEMMA AnnouncePreserves ==
  ASSUME DiscInv, NEW r \in Reports, NEW at \in 1 .. now, Announce(r, at)
  PROVE  DiscInv'
<1> USE ReportTypes, DiscoveryAssumption DEF DiscInv, DiscTypeOK
<1> DEFINE new == [type |-> r.type, last |-> at]
<1>1. new \in [type : NodeTypes, last : Nat] /\ new # NoStats /\ new.last = at
  BY StatsAreSomething
<1>2. stats' = [stats EXCEPT ![r.peer] = new]
  BY DEF Announce
<1> HIDE DEF new
<1>3. DiscTypeOK'
  BY <1>1, <1>2 DEF Announce, Absent
<1>4. StampsArePast'
  BY <1>1, <1>2 DEF Announce, StampsArePast
<1>5. RoomsMatchMetadata'
  BY <1>1, <1>2 DEF Announce, RoomsMatchMetadata, Absent
<1> QED
  BY <1>3, <1>4, <1>5

\* Forgetting a node (HandleLeave, removeClient, handleDeadDst) preserves the
\* invariant.
LEMMA ForgetPreserves ==
  ASSUME DiscInv, NEW p \in Ids, Forget(p)
  PROVE  DiscInv'
<1> USE DEF DiscInv, DiscTypeOK, Forget
<1>1. DiscTypeOK'
  BY DEF Absent
<1>2. StampsArePast'
  BY DEF StampsArePast
<1>3. RoomsMatchMetadata'
  BY DEF RoomsMatchMetadata
<1> QED
  BY <1>1, <1>2, <1>3

\* A sweep leaves a node alone or forgets it: the entries of a node carry the
\* same time, so they expire together.
LEMMA SweepAllOrNothing ==
  ASSUME DiscInv, SweepDiscovery, NEW p \in Ids
  PROVE  \/ /\ stats'[p] = stats[p] /\ colls'[p] = colls[p]
            /\ links'[p] \subseteq links[p]
            /\ \A c \in Colls : disc'[c][p] = disc[c][p]
         \/ /\ stats'[p] = NoStats /\ colls'[p] = {} /\ links'[p] = {}
            /\ \A c \in Colls : disc'[c][p] = Absent
            /\ stats[p] # NoStats /\ colls[p] # {} => Expired(stats[p].last)
<1> DEFINE kept == [c \in Colls |->
                      [q \in Ids |-> IF Expired(disc[c][q]) THEN Absent ELSE disc[c][q]]]
           active == {q \in Ids : \E c \in Colls : kept[c][q] # Absent}
<1>1. /\ disc' = kept
      /\ links' = [q \in Ids |-> IF q \in active THEN links[q] \cap active ELSE {}]
      /\ stats' = [q \in Ids |-> IF q \in active THEN stats[q] ELSE NoStats]
      /\ colls' = [q \in Ids |-> IF q \in active THEN colls[q] ELSE {}]
  BY DEF SweepDiscovery
<1>2. \A c \in Colls :
        kept[c][p] = IF Expired(disc[c][p]) THEN Absent ELSE disc[c][p]
  OBVIOUS
<1>3. \A c \in Colls : disc[c][p] = IF c \in colls[p] THEN stats[p].last ELSE Absent
  BY DEF DiscInv, RoomsMatchMetadata
<1>4. p \in active <=> \E c \in Colls : kept[c][p] # Absent
  OBVIOUS
<1> HIDE DEF kept, active
<1>5. CASE p \in active
  <2>1. PICK c \in Colls : kept[c][p] # Absent
    BY <1>4, <1>5
  <2>2. c \in colls[p] /\ ~Expired(stats[p].last)
    BY <1>2, <1>3, <2>1
  <2>3. \A d \in Colls : kept[d][p] = disc[d][p]
    BY <1>2, <1>3, <2>2
  <2> QED
    BY <1>1, <1>5, <2>3
<1>6. CASE p \notin active
  <2>1. \A c \in Colls : kept[c][p] = Absent
    BY <1>4, <1>6
  <2>2. ASSUME stats[p] # NoStats, colls[p] # {}
        PROVE  Expired(stats[p].last)
    <3>1. PICK c \in colls[p] : c \in Colls
      BY <2>2 DEF DiscInv, DiscTypeOK
    <3>2. disc[c][p] = stats[p].last /\ stats[p].last # Absent
      BY <1>3, <2>2, <3>1 DEF DiscInv, StampsArePast, Absent
    <3> QED
      BY <1>2, <2>1, <3>1, <3>2
  <2> QED
    BY <1>1, <1>6, <2>1, <2>2
<1> QED
  BY <1>5, <1>6

\* A sweep (sweepDiscovery) preserves the invariant.
LEMMA SweepPreserves ==
  ASSUME DiscInv, SweepDiscovery
  PROVE  DiscInv'
<1>1. DiscTypeOK'
  BY DEF DiscInv, DiscTypeOK, SweepDiscovery, Absent
<1>2. now' = now
  BY DEF SweepDiscovery
<1>3. StampsArePast'
  BY <1>2, SweepAllOrNothing DEF DiscInv, StampsArePast
<1>4. RoomsMatchMetadata'
  BY SweepAllOrNothing DEF DiscInv, DiscTypeOK, RoomsMatchMetadata
<1> QED
  BY <1>1, <1>3, <1>4 DEF DiscInv

\* The passing of time preserves the invariant.
LEMMA TickPreserves ==
  ASSUME DiscInv, Tick
  PROVE  DiscInv'
  BY DEF DiscInv, DiscTypeOK, StampsArePast, RoomsMatchMetadata, Tick

\* Every step of the directory preserves the invariant.
THEOREM DiscStepInvariant == DiscInv /\ [DiscNext]_discVars => DiscInv'
<1> SUFFICES ASSUME DiscInv, [DiscNext]_discVars PROVE DiscInv'
  OBVIOUS
<1>1. ASSUME NEW r \in Reports, NEW at \in 1 .. now, Announce(r, at) PROVE DiscInv'
  BY <1>1, AnnouncePreserves
<1>2. ASSUME NEW p \in Ids, Leave(p) PROVE DiscInv'
  BY <1>2, ForgetPreserves DEF Leave
<1>3. CASE SweepDiscovery
  BY <1>3, SweepPreserves
<1>4. CASE Tick
  BY <1>4, TickPreserves
<1>5. CASE UNCHANGED discVars
  BY <1>5 DEF discVars, DiscInv, DiscTypeOK, StampsArePast, RoomsMatchMetadata
<1> QED
  BY <1>1, <1>2, <1>3, <1>4, <1>5 DEF DiscNext

\* The invariant holds in every reachable state.
THEOREM DiscInvariant == DiscSpec => []DiscInv
<1> QED
  BY DiscInitInvariant, DiscStepInvariant, PTL DEF DiscSpec

-----------------------------------------------------------------------------

\* Type correctness of the directory, for every number of nodes and rooms.
THEOREM DiscTypeCorrect == DiscSpec => []DiscTypeOK
<1>1. DiscInv => DiscTypeOK
  BY DEF DiscInv
<1> QED
  BY <1>1, DiscInvariant, PTL

\* The rooms (s.disc) and the metadata (s.peerColls, s.peerStats) always tell
\* the same story.
THEOREM RoomsAlwaysMatch == DiscSpec => []RoomsMatchMetadata
<1>1. DiscInv => RoomsMatchMetadata
  BY DEF DiscInv
<1> QED
  BY <1>1, DiscInvariant, PTL

\* No query (HandleNodes, HandleStatus) ever shows half of a node.
THEOREM RoomsAlwaysAgree == DiscSpec => []RoomsAgree
<1>1. ASSUME DiscInv PROVE RoomsAgree
  <2> SUFFICES ASSUME NEW at \in 1 .. now, NEW c \in Colls, NEW p \in InRoom(c, at)
               PROVE  /\ stats[p] # NoStats
                      /\ c \in colls[p] /\ \A d \in colls[p] : p \in InRoom(d, at)
    BY DEF RoomsAgree
  <2>1. p \in Ids /\ Recent(disc[c][p], at)
    BY DEF InRoom
  <2>2. \A d \in Colls : disc[d][p] = IF d \in colls[p] THEN stats[p].last ELSE Absent
    BY <1>1, <2>1 DEF DiscInv, RoomsMatchMetadata
  <2>3. c \in colls[p] /\ Recent(stats[p].last, at)
    BY <2>1, <2>2 DEF Recent
  <2>4. stats[p] # NoStats
    BY <1>1, <2>1, <2>3 DEF DiscInv, RoomsMatchMetadata
  <2>5. ASSUME NEW d \in colls[p] PROVE p \in InRoom(d, at)
    <3>1. d \in Colls
      BY <1>1, <2>1 DEF DiscInv, DiscTypeOK
    <3> QED
      BY <2>1, <2>2, <2>3, <3>1 DEF InRoom
  <2> QED
    BY <2>3, <2>4, <2>5
<1> QED
  BY <1>1, DiscInvariant, PTL

\* A sweep never touches a node that follows a room and whose heartbeat is not
\* older than heartbeatTTL.
THEOREM SweepAlwaysKeepsFollowers == DiscSpec => SweepKeepsFollowers
<1>1. ASSUME DiscInv PROVE KeepsFollowers
  <2> SUFFICES ASSUME SweepDiscovery, NEW p \in Ids,
                      stats[p] # NoStats, ~Expired(stats[p].last), colls[p] # {}
               PROVE  stats'[p] = stats[p] /\ colls'[p] = colls[p]
    BY DEF KeepsFollowers
  <2> QED
    BY <1>1, SweepAllOrNothing
<1>2. DiscInv /\ [DiscNext]_discVars => [KeepsFollowers]_discVars
  BY <1>1
<1> QED
  BY <1>2, DiscInvariant, PTL DEF DiscSpec, SweepKeepsFollowers

-----------------------------------------------------------------------------
(* The graph.                                                              *)

\* No node has an edge to one that dropped out since its report was stored.
EdgesAreCurrent ==
  /\ gone \in [Ids -> SUBSET Ids]
  /\ \A p \in Ids : links[p] \cap gone[p] = {}

GraphInv == DiscInv /\ EdgesAreCurrent

\* A report that is stored is of now as far as s.mu is concerned, however long it
\* has waited for it.
LEMMA AnnounceKeepsEdges ==
  ASSUME GraphInv, NEW r \in Reports, NEW at \in 1 .. now, Announce(r, at),
         gone' = [gone EXCEPT ![r.peer] = {}]
  PROVE  EdgesAreCurrent'
<1>1. links' = [links EXCEPT ![r.peer] = r.peers \ {r.peer}]
  BY DEF Announce
<1> QED
  BY <1>1, ReportTypes DEF GraphInv, EdgesAreCurrent, DiscInv, DiscTypeOK

\* A step in which whoever loses its record is taken out of all edges.
LEMMA ForgottenHaveNoEdges ==
  ASSUME GraphInv, gone' = [p \in Ids |-> gone[p] \cup Lost],
         \A p \in Ids : links'[p] \subseteq links[p] /\ links'[p] \cap Lost = {}
  PROVE  EdgesAreCurrent'
<1>1. Lost \subseteq Ids
  BY DEF Lost
<1> HIDE DEF Lost
<1> QED
  BY <1>1 DEF GraphInv, EdgesAreCurrent

\* What a node does to the graph when it leaves.
LEMMA LeaveKeepsEdges ==
  ASSUME GraphInv, NEW p \in Ids, Leave(p), gone' = [q \in Ids |-> gone[q] \cup Lost]
  PROVE  EdgesAreCurrent'
<1>1. \A q \in Ids : links'[q] = (IF q = p THEN {} ELSE links[q] \ {p})
  BY DEF Leave, Forget
<1>2. \A q \in Ids : stats'[q] = (IF q = p THEN NoStats ELSE stats[q])
  BY DEF Leave, Forget, GraphInv, DiscInv, DiscTypeOK
<1>3. Lost \subseteq {p}
  BY <1>2 DEF Lost
<1> HIDE DEF Lost
<1> QED
  BY <1>1, <1>3, ForgottenHaveNoEdges

\* A sweep takes a node out of all edges when it drops its record.
LEMMA SweepKeepsEdges ==
  ASSUME GraphInv, SweepDiscovery, gone' = [q \in Ids |-> gone[q] \cup Lost]
  PROVE  EdgesAreCurrent'
<1> DEFINE kept == [c \in Colls |->
                      [q \in Ids |-> IF Expired(disc[c][q]) THEN Absent ELSE disc[c][q]]]
           active == {q \in Ids : \E c \in Colls : kept[c][q] # Absent}
<1>1. /\ links' = [q \in Ids |-> IF q \in active THEN links[q] \cap active ELSE {}]
      /\ stats' = [q \in Ids |-> IF q \in active THEN stats[q] ELSE NoStats]
  BY DEF SweepDiscovery
<1> HIDE DEF kept, active
<1>2. Lost \cap active = {}
  BY <1>1 DEF Lost
<1> HIDE DEF Lost
<1> QED
  BY <1>1, <1>2, ForgottenHaveNoEdges

LEMMA GraphStep == GraphInv /\ [GraphNext]_graphVars => GraphInv'
<1> SUFFICES ASSUME GraphInv, [GraphNext]_graphVars PROVE GraphInv'
  OBVIOUS
<1>1. [DiscNext]_discVars
  BY DEF GraphNext, graphVars, DiscNext
<1>2. DiscInv'
  BY <1>1, DiscStepInvariant DEF GraphInv
<1>3. ASSUME NEW r \in Reports, NEW at \in 1 .. now, Announce(r, at),
             gone' = [gone EXCEPT ![r.peer] = {}]
      PROVE  EdgesAreCurrent'
  BY <1>3, AnnounceKeepsEdges
<1>4. ASSUME (\E p \in Ids : Leave(p)) \/ SweepDiscovery \/ Tick,
             gone' = [p \in Ids |-> gone[p] \cup Lost]
      PROVE  EdgesAreCurrent'
  <2>1. ASSUME NEW p \in Ids, Leave(p) PROVE EdgesAreCurrent'
    BY <1>4, <2>1, LeaveKeepsEdges
  <2>2. CASE SweepDiscovery
    BY <1>4, <2>2, SweepKeepsEdges
  <2>3. CASE Tick
    <3>1. Lost = {} /\ links' = links
      BY <2>3 DEF Tick, Lost
    <3> HIDE DEF Lost
    <3> QED
      BY <1>4, <3>1, ForgottenHaveNoEdges
  <2> QED
    BY <1>4, <2>1, <2>2, <2>3
<1>5. CASE UNCHANGED graphVars
  <2>1. gone' = gone /\ links' = links
    BY <1>5 DEF graphVars, discVars
  <2>2. EdgesAreCurrent
    BY DEF GraphInv
  <2>3. (gone \in [Ids -> SUBSET Ids])' /\ (\A p \in Ids : links[p] \cap gone[p] = {})'
    BY <2>1, <2>2 DEF EdgesAreCurrent
  <2> QED
    BY <1>2, <2>3 DEF GraphInv, EdgesAreCurrent
<1> QED
  BY <1>2, <1>3, <1>4, <1>5 DEF GraphNext, GraphInv

\* A query never draws an edge to a node that dropped out after the report of the
\* edge was stored, whenever it began and whatever its type filter (HandleNodes,
\* signalserver.go:742-765), however long announcements have waited for s.mu.
THEOREM GraphAlwaysCurrent == GraphSpec => []GraphIsCurrent
<1>1. GraphInit => GraphInv
  <2> SUFFICES ASSUME GraphInit PROVE GraphInv
    OBVIOUS
  <2>1. DiscInv
    BY DiscInitInvariant DEF GraphInit
  <2> QED
    BY <2>1 DEF GraphInit, DiscInit, GraphInv, EdgesAreCurrent
<1>2. ASSUME GraphInv PROVE GraphIsCurrent
  <2> SUFFICES ASSUME NEW at \in 1 .. now, NEW T \in {{}} \cup {{t} : t \in NodeTypes},
                      NEW e \in Edges(OfTypes(Online(at), T))
               PROVE  \E p, q \in Online(at) :
                        e = {p, q} /\ p # q /\ q \in links[p] /\ q \notin gone[p]
    BY DEF GraphIsCurrent
  <2>1. PICK p \in OfTypes(Online(at), T), q \in OfTypes(Online(at), T) :
          e = {p, q} /\ q \in links[p]
    BY DEF Edges
  <2>2. p \in Online(at) /\ q \in Online(at) /\ p \in Ids
    BY <2>1 DEF OfTypes, Online, InRoom
  <2>3. p # q /\ q \notin gone[p]
    BY <1>2, <2>1, <2>2 DEF GraphInv, EdgesAreCurrent, DiscInv, DiscTypeOK
  <2> QED
    BY <2>1, <2>2, <2>3
<1> QED
  BY <1>1, <1>2, GraphStep, PTL DEF GraphSpec

-----------------------------------------------------------------------------
(* The server.                                                             *)

\* A takeover finds the old connection still registered, with its own token.
TakeoverFinds ==
  \A c \in Conns : pc[c] = "takeover" =>
    /\ clients[id[c]] \in Conns
    /\ token[clients[id[c]]] = token[c]

\* Every connection past the token check has an accepted token.
TokensAccepted ==
  \A c \in Conns : pc[c] # "fresh" /\ Whitelist # {} => token[c] \in Whitelist

\* Who comes to clean up has seen the connection fail.
FailureSeen ==
  \A c \in Conns :
    /\ pc[c] = "deadDst" => link[target[c]] # "up"
    /\ pc[c] = "cleanup" => link[c] \in Unreadable

Helpers == TakeoverFinds /\ TokensAccepted /\ FailureSeen

SigInv ==
  /\ DiscInv
  /\ Types
  /\ Fields
  /\ TableIsSound
  /\ ReplacedIsClosed
  /\ QueueBound
  /\ Helpers

-----------------------------------------------------------------------------

\* Nil is no connection, id, token or message.
LEMMA NilIsNothing ==
  Nil \notin Conns /\ Nil \notin Ids /\ Nil \notin Tokens
  BY SignalAssumption

\* What the message of a client consists of.
LEMMA InputTypes ==
  \A x \in Messages :
    x.sig \in Signals /\ x.dst \in Ids \cup {Nil} /\ x.kind \in {"signal", "leave"}
  BY DEF Messages

-----------------------------------------------------------------------------
(* Steps that leave the registrations alone.                               *)

\* Connections fail, they do not recover.
LinksOnlyFail ==
  \A d \in Conns :
    /\ link[d] # "up" => link'[d] # "up"
    /\ link[d] \in Unreadable => link'[d] \in Unreadable
    /\ link[d] = "closed" => link'[d] = "closed"

\* The goroutine of c, which is not about to close a connection, goes on, and
\* the table of clients stays as it is.
Quiet(c) ==
  /\ UNCHANGED <<clients, id, token, mu>>
  /\ LinksOnlyFail
  /\ pc[c] \notin {"fresh", "takeover", "closeDst", "goodbye", "close", "gone"}
  /\ pc' = [pc EXCEPT ![c] = pc'[c]]
  /\ pc'[c] \notin {"fresh", "takeover", "goodbye", "close", "gone"}
  /\ \A d \in Conns \ {c} : target'[d] = target[d]
  /\ pc'[c] = "deadDst" => link'[target'[c]] # "up"
  /\ pc'[c] = "cleanup" => link'[c] \in Unreadable

\* Such a step keeps the table sound and replaced connections closed.
LEMMA QuietPreserves ==
  ASSUME SigInv, Types', NEW c \in Conns, Quiet(c)
  PROVE  TableIsSound' /\ ReplacedIsClosed' /\ Helpers'
<1> USE NilIsNothing DEF SigInv, Quiet, Types
<1>1. \A d \in Conns : d # c => pc'[d] = pc[d]
  OBVIOUS
<1>2. TableIsSound'
  BY SMTT(40), <1>1 DEF TableIsSound, Serving
<1>3. ReplacedIsClosed'
  <2> SUFFICES ASSUME NEW e \in Conns, Serving(e)', clients'[id'[e]] # e
               PROVE  \/ link'[e] = "closed"
                      \/ pc'[e] \in {"goodbye", "close"}
                      \/ \E d \in Conns : pc'[d] = "closeDst" /\ target'[d] = e
    BY DEF ReplacedIsClosed
  <2>1. Serving(e) /\ clients[id[e]] # e
    BY <1>1 DEF Serving
  <2>2. CASE link[e] = "closed"
    BY <2>2 DEF LinksOnlyFail
  <2>3. CASE pc[e] \in {"goodbye", "close"}
    BY <1>1, <2>3
  <2>4. CASE \E d \in Conns : pc[d] = "closeDst" /\ target[d] = e
    BY <1>1, <2>4
  <2> QED
    BY <2>1, <2>2, <2>3, <2>4 DEF ReplacedIsClosed
<1>4. TakeoverFinds'
  BY SMTT(40), <1>1 DEF Helpers, TakeoverFinds
<1>5. TokensAccepted'
  BY <1>1 DEF Helpers, TokensAccepted
<1>6. FailureSeen'
  BY SMTT(40), <1>1 DEF Fields, Helpers, FailureSeen, LinksOnlyFail
<1> QED
  BY <1>2, <1>3, <1>4, <1>5, <1>6 DEF Helpers

\* How a write ends.
LEMMA SendEnds ==
  ASSUME Types, NEW c \in Conns, writing[c] # Nil, Written(c) \/ WriteFailed(c)
  PROVE  /\ link' \in [Conns -> {"up", "stuck", "down", "dead", "closed"}]
         /\ writing' = [writing EXCEPT ![c] = Nil]
         /\ LinksOnlyFail
         /\ WriteFailed(c) => link'[writing[c]] # "up"
<1>1. writing[c] \in Conns
  BY DEF Types
<1>2. CASE Written(c)
  BY <1>2 DEF Written, WriteFailed, Writable, LinksOnlyFail, Types
<1>3. CASE WriteFailed(c)
  <2>1. PICK l \in {"up", "stuck", "down", "dead", "closed"} :
          /\ link' = [link EXCEPT ![writing[c]] = l]
          /\ l = CASE link[writing[c]] = "up" -> "stuck"
                   [] link[writing[c]] = "down" -> "dead"
                   [] OTHER -> link[writing[c]]
    BY <1>1, <1>3 DEF WriteFailed, Types
  <2>2. l = link[writing[c]] \/ l \in {"stuck", "dead"}
    BY <2>1
  <2> QED
    BY <1>1, <1>3, <2>1, <2>2 DEF WriteFailed, Types, LinksOnlyFail, Unreadable
<1> QED
  BY <1>2, <1>3

\* What is written is a signal or OPEN.
LEMMA Delivered ==
  ASSUME Types, NEW d \in Conns, NEW x \in Signals \cup {"OPEN"}, Deliver(d, x)
  PROVE  got' \in [Conns -> Seq(Signals \cup {"OPEN"})]
  BY DEF Types, Deliver

\* What is left of a queue is a queue, and not a longer one.
LEMMA UnexpiredIsQueue ==
  ASSUME NEW q \in Seq(Signals), NEW n \in Nat
  PROVE  Unexpired(q, n) \in Seq(Signals) /\ Len(Unexpired(q, n)) <= Len(q)
  BY DEF Unexpired

\* Cutting a queue to its last n messages.
LEMMA LastOfIsQueue ==
  ASSUME NEW q \in Seq(Signals), NEW n \in Nat
  PROVE  LastOf(q, n) \in Seq(Signals) /\ Len(LastOf(q, n)) <= n
  BY DEF LastOf

-----------------------------------------------------------------------------

\* The first section of a registration (HandleWS) preserves the invariant.
LEMMA ConnectPreserves ==
  ASSUME SigInv, NEW c \in Conns, NEW i \in Ids, NEW t \in Tokens, Connect(c, i, t)
  PROVE  SigInv'
<1> USE NilIsNothing DEF SigInv, tables, procs, wires, Connect, Goto
<1>1. DiscInv'
  BY DEF discVars, DiscInv, DiscTypeOK, StampsArePast, RoomsMatchMetadata
<1>2. Types'
  <2>1. PICK l \in {"open", "takeover", "gone"} : pc' = [pc EXCEPT ![c] = l]
    OBVIOUS
  <2>2. clients' \in [Ids -> Conns \cup {Nil}]
    BY ZenonT(60) DEF Types
  <2>3. link' \in [Conns -> {"up", "stuck", "down", "dead", "closed"}]
    BY DEF Types
  <2> QED
    BY ZenonT(60), <2>1, <2>2, <2>3 DEF Types
<1>3. Fields'
  BY DEF Types, Fields, Addressees
<1>4. TableIsSound'
  BY DEF Types, Fields, TableIsSound, Serving
<1>5. ReplacedIsClosed'
  BY DEF Types, Fields, ReplacedIsClosed, Serving
<1>6. QueueBound'
  BY DEF QueueBound
<1>7. TakeoverFinds'
  <2> SUFFICES ASSUME NEW d \in Conns, pc'[d] = "takeover"
               PROVE  /\ clients'[id'[d]] \in Conns
                      /\ token'[clients'[id'[d]]] = token'[d]
    BY DEF TakeoverFinds
  <2>1. CASE d = c
    BY <2>1 DEF Types, TableIsSound, Serving
  <2>2. CASE d # c
    BY <2>2 DEF Types, Fields
  <2> QED
    BY <2>1, <2>2
<1>8. TokensAccepted'
  BY DEF Types, Helpers, TokensAccepted
<1>9. FailureSeen'
  <2>1. pc'[c] \notin {"deadDst", "cleanup"} /\ \A d \in Conns : d # c => pc'[d] = pc[d]
    BY DEF Types
  <2>2. target' = target /\ (link' = link \/ link' = [link EXCEPT ![c] = "closed"])
    OBVIOUS
  <2> QED
    BY <2>1, <2>2 DEF Types, Fields, Helpers, FailureSeen, Unreadable
<1> QED
  BY <1>1, <1>2, <1>3, <1>4, <1>5, <1>6, <1>7, <1>8, <1>9 DEF Helpers

\* The replacement of an old connection preserves the invariant.
LEMMA TakeoverPreserves ==
  ASSUME SigInv, NEW c \in Conns, Takeover(c)
  PROVE  SigInv'
<1> USE NilIsNothing DEF SigInv, tables, procs, wires, Takeover, Goto
<1>1. DiscInv'
  BY DEF discVars, DiscInv, DiscTypeOK, StampsArePast, RoomsMatchMetadata
<1>2. Types'
  BY DEF Types, Fields
<1>3. Fields'
  BY DEF Types, Fields, Addressees
<1>4. TableIsSound'
  BY DEF Types, Fields, TableIsSound, Serving, Helpers, TokensAccepted
<1>5. ReplacedIsClosed'
  BY DEF Types, Fields, TableIsSound, ReplacedIsClosed, Serving, Helpers, TakeoverFinds
<1>6. QueueBound'
  BY DEF QueueBound
<1>7. Helpers'
  BY DEF Types, Fields, Helpers, TakeoverFinds, TokensAccepted, FailureSeen, Unreadable
<1> QED
  BY <1>1, <1>2, <1>3, <1>4, <1>5, <1>6, <1>7

\* Taking the queue (flushQueue) preserves the invariant.
LEMMA FlushPreserves ==
  ASSUME SigInv, NEW c \in Conns, Flush(c)
  PROVE  SigInv'
<1> USE NilIsNothing, InputTypes DEF SigInv, tables, procs, wires, Flush, Goto
<1>1. DiscInv'
  BY DEF discVars, DiscInv, DiscTypeOK, StampsArePast, RoomsMatchMetadata
<1>2. Types'
  BY SMTT(40), UnexpiredIsQueue DEF Types, Fields
<1>3. Fields'
  BY SMTT(40) DEF Types, Fields, Addressees
<1>4. QueueBound'
  BY SignalAssumption DEF QueueBound, Types, Fields
<1>5. Quiet(c)
  BY DEF Quiet, LinksOnlyFail, Types, Fields
<1> QED
  BY <1>1, <1>2, <1>3, <1>4, <1>5, QuietPreserves

\* Locking the sendMu of a connection preserves the invariant.
LEMMA BeginSendPreserves ==
  ASSUME SigInv, NEW c \in Conns, NEW d \in Conns, BeginSend(c, d)
  PROVE  SigInv'
<1> USE NilIsNothing DEF SigInv, tables, procs, wires, BeginSend
<1>1. DiscInv'
  BY DEF discVars, DiscInv, DiscTypeOK, StampsArePast, RoomsMatchMetadata
<1>2. Types'
  BY DEF Types
<1>3. Fields'
  BY DEF Types, Fields, Addressees
<1>4. TableIsSound' /\ ReplacedIsClosed' /\ QueueBound'
  BY DEF TableIsSound, ReplacedIsClosed, Serving, QueueBound
<1>5. Helpers'
  BY DEF Helpers, TakeoverFinds, TokensAccepted, FailureSeen
<1> QED
  BY <1>1, <1>2, <1>3, <1>4, <1>5

\* Sending OPEN preserves the invariant.
LEMMA SendOpenPreserves ==
  ASSUME SigInv, NEW c \in Conns, SendOpen(c)
  PROVE  SigInv'
<1> USE NilIsNothing, InputTypes DEF SigInv, tables, procs, wires, SendOpen, Goto
<1>0. /\ link' \in [Conns -> {"up", "stuck", "down", "dead", "closed"}]
      /\ writing' = [writing EXCEPT ![c] = Nil]
      /\ LinksOnlyFail
      /\ WriteFailed(c) => link'[writing[c]] # "up"
  BY SendEnds
<1>1. DiscInv'
  BY DEF discVars, DiscInv, DiscTypeOK, StampsArePast, RoomsMatchMetadata
<1>2. Types'
  BY <1>0, Delivered DEF Types, Fields
<1>3. Fields'
  BY <1>0 DEF Types, Fields, Addressees
<1>4. QueueBound'
  BY DEF QueueBound
<1>5. Quiet(c)
  BY <1>0 DEF Quiet, Types
<1> QED
  BY <1>1, <1>2, <1>3, <1>4, <1>5, QuietPreserves

\* Sending a queued message preserves the invariant.
LEMMA ReplayPreserves ==
  ASSUME SigInv, NEW c \in Conns, Replay(c)
  PROVE  SigInv'
<1> USE NilIsNothing, InputTypes DEF SigInv, tables, procs, wires, Replay, Goto
<1>0. /\ link' \in [Conns -> {"up", "stuck", "down", "dead", "closed"}]
      /\ writing' = [writing EXCEPT ![c] = Nil]
      /\ LinksOnlyFail
      /\ WriteFailed(c) => link'[writing[c]] # "up"
  BY SendEnds
<1>a. batch[c] # <<>> /\ batch[c] \in Seq(Signals)
  BY DEF Types, Fields
<1>b. Head(batch[c]) \in Signals /\ Tail(batch[c]) \in Seq(Signals)
  BY <1>a
<1>1. DiscInv'
  BY DEF discVars, DiscInv, DiscTypeOK, StampsArePast, RoomsMatchMetadata
<1>2. Types'
  BY <1>0, <1>b, Delivered DEF Types, Fields
<1>3. Fields'
  BY SMTT(40), <1>0 DEF Types, Fields, Addressees
<1>4. QueueBound'
  BY DEF QueueBound
<1>5. Quiet(c)
  BY <1>0 DEF Quiet, Types
<1> QED
  BY <1>1, <1>2, <1>3, <1>4, <1>5, QuietPreserves

\* Forwarding a message to a registered destination preserves the invariant.
LEMMA ForwardPreserves ==
  ASSUME SigInv, NEW c \in Conns, Forward(c)
  PROVE  SigInv'
<1> USE NilIsNothing, InputTypes DEF SigInv, tables, procs, wires, Forward, Goto, Routed
<1>0. /\ link' \in [Conns -> {"up", "stuck", "down", "dead", "closed"}]
      /\ writing' = [writing EXCEPT ![c] = Nil]
      /\ LinksOnlyFail
      /\ WriteFailed(c) => link'[writing[c]] # "up"
  BY SendEnds
<1>1. DiscInv'
  BY DEF discVars, DiscInv, DiscTypeOK, StampsArePast, RoomsMatchMetadata
<1>2. Types'
  <2>1. got' \in [Conns -> Seq(Signals \cup {"OPEN"})]
    BY Delivered DEF Types, Fields
  <2>2. CASE Written(c) /\ Routed(c)
    BY <1>0, <2>1, <2>2 DEF Types
  <2>3. CASE WriteFailed(c) /\ Goto(c, "deadDst") /\ UNCHANGED <<job, target>>
    BY <1>0, <2>1, <2>3 DEF Types
  <2> QED
    BY <2>2, <2>3
<1>3. Fields'
  BY SMTT(40), <1>0 DEF Types, Fields, Addressees
<1>4. QueueBound'
  BY DEF QueueBound
<1>5. Quiet(c)
  <2>1. target[c] = writing[c]
    BY DEF Fields, Addressees
  <2>2. CASE Written(c) /\ Routed(c)
    BY <1>0, <2>2 DEF Quiet, Types
  <2>3. CASE WriteFailed(c) /\ Goto(c, "deadDst") /\ UNCHANGED <<job, target>>
    BY <1>0, <2>1, <2>3 DEF Quiet, Types
  <2> QED
    BY <2>2, <2>3
<1> QED
  BY <1>1, <1>2, <1>3, <1>4, <1>5, QuietPreserves

\* Telling a connection that another one is gone preserves the invariant.
LEMMA SendLeavePreserves ==
  ASSUME SigInv, NEW c \in Conns, SendLeave(c)
  PROVE  SigInv'
<1> USE NilIsNothing DEF SigInv, tables, procs, wires, SendLeave
<1>0. /\ link' \in [Conns -> {"up", "stuck", "down", "dead", "closed"}]
      /\ writing' = [writing EXCEPT ![c] = Nil]
      /\ LinksOnlyFail
      /\ WriteFailed(c) => link'[writing[c]] # "up"
  BY SendEnds
<1>1. DiscInv'
  BY DEF discVars, DiscInv, DiscTypeOK, StampsArePast, RoomsMatchMetadata
<1>2. Types'
  BY <1>0 DEF Types
<1>3. Fields'
  BY <1>0 DEF Types, Fields, Addressees
<1>4. TableIsSound' /\ QueueBound'
  BY DEF TableIsSound, Serving, QueueBound
<1>5. ReplacedIsClosed'
  BY <1>0 DEF ReplacedIsClosed, Serving, LinksOnlyFail, Types
<1>6. Helpers'
  BY <1>0 DEF Helpers, TakeoverFinds, TokensAccepted, FailureSeen, LinksOnlyFail, Types,
     Fields
<1> QED
  BY <1>1, <1>2, <1>3, <1>4, <1>5, <1>6

\* Telling the source of an undeliverable message preserves the invariant.
LEMMA TellSourcePreserves ==
  ASSUME SigInv, NEW c \in Conns, TellSource(c)
  PROVE  SigInv'
<1> USE NilIsNothing, InputTypes
    DEF SigInv, tables, procs, wires, TellSource, Goto, Routed
<1>0. /\ link' \in [Conns -> {"up", "stuck", "down", "dead", "closed"}]
      /\ writing' = [writing EXCEPT ![c] = Nil]
      /\ LinksOnlyFail
      /\ WriteFailed(c) => link'[writing[c]] # "up"
  BY SendEnds
<1>1. DiscInv'
  BY DEF discVars, DiscInv, DiscTypeOK, StampsArePast, RoomsMatchMetadata
<1>2. Types'
  BY <1>0, Delivered DEF Types, Fields
<1>3. Fields'
  BY <1>0 DEF Types, Fields, Addressees
<1>4. QueueBound'
  BY DEF QueueBound
<1>5. Quiet(c)
  BY <1>0 DEF Quiet, Types
<1> QED
  BY <1>1, <1>2, <1>3, <1>4, <1>5, QuietPreserves

\* Reading a message preserves the invariant.
LEMMA ReceivePreserves ==
  ASSUME SigInv, NEW c \in Conns, NEW x \in Inputs, Receive(c, x)
  PROVE  SigInv'
<1> USE NilIsNothing, InputTypes DEF SigInv, tables, procs, wires, Receive, Goto
<1>a. x \in Messages
  BY SignalAssumption
<1>1. DiscInv'
  BY DEF discVars, DiscInv, DiscTypeOK, StampsArePast, RoomsMatchMetadata
<1>2. Types'
  BY <1>a DEF Types, Fields
<1>3. Fields'
  BY <1>a DEF Types, Fields, Addressees
<1>4. QueueBound'
  BY DEF QueueBound
<1>5. Quiet(c)
  BY DEF Quiet, LinksOnlyFail, Types, Fields
<1> QED
  BY <1>1, <1>2, <1>3, <1>4, <1>5, QuietPreserves

\* Looking the destination up (route) preserves the invariant.
LEMMA RoutePreserves ==
  ASSUME SigInv, NEW c \in Conns, Route(c)
  PROVE  SigInv'
<1> USE NilIsNothing, InputTypes DEF SigInv, tables, procs, wires, Route, Goto, Routed
<1>a. job[c] \in Messages
  BY DEF Fields
<1>b. PICK m \in Messages \cup {Nil}, d \in Conns \cup {Nil},
           l \in {"read", "forward", "enqueue"} :
        /\ job' = [job EXCEPT ![c] = m]
        /\ target' = [target EXCEPT ![c] = d]
        /\ pc' = [pc EXCEPT ![c] = l]
  <2>1. CASE /\ job[c].dst # Nil /\ UNCHANGED job
             /\ target' = [target EXCEPT ![c] = clients[job[c].dst]]
             /\ Goto(c, "forward")
    <3>1. clients[job[c].dst] \in Conns \cup {Nil}
      BY <1>a, <2>1 DEF Types
    <3>2. job' = [job EXCEPT ![c] = job[c]] /\ pc' = [pc EXCEPT ![c] = "forward"]
      BY <2>1 DEF Types
    <3>3. target' = [target EXCEPT ![c] = clients[job[c].dst]]
      BY <2>1
    <3> QED
      BY ONLY <1>a, <3>1, <3>2, <3>3
  <2>2. CASE UNCHANGED <<job, target>> /\ Goto(c, "enqueue")
    BY <1>a, <2>2 DEF Types
  <2>3. CASE Routed(c)
    BY <2>3
  <2> QED
    BY <2>1, <2>2, <2>3
<1>1. DiscInv'
  BY DEF discVars, DiscInv, DiscTypeOK, StampsArePast, RoomsMatchMetadata
<1>2. Types'
  BY <1>b DEF Types
<1>3. Fields'
  BY SMTT(40), <1>a DEF Types, Fields, Addressees
<1>4. QueueBound'
  BY DEF QueueBound
<1>5. Quiet(c)
  BY DEF Quiet, LinksOnlyFail, Types, Fields
<1> QED
  BY <1>1, <1>2, <1>3, <1>4, <1>5, QuietPreserves

\* Queueing a message (route) preserves the invariant.
LEMMA EnqueuePreserves ==
  ASSUME SigInv, NEW c \in Conns, Enqueue(c)
  PROVE  SigInv'
<1> USE NilIsNothing, InputTypes DEF SigInv, tables, procs, wires, Enqueue, Goto, Routed
<1> DEFINE i == job[c].dst
           q == LastOf(Append(queues[i], job[c].sig), MaxQueued)
<1>a. i \in Ids /\ job[c].sig \in Signals /\ queues[i] \in Seq(Signals)
  BY DEF Types, Fields
<1>b. Append(queues[i], job[c].sig) \in Seq(Signals)
  BY <1>a
<1>c. q \in Seq(Signals) /\ Len(q) <= MaxQueued
  BY <1>b, LastOfIsQueue, SignalAssumption
<1>d. queues' = [queues EXCEPT ![i] = q]
  OBVIOUS
<1> HIDE DEF q
<1>1. DiscInv'
  BY DEF discVars, DiscInv, DiscTypeOK, StampsArePast, RoomsMatchMetadata
<1>2. Types'
  BY <1>a, <1>c, <1>d DEF Types, Fields
<1>3. Fields'
  BY DEF Types, Fields, Addressees
<1>4. QueueBound'
  BY <1>a, <1>c, <1>d DEF QueueBound, Types
<1>5. Quiet(c)
  BY DEF Quiet, LinksOnlyFail, Types, Fields
<1> QED
  BY <1>1, <1>2, <1>3, <1>4, <1>5, QuietPreserves

\* Dropping a connection that could not be written to (handleDeadDst) preserves
\* the invariant.
LEMMA DropDeadPreserves ==
  ASSUME SigInv, NEW c \in Conns, DropDead(c)
  PROVE  SigInv'
<1> USE NilIsNothing DEF SigInv, tables, procs, wires
<1> DEFINE i == job[c].dst
<1>1. /\ pc[c] = "deadDst" /\ mu = Nil
      /\ i \in Ids /\ target[c] \in Conns /\ writing[c] = Nil
      /\ UNCHANGED <<queues, mu, wires, id, token, batch>>
  BY DEF DropDead, Fields, Addressees
<1> HIDE DEF i
<1>2. CASE clients[i] = target[c]
  <2>1. /\ clients' = [clients EXCEPT ![i] = Nil]
        /\ victims' = [victims EXCEPT ![c] = Registered \ {target[c]}]
        /\ Forget(i)
        /\ pc' = [pc EXCEPT ![c] = "closeDst"]
        /\ UNCHANGED <<job, target>>
    BY <1>2 DEF DropDead, Goto, i
  <2>2. DiscInv'
    BY <1>1, <2>1, ForgetPreserves
  <2>3. Types'
    BY <1>1, <2>1 DEF Types, Registered
  <2>4. Fields'
    BY <1>1, <2>1 DEF Types, Fields, Addressees
  <2>5. TableIsSound'
    BY <1>1, <1>2, <2>1 DEF Types, TableIsSound, Serving
  <2>6. ReplacedIsClosed'
    <3> SUFFICES ASSUME NEW e \in Conns, Serving(e)', clients'[id'[e]] # e
                 PROVE  \/ link'[e] = "closed"
                        \/ pc'[e] \in {"goodbye", "close"}
                        \/ \E d \in Conns : pc'[d] = "closeDst" /\ target'[d] = e
      BY DEF ReplacedIsClosed
    <3>1. CASE e = target[c]
      BY <1>1, <2>1, <3>1 DEF Types
    <3>2. CASE e # target[c]
      <4>1. Serving(e) /\ clients[id[e]] # e
        BY <1>1, <1>2, <2>1, <3>2 DEF Types, Fields, Serving
      <4>2. PICK d \in Conns :
              \/ link[e] = "closed"
              \/ pc[e] \in {"goodbye", "close"}
              \/ pc[d] = "closeDst" /\ target[d] = e
        BY <4>1 DEF ReplacedIsClosed
      <4> QED
        BY <1>1, <2>1, <4>2 DEF Types
    <3> QED
      BY <3>1, <3>2
  <2>7. QueueBound'
    BY <1>1 DEF QueueBound
  <2>8. TakeoverFinds'
    BY <1>1, <2>1 DEF Types, Fields, Helpers, TakeoverFinds
  <2>9. TokensAccepted' /\ FailureSeen'
    BY <1>1, <2>1 DEF Types, Helpers, TokensAccepted, FailureSeen
  <2> QED
    BY <2>2, <2>3, <2>4, <2>5, <2>6, <2>7, <2>8, <2>9 DEF Helpers
<1>3. CASE clients[i] # target[c]
  <2>1. Routed(c) /\ UNCHANGED <<discVars, clients, victims>>
    BY <1>3 DEF DropDead, i
  <2>2. DiscInv'
    BY <2>1 DEF discVars, DiscInv, DiscTypeOK, StampsArePast, RoomsMatchMetadata
  <2>3. Types'
    BY <1>1, <2>1 DEF Types, Routed, Goto
  <2>4. Fields'
    BY <1>1, <2>1 DEF Types, Fields, Addressees, Routed, Goto
  <2>5. QueueBound'
    BY <1>1 DEF QueueBound
  <2>6. Quiet(c)
    BY <1>1, <2>1 DEF Quiet, LinksOnlyFail, Types, Routed, Goto
  <2> QED
    BY <2>2, <2>3, <2>4, <2>5, <2>6, QuietPreserves
<1> QED
  BY <1>2, <1>3

\* Closing it preserves the invariant.
LEMMA CloseDeadPreserves ==
  ASSUME SigInv, NEW c \in Conns, CloseDead(c)
  PROVE  SigInv'
<1> USE NilIsNothing DEF SigInv, tables, procs, wires, CloseDead, Goto
<1>1. DiscInv'
  BY DEF discVars, DiscInv, DiscTypeOK, StampsArePast, RoomsMatchMetadata
<1>2. Types'
  BY DEF Types
<1>3. Fields'
  BY DEF Types, Fields, Addressees
<1>4. TableIsSound' /\ QueueBound'
  BY DEF Types, TableIsSound, Serving, QueueBound
<1>5. ReplacedIsClosed'
  BY DEF Types, Fields, ReplacedIsClosed, Serving
<1>6. Helpers'
  BY DEF Types, Fields, Helpers, TakeoverFinds, TokensAccepted, FailureSeen, Unreadable
<1> QED
  BY <1>1, <1>2, <1>3, <1>4, <1>5, <1>6

\* Looking the source of an undeliverable message up preserves the invariant.
LEMMA FindSourcePreserves ==
  ASSUME SigInv, NEW c \in Conns, FindSource(c)
  PROVE  SigInv'
<1> USE NilIsNothing, InputTypes
    DEF SigInv, tables, procs, wires, FindSource, Goto, Routed
<1>1. DiscInv'
  BY DEF discVars, DiscInv, DiscTypeOK, StampsArePast, RoomsMatchMetadata
<1>2. Types'
  <2>1. CASE /\ UNCHANGED job /\ target' = [target EXCEPT ![c] = clients[id[c]]]
             /\ Goto(c, "tell")
    <3>1. clients[id[c]] \in Conns \cup {Nil}
      BY DEF Types, Fields
    <3> QED
      BY <2>1, <3>1 DEF Types
  <2>2. CASE Routed(c)
    BY <2>2 DEF Types
  <2> QED
    BY <2>1, <2>2
<1>3. Fields'
  BY SMTT(40) DEF Types, Fields, Addressees
<1>4. QueueBound'
  BY DEF QueueBound
<1>5. Quiet(c)
  BY DEF Quiet, LinksOnlyFail, Types, Fields
<1> QED
  BY <1>1, <1>2, <1>3, <1>4, <1>5, QuietPreserves

\* The end of readLoop preserves the invariant.
LEMMA ReadFailsPreserves ==
  ASSUME SigInv, NEW c \in Conns, ReadFails(c)
  PROVE  SigInv'
<1> USE NilIsNothing, InputTypes DEF SigInv, tables, procs, wires, ReadFails, Goto
<1>1. DiscInv'
  BY DEF discVars, DiscInv, DiscTypeOK, StampsArePast, RoomsMatchMetadata
<1>2. Types'
  BY DEF Types, Fields
<1>3. Fields'
  BY DEF Types, Fields, Addressees
<1>4. QueueBound'
  BY DEF QueueBound
<1>5. Quiet(c)
  BY DEF Quiet, LinksOnlyFail, Types, Fields
<1> QED
  BY <1>1, <1>2, <1>3, <1>4, <1>5, QuietPreserves

\* Removing the registration of a connection (removeClient) preserves the
\* invariant.
LEMMA RemoveClientPreserves ==
  ASSUME SigInv, NEW c \in Conns, RemoveClient(c)
  PROVE  SigInv'
<1> USE NilIsNothing DEF SigInv, tables, procs, wires
<1>1. /\ pc[c] = "cleanup" /\ mu = Nil /\ id[c] \in Ids /\ writing[c] = Nil
      /\ UNCHANGED <<queues, mu, wires, id, token, job, target, batch>>
  BY DEF RemoveClient, Fields, Addressees
<1>2. CASE clients[id[c]] = c
  <2>1. /\ clients' = [clients EXCEPT ![id[c]] = Nil]
        /\ victims' = [victims EXCEPT ![c] = Registered \ {c}]
        /\ Forget(id[c])
        /\ pc' = [pc EXCEPT ![c] = "goodbye"]
    BY <1>2 DEF RemoveClient, Goto
  <2>2. DiscInv'
    BY <1>1, <2>1, ForgetPreserves
  <2>3. Types'
    BY <1>1, <2>1 DEF Types, Registered
  <2>4. Fields'
    BY <1>1, <2>1 DEF Types, Fields, Addressees
  <2>5. TableIsSound'
    BY <1>1, <1>2, <2>1 DEF Types, TableIsSound, Serving
  <2>6. ReplacedIsClosed'
    BY <1>1, <1>2, <2>1 DEF Types, ReplacedIsClosed, Serving
  <2>7. QueueBound'
    BY <1>1 DEF QueueBound
  <2>8. TakeoverFinds'
    BY <1>1, <2>1 DEF Types, Fields, Helpers, TakeoverFinds
  <2>9. TokensAccepted' /\ FailureSeen'
    BY <1>1, <2>1 DEF Types, Helpers, TokensAccepted, FailureSeen
  <2> QED
    BY <2>2, <2>3, <2>4, <2>5, <2>6, <2>7, <2>8, <2>9 DEF Helpers
<1>3. CASE clients[id[c]] # c
  <2>1. pc' = [pc EXCEPT ![c] = "close"] /\ UNCHANGED <<discVars, clients, victims>>
    BY <1>3 DEF RemoveClient, Goto
  <2>2. DiscInv'
    BY <2>1 DEF discVars, DiscInv, DiscTypeOK, StampsArePast, RoomsMatchMetadata
  <2>3. Types'
    BY <1>1, <2>1 DEF Types
  <2>4. Fields'
    BY <1>1, <2>1 DEF Types, Fields, Addressees
  <2>5. TableIsSound'
    BY <1>1, <1>3, <2>1 DEF Types, TableIsSound, Serving
  <2>6. ReplacedIsClosed'
    BY <1>1, <2>1 DEF Types, ReplacedIsClosed, Serving
  <2>7. QueueBound'
    BY <1>1 DEF QueueBound
  <2>8. Helpers'
    BY <1>1, <2>1 DEF Types, Fields, Helpers, TakeoverFinds, TokensAccepted, FailureSeen
  <2> QED
    BY <2>2, <2>3, <2>4, <2>5, <2>6, <2>7, <2>8
<1> QED
  BY <1>2, <1>3

\* The end of a connection (closeConn) preserves the invariant.
LEMMA ClosePreserves ==
  ASSUME SigInv, NEW c \in Conns, Close(c)
  PROVE  SigInv'
<1> USE NilIsNothing DEF SigInv, tables, procs, wires, Close, Goto
<1>1. DiscInv'
  BY DEF discVars, DiscInv, DiscTypeOK, StampsArePast, RoomsMatchMetadata
<1>2. Types'
  BY DEF Types
<1>3. Fields'
  BY DEF Types, Fields, Addressees
<1>4. TableIsSound' /\ QueueBound'
  BY DEF Types, TableIsSound, Serving, QueueBound
<1>5. ReplacedIsClosed'
  BY DEF Types, ReplacedIsClosed, Serving
<1>6. Helpers'
  BY DEF Types, Fields, TableIsSound, Helpers, TakeoverFinds, TokensAccepted, FailureSeen,
         Unreadable
<1> QED
  BY <1>1, <1>2, <1>3, <1>4, <1>5, <1>6

\* The failure of a connection preserves the invariant.
LEMMA BreakPreserves ==
  ASSUME SigInv, NEW c \in Conns, Break(c)
  PROVE  SigInv'
<1> USE NilIsNothing DEF SigInv, tables, procs, wires, Break
<1>1. DiscInv'
  BY DEF discVars, DiscInv, DiscTypeOK, StampsArePast, RoomsMatchMetadata
<1>2. Types'
  BY DEF Types
<1>3. Fields'
  BY DEF Types, Fields, Addressees
<1>4. TableIsSound' /\ QueueBound'
  BY DEF TableIsSound, Serving, QueueBound
<1>5. ReplacedIsClosed'
  BY DEF Types, ReplacedIsClosed, Serving
<1>6. Helpers'
  BY DEF Types, Fields, Helpers, TakeoverFinds, TokensAccepted, FailureSeen, Unreadable
<1> QED
  BY <1>1, <1>2, <1>3, <1>4, <1>5, <1>6

\* The sweep of the queues (sweepQueues) preserves the invariant.
LEMMA SweepQueuesPreserves ==
  ASSUME SigInv, SweepQueues
  PROVE  SigInv'
<1> USE NilIsNothing DEF SigInv, tables, procs, wires
<1>1. UNCHANGED <<discVars, clients, mu, procs, wires>>
  BY DEF SweepQueues
<1>2. PICK n \in [Ids -> 0..MaxQueued] :
        queues' = [i \in Ids |-> IF clients[i] # Nil THEN <<>>
                                 ELSE Unexpired(queues[i], n[i])]
  BY DEF SweepQueues
<1>3. \A i \in Ids : queues'[i] \in Seq(Signals) /\ Len(queues'[i]) <= MaxQueued
  <2> SUFFICES ASSUME NEW i \in Ids
               PROVE  queues'[i] \in Seq(Signals) /\ Len(queues'[i]) <= MaxQueued
    OBVIOUS
  <2>1. queues[i] \in Seq(Signals) /\ Len(queues[i]) <= MaxQueued /\ n[i] \in Nat
    BY SignalAssumption DEF Types, QueueBound
  <2>2. /\ Unexpired(queues[i], n[i]) \in Seq(Signals)
        /\ Len(Unexpired(queues[i], n[i])) <= MaxQueued
    BY <2>1, UnexpiredIsQueue, SignalAssumption
  <2>3. <<>> \in Seq(Signals) /\ Len(<<>>) <= MaxQueued
    BY SignalAssumption
  <2> QED
    BY <1>2, <2>2, <2>3
<1>4. DiscInv'
  BY <1>1 DEF discVars, DiscInv, DiscTypeOK, StampsArePast, RoomsMatchMetadata
<1>5. Types' /\ QueueBound'
  BY <1>1, <1>2, <1>3 DEF Types, QueueBound
<1>6. Fields'
  BY <1>1 DEF Fields, Addressees
<1>7. TableIsSound' /\ ReplacedIsClosed'
  BY <1>1 DEF TableIsSound, ReplacedIsClosed, Serving
<1>8. Helpers'
  BY <1>1 DEF Helpers, TakeoverFinds, TokensAccepted, FailureSeen
<1> QED
  BY <1>4, <1>5, <1>6, <1>7, <1>8

\* A step of the directory preserves the invariant, and so does doing nothing.
LEMMA DirectoryPreserves ==
  ASSUME SigInv, [DiscNext]_discVars /\ UNCHANGED sigVars
  PROVE  SigInv'
<1> USE DEF SigInv, sigVars, tables, procs, wires
<1>1. DiscInv'
  BY DiscStepInvariant
<1>2. Types' /\ QueueBound'
  BY DEF Types, QueueBound
<1>3. Fields'
  BY DEF Fields, Addressees
<1>4. TableIsSound' /\ ReplacedIsClosed'
  BY DEF TableIsSound, ReplacedIsClosed, Serving
<1>5. Helpers'
  BY DEF Helpers, TakeoverFinds, TokensAccepted, FailureSeen
<1> QED
  BY <1>1, <1>2, <1>3, <1>4, <1>5

-----------------------------------------------------------------------------
(* The invariant holds always.                                             *)

\* A new server satisfies the invariant.
THEOREM SigInitInvariant == Init => SigInv
<1> SUFFICES ASSUME Init PROVE SigInv
  OBVIOUS
<1> USE NilIsNothing DEF Init
<1>1. DiscInv
  BY DiscInitInvariant
<1>2. Types /\ Fields
  BY DEF Types, Fields
<1>3. TableIsSound /\ ReplacedIsClosed
  BY DEF TableIsSound, ReplacedIsClosed, Serving
<1>4. QueueBound
  BY SignalAssumption DEF QueueBound
<1>5. Helpers
  BY DEF Helpers, TakeoverFinds, TokensAccepted, FailureSeen
<1> QED
  BY <1>1, <1>2, <1>3, <1>4, <1>5 DEF SigInv

\* Every step of a goroutine of the server preserves the invariant.
LEMMA GoroutinePreserves ==
  ASSUME SigInv, NEW c \in Conns, Step(c)
  PROVE  SigInv'
<1>1. ASSUME NEW d \in Conns, BeginSend(c, d) PROVE SigInv'
  BY <1>1, BeginSendPreserves
<1>2. CASE Takeover(c) \/ Flush(c)
  BY <1>2, TakeoverPreserves, FlushPreserves
<1>3. CASE SendOpen(c) \/ Replay(c) \/ Forward(c) \/ SendLeave(c) \/ TellSource(c)
  BY <1>3, SendOpenPreserves, ReplayPreserves, ForwardPreserves, SendLeavePreserves,
     TellSourcePreserves
<1>4. CASE Route(c) \/ Enqueue(c)
  BY <1>4, RoutePreserves, EnqueuePreserves
<1>5. CASE DropDead(c) \/ CloseDead(c) \/ FindSource(c)
  BY <1>5, DropDeadPreserves, CloseDeadPreserves, FindSourcePreserves
<1>6. CASE ReadFails(c) \/ RemoveClient(c) \/ Close(c)
  BY <1>6, ReadFailsPreserves, RemoveClientPreserves, ClosePreserves
<1> QED
  BY <1>1, <1>2, <1>3, <1>4, <1>5, <1>6 DEF Step

\* Every step of the system preserves the invariant.
THEOREM SigStepInvariant == SigInv /\ [Next]_vars => SigInv'
<1> SUFFICES ASSUME SigInv, [Next]_vars PROVE SigInv'
  OBVIOUS
<1>1. ASSUME NEW c \in Conns, NEW i \in Ids, NEW t \in Tokens, Connect(c, i, t)
      PROVE  SigInv'
  BY <1>1, ConnectPreserves
<1>2. ASSUME NEW c \in Conns, NEW x \in Inputs, Receive(c, x) PROVE SigInv'
  BY <1>2, ReceivePreserves
<1>3. ASSUME NEW c \in Conns, Break(c) PROVE SigInv'
  BY <1>3, BreakPreserves
<1>4. ASSUME NEW c \in Conns, Step(c) PROVE SigInv'
  BY <1>4, GoroutinePreserves
<1>5. CASE SweepQueues
  BY <1>5, SweepQueuesPreserves
<1>6. CASE Directory
  BY <1>6, DirectoryPreserves DEF Directory
<1>7. CASE UNCHANGED vars
  BY <1>7, DirectoryPreserves DEF vars
<1> QED
  BY <1>1, <1>2, <1>3, <1>4, <1>5, <1>6, <1>7 DEF Next, AllGone

\* The invariant holds in every reachable state.
THEOREM SigInvariant == Spec => []SigInv
<1> QED
  BY SigInitInvariant, SigStepInvariant, PTL DEF Spec

\* Type correctness of the server.
THEOREM ServerTypeCorrect == Spec => []TypeOK
<1>1. SigInv => TypeOK
  BY DEF SigInv, DiscInv, TypeOK
<1> QED
  BY <1>1, SigInvariant, PTL

\* The table of clients never sends an id to a connection that is not that of the
\* id, has no accepted token or is no longer served.
THEOREM TableAlwaysSound == Spec => []TableIsSound
<1>1. SigInv => TableIsSound
  BY DEF SigInv
<1> QED
  BY <1>1, SigInvariant, PTL

\* A connection that was replaced or dropped is closed or about to be closed.
THEOREM ReplacedAlwaysClosed == Spec => []ReplacedIsClosed
<1>1. SigInv => ReplacedIsClosed
  BY DEF SigInv
<1> QED
  BY <1>1, SigInvariant, PTL

\* The queue of a destination that never comes does not grow without bound.
THEOREM QueueAlwaysBounded == Spec => []QueueBound
<1>1. SigInv => QueueBound
  BY DEF SigInv
<1> QED
  BY <1>1, SigInvariant, PTL

-----------------------------------------------------------------------------
(* Late cleanups are harmless.                                             *)

\* Forgetting one node leaves the records of the others alone.
LEMMA ForgetIsLocal ==
  ASSUME SigInv, NEW i \in Ids, NEW p \in Ids, Forget(p), i # p
  PROVE  stats'[i] = stats[i]
  BY DEF Forget, SigInv, DiscInv, DiscTypeOK

\* No step of the server takes the registration of a working connection away,
\* other than a takeover with the same token, or the record of its id.
LEMMA CleanupStep == SigInv /\ [Next]_vars => [WorkingIsKept]_vars
<1> SUFFICES ASSUME SigInv, Next, NEW i \in Ids, clients[i] # Nil, link[clients[i]] = "up"
             PROVE  /\ clients'[i] # clients[i] =>
                         clients'[i] # Nil /\ token[clients'[i]] = token[clients[i]]
                    /\ stats[i] # NoStats /\ stats'[i] = NoStats => DiscNext
  BY DEF WorkingIsKept
<1> USE NilIsNothing
<1>1. clients[i] \in Conns
  BY DEF SigInv, Types
<1>2. ASSUME UNCHANGED <<clients, stats>>
      PROVE  clients'[i] = clients[i] /\ stats'[i] = stats[i]
  BY <1>2
<1>3. ASSUME NEW c \in Conns, NEW j \in Ids, NEW t \in Tokens, Connect(c, j, t)
      PROVE  clients'[i] = clients[i] /\ stats'[i] = stats[i]
  BY <1>3 DEF Connect, discVars, SigInv, Types
<1>4. ASSUME NEW c \in Conns, Takeover(c)
      PROVE  /\ clients'[i] # clients[i] =>
                  clients'[i] # Nil /\ token[clients'[i]] = token[clients[i]]
             /\ stats'[i] = stats[i]
  BY <1>4 DEF Takeover, discVars, SigInv, Types, Helpers, TakeoverFinds
<1>5. ASSUME NEW c \in Conns, DropDead(c)
      PROVE  clients'[i] = clients[i] /\ stats'[i] = stats[i]
  <2>1. CASE clients[job[c].dst] = target[c]
    <3>1. job[c].dst \in Ids /\ link[target[c]] # "up"
      BY <1>5 DEF DropDead, SigInv, Fields, Helpers, FailureSeen
    <3>2. job[c].dst # i
      BY <2>1, <3>1
    <3>3. Forget(job[c].dst) /\ clients' = [clients EXCEPT ![job[c].dst] = Nil]
      BY <1>5, <2>1 DEF DropDead
    <3> QED
      BY <3>1, <3>2, <3>3, ForgetIsLocal DEF SigInv, Types
  <2>2. CASE clients[job[c].dst] # target[c]
    BY <1>5, <2>2 DEF DropDead, discVars
  <2> QED
    BY <2>1, <2>2
<1>6. ASSUME NEW c \in Conns, RemoveClient(c)
      PROVE  clients'[i] = clients[i] /\ stats'[i] = stats[i]
  <2>1. CASE clients[id[c]] = c
    <3>1. id[c] \in Ids /\ link[c] # "up"
      BY <1>6 DEF RemoveClient, SigInv, Fields, Helpers, FailureSeen, Unreadable
    <3>2. id[c] # i
      BY <2>1, <3>1
    <3>3. Forget(id[c]) /\ clients' = [clients EXCEPT ![id[c]] = Nil]
      BY <1>6, <2>1 DEF RemoveClient
    <3> QED
      BY <3>1, <3>2, <3>3, ForgetIsLocal DEF SigInv, Types
  <2>2. CASE clients[id[c]] # c
    BY <1>6, <2>2 DEF RemoveClient, discVars
  <2> QED
    BY <2>1, <2>2
<1>7. ASSUME NEW c \in Conns,
             \/ Flush(c) \/ \E d \in Conns : BeginSend(c, d)
             \/ SendOpen(c) \/ Replay(c) \/ Forward(c) \/ SendLeave(c) \/ TellSource(c)
             \/ Route(c) \/ Enqueue(c) \/ CloseDead(c) \/ FindSource(c)
             \/ ReadFails(c) \/ Close(c) \/ Break(c)
             \/ \E x \in Inputs : Receive(c, x)
      PROVE  UNCHANGED <<clients, stats>>
  BY <1>7 DEF Flush, BeginSend, SendOpen, Replay, Forward, SendLeave, TellSource, Route,
     Enqueue, CloseDead, FindSource, ReadFails, Close, Break, Receive, tables, discVars
<1>8. CASE SweepQueues \/ AllGone
  BY <1>2, <1>8 DEF SweepQueues, AllGone, vars, sigVars, tables, discVars
<1>9. CASE Directory
  BY <1>9 DEF Directory, sigVars, tables
<1> QED
  BY <1>2, <1>3, <1>4, <1>5, <1>6, <1>7, <1>8, <1>9 DEF Next, Step

\* The late cleanup of an old connection never touches the one that has taken the
\* id over, nor the directory record of the id.
THEOREM CleanupAlwaysHarmless == Spec => OldCleanupIsHarmless
<1> QED
  BY CleanupStep, SigInvariant, PTL DEF Spec, OldCleanupIsHarmless

\* The steps of the server that touch the directory are steps of the directory:
\* the HTTP handlers and the sweep, and a connection that is dropped from the
\* table takes the record of its id along as a leave of its node would.
LEMMA DirectorySteps == SigInv /\ [Next]_vars => [DiscNext]_discVars
<1> SUFFICES ASSUME SigInv, [Next]_vars PROVE [DiscNext]_discVars
  OBVIOUS
<1>1. CASE Directory
  BY <1>1 DEF Directory
<1>2. ASSUME NEW c \in Conns, DropDead(c) PROVE [DiscNext]_discVars
  <2>1. job[c].dst \in Ids
    BY <1>2 DEF DropDead, SigInv, Fields
  <2> QED
    BY <1>2, <2>1 DEF DropDead, DiscNext, Leave
<1>3. ASSUME NEW c \in Conns, RemoveClient(c) PROVE [DiscNext]_discVars
  <2>1. id[c] \in Ids
    BY <1>3 DEF RemoveClient, SigInv, Fields
  <2> QED
    BY <1>3, <2>1 DEF RemoveClient, DiscNext, Leave
<1>4. ASSUME NEW c \in Conns,
             \/ \E i \in Ids, t \in Tokens : Connect(c, i, t)
             \/ \E x \in Inputs : Receive(c, x)
             \/ Break(c)
             \/ Takeover(c) \/ Flush(c)
             \/ \E d \in Conns : BeginSend(c, d)
             \/ SendOpen(c) \/ Replay(c) \/ Forward(c) \/ SendLeave(c) \/ TellSource(c)
             \/ Route(c) \/ Enqueue(c)
             \/ CloseDead(c) \/ FindSource(c)
             \/ ReadFails(c) \/ Close(c)
      PROVE  UNCHANGED discVars
  BY <1>4 DEF Connect, Receive, Break, Takeover, Flush, BeginSend, SendOpen, Replay,
              Forward, SendLeave, TellSource, Route, Enqueue, CloseDead, FindSource,
              ReadFails, Close
<1>5. CASE SweepQueues
  BY <1>5 DEF SweepQueues
<1>6. CASE UNCHANGED vars
  BY <1>6 DEF vars
<1> QED
  BY <1>1, <1>2, <1>3, <1>4, <1>5, <1>6 DEF Next, Step, AllGone

\* The directory inside the server is the directory of Discovery: what is
\* proved of that one holds whatever the connections do.
THEOREM ServerIsADirectory == Spec => DiscSpec
<1>1. Init => DiscInit
  BY DEF Init
<1> QED
  BY <1>1, DirectorySteps, SigInvariant, PTL DEF Spec, DiscSpec

\* So no query ever shows half of a node, while connections come and go.
THEOREM ServerRoomsAgree == Spec => [](RoomsMatchMetadata /\ RoomsAgree)
  BY ServerIsADirectory, RoomsAlwaysMatch, RoomsAlwaysAgree, PTL

-----------------------------------------------------------------------------
(* At most once.                                                           *)

\* The message that the goroutine of c has read and not yet passed on.
Hand(c) ==
  IF pc[c] \in {"route", "forward", "enqueue"} THEN <<job[c].sig>> ELSE <<>>

\* The places, and the messages in them.
Homes == ({"hand", "batch", "got"} \X Conns) \cup ({"queue"} \X Ids)

Contents ==
  [h \in Homes |->
     IF h[1] = "hand" THEN Hand(h[2])
     ELSE IF h[1] = "batch" THEN batch[h[2]]
     ELSE IF h[1] = "got" THEN got[h[2]]
     ELSE queues[h[2]]]

\* No message is twice in the places whose contents are C.
NoCopies(C) ==
  \A g, h \in Homes : \A m \in 1..Len(C[g]), n \in 1..Len(C[h]) :
    C[g][m] = C[h][n] /\ C[g][m] # "OPEN" => g = h /\ m = n

\* Whatever is in them has been sent by a client.
AllSent(C, S) ==
  \A h \in Homes : \A n \in 1..Len(C[h]) : C[h][n] \in S \cup {"OPEN"}

OnceInv == SigInv /\ NoCopies(Contents) /\ AllSent(Contents, sent)

\* What a place holds is a sequence of signals and OPENs.
ContentsTyped == \A h \in Homes : Contents[h] \in Seq(Signals \cup {"OPEN"})

\* The invariant of the server says so.
LEMMA ContentsType == SigInv => ContentsTyped
<1> SUFFICES ASSUME SigInv, NEW h \in Homes
             PROVE  Contents[h] \in Seq(Signals \cup {"OPEN"})
  BY DEF ContentsTyped
<1>1. CASE h[1] = "hand"
  <2>1. h[2] \in Conns
    BY <1>1 DEF Homes
  <2>2. pc[h[2]] \in {"route", "forward", "enqueue"} => job[h[2]].sig \in Signals
    BY <2>1, InputTypes DEF SigInv, Fields
  <2>3. Hand(h[2]) \in Seq(Signals \cup {"OPEN"})
    <3>2. CASE pc[h[2]] \in {"route", "forward", "enqueue"}
      BY <2>2, <3>2 DEF Hand
    <3>3. CASE pc[h[2]] \notin {"route", "forward", "enqueue"}
      BY <3>3 DEF Hand
    <3> QED
      BY <3>2, <3>3
  <2> QED
    BY <1>1, <2>1, <2>3 DEF Contents
<1>2. CASE h[1] = "batch"
  <2>1. h[2] \in Conns
    BY <1>2 DEF Homes
  <2>2. batch[h[2]] \in Seq(Signals)
    BY <2>1 DEF SigInv, Types
  <2> QED
    BY <1>2, <2>2, SeqMonotonic DEF Contents
<1>3. CASE h[1] = "got"
  BY <1>3 DEF Homes, Contents, SigInv, Types
<1>4. CASE h[1] = "queue"
  <2>1. h[2] \in Ids
    BY <1>4 DEF Homes
  <2>2. queues[h[2]] \in Seq(Signals)
    BY <2>1 DEF SigInv, Types
  <2> QED
    BY <1>4, <2>2, SeqMonotonic DEF Contents
<1> QED
  BY <1>1, <1>2, <1>3, <1>4 DEF Homes

\* What is in each place.
LEMMA ContentsAt ==
  /\ \A c \in Conns :
       /\ <<"hand", c>> \in Homes /\ Contents[<<"hand", c>>] = Hand(c)
       /\ <<"batch", c>> \in Homes /\ Contents[<<"batch", c>>] = batch[c]
       /\ <<"got", c>> \in Homes /\ Contents[<<"got", c>>] = got[c]
  /\ \A i \in Ids :
       <<"queue", i>> \in Homes /\ Contents[<<"queue", i>>] = queues[i]
  BY DEF Homes, Contents

-----------------------------------------------------------------------------
(* The moves.                                                              *)

Sized(C) == \A h \in Homes : Len(C[h]) \in Nat

\* Messages are dropped from the front of places.
Drops(C, D) ==
  \A h \in Homes : \E k \in Nat : \A n \in 1..Len(D[h]) :
    n + k <= Len(C[h]) /\ D[h][n] = C[h][n + k]

\* The first message of g goes to the end of h, where the k oldest are dropped to
\* make room.
Passes(C, D, g, h, k) ==
  /\ \A f \in Homes \ {g, h} : D[f] = C[f]
  /\ Len(C[g]) > 0
  /\ \A n \in 1..Len(D[g]) : n + 1 <= Len(C[g]) /\ D[g][n] = C[g][n + 1]
  /\ \A n \in 1..Len(D[h]) :
       \/ n = Len(D[h]) /\ D[h][n] = C[g][1]
       \/ n # Len(D[h]) /\ n + k <= Len(C[h]) /\ D[h][n] = C[h][n + k]

\* All of g but the k oldest goes to h, which loses what it held.
Takes(C, D, g, h, k) ==
  /\ \A f \in Homes \ {g, h} : D[f] = C[f]
  /\ D[g] = <<>>
  /\ \A n \in 1..Len(D[h]) : n + k <= Len(C[g]) /\ D[h][n] = C[g][n + k]

\* x is put at the end of h.
Adds(C, D, h, x) ==
  /\ \A f \in Homes \ {h} : D[f] = C[f]
  /\ \A n \in 1..Len(D[h]) :
       \/ n = Len(D[h]) /\ D[h][n] = x
       \/ n # Len(D[h]) /\ n <= Len(C[h]) /\ D[h][n] = C[h][n]

\* A message is in one place.
LEMMA OnePlace ==
  ASSUME NEW C, NoCopies(C), NEW g \in Homes, NEW h \in Homes,
         NEW m \in 1..Len(C[g]), NEW n \in 1..Len(C[h]),
         C[g][m] = C[h][n], C[g][m] # "OPEN"
  PROVE  g = h /\ m = n
  BY DEF NoCopies

\* What a place holds has been sent, or is OPEN.
LEMMA PlaceSent ==
  ASSUME NEW C, NEW S, AllSent(C, S), NEW g \in Homes, NEW m \in 1..Len(C[g])
  PROVE  C[g][m] \in S \cup {"OPEN"}
  BY DEF AllSent

\* Dropping messages makes no copies.
LEMMA DropMove ==
  ASSUME NEW C, NEW D, NEW S, NEW T, NoCopies(C), AllSent(C, S), S \subseteq T,
         Sized(C), Sized(D), Drops(C, D)
  PROVE  NoCopies(D) /\ AllSent(D, T)
<1>1. ASSUME NEW h \in Homes
      PROVE  \E k \in Nat : \A n \in 1..Len(D[h]) :
               n + k \in 1..Len(C[h]) /\ D[h][n] = C[h][n + k]
  <2>1. PICK k \in Nat : \A n \in 1..Len(D[h]) :
          n + k <= Len(C[h]) /\ D[h][n] = C[h][n + k]
    BY DEF Drops
  <2>2. \A n \in 1..Len(D[h]) : n + k \in 1..Len(C[h])
    BY <2>1 DEF Sized
  <2> QED
    BY <2>1, <2>2
<1>2. ASSUME NEW h \in Homes, NEW n \in 1..Len(D[h])
      PROVE  D[h][n] \in T \cup {"OPEN"}
  <2>1. PICK k \in Nat : n + k \in 1..Len(C[h]) /\ D[h][n] = C[h][n + k]
    BY <1>1
  <2>2. C[h][n + k] \in S \cup {"OPEN"}
    BY <2>1, PlaceSent
  <2> QED
    BY <2>1, <2>2
<1>3. ASSUME NEW g \in Homes, NEW h \in Homes,
             NEW m \in 1..Len(D[g]), NEW n \in 1..Len(D[h]),
             D[g][m] = D[h][n], D[g][m] # "OPEN"
      PROVE  g = h /\ m = n
  <2>1. PICK k \in Nat : \A l \in 1..Len(D[g]) :
          l + k \in 1..Len(C[g]) /\ D[g][l] = C[g][l + k]
    BY <1>1
  <2>2. PICK j \in Nat : n + j \in 1..Len(C[h]) /\ D[h][n] = C[h][n + j]
    BY <1>1
  <2>3. m + k \in 1..Len(C[g]) /\ D[g][m] = C[g][m + k]
    BY <2>1
  <2>4. C[g][m + k] = C[h][n + j] /\ C[g][m + k] # "OPEN"
    BY <1>3, <2>2, <2>3
  <2>5. g = h
    BY SMTT(40), <2>2, <2>3, <2>4, OnePlace
  <2>6. n + k \in 1..Len(C[g]) /\ D[g][n] = C[g][n + k]
    BY <2>1, <2>5
  <2>7. C[g][n + k] = C[g][m + k] /\ C[g][n + k] # "OPEN"
    BY <1>3, <2>3, <2>5, <2>6
  <2>8. n + k = m + k
    BY <2>3, <2>6, <2>7, OnePlace
  <2>9. m \in Nat /\ n \in Nat
    BY DEF Sized
  <2> QED
    BY <2>5, <2>8, <2>9
<1>4. AllSent(D, T)
  BY ONLY <1>2 DEF AllSent
<1>5. NoCopies(D)
  BY ONLY <1>3 DEF NoCopies
<1> QED
  BY <1>4, <1>5

\* Neither does passing one on.
LEMMA PassMove ==
  ASSUME NEW C, NEW D, NEW S, NoCopies(C), AllSent(C, S),
         Sized(C), Sized(D),
         NEW g \in Homes, NEW h \in Homes, g # h, NEW k \in Nat, Passes(C, D, g, h, k)
  PROVE  NoCopies(D) /\ AllSent(D, S)
<1> USE DEF Sized, Passes
<1> DEFINE Home(f, n) == IF f = h /\ n = Len(D[h]) THEN g ELSE f
           Pos(f, n) == IF f = g THEN n + 1
                        ELSE IF f # h THEN n
                        ELSE IF n = Len(D[h]) THEN 1 ELSE n + k
<1>1. ASSUME NEW f \in Homes, NEW n \in 1..Len(D[f])
      PROVE  /\ Home(f, n) \in Homes
             /\ Pos(f, n) \in 1..Len(C[Home(f, n)])
             /\ D[f][n] = C[Home(f, n)][Pos(f, n)]
  <2>1. CASE f = g
    BY <1>1, <2>1
  <2>2. CASE f = h
    BY <1>1, <2>2
  <2>3. CASE f \notin {g, h}
    BY <1>1, <2>3
  <2> QED
    BY <2>1, <2>2, <2>3
<1>2. ASSUME NEW e \in Homes, NEW f \in Homes,
             NEW m \in 1..Len(D[e]), NEW n \in 1..Len(D[f]),
             Home(e, m) = Home(f, n), Pos(e, m) = Pos(f, n)
      PROVE  e = f /\ m = n
  BY <1>2
<1> HIDE DEF Home, Pos
<1>3. AllSent(D, S)
  <2> SUFFICES ASSUME NEW f \in Homes, NEW n \in 1..Len(D[f])
               PROVE  D[f][n] \in S \cup {"OPEN"}
    BY DEF AllSent
  <2>1. C[Home(f, n)][Pos(f, n)] \in S \cup {"OPEN"}
    BY <1>1, PlaceSent
  <2> QED
    BY <1>1, <2>1
<1>4. NoCopies(D)
  <2> SUFFICES ASSUME NEW e \in Homes, NEW f \in Homes,
                      NEW m \in 1..Len(D[e]), NEW n \in 1..Len(D[f]),
                      D[e][m] = D[f][n], D[e][m] # "OPEN"
               PROVE  e = f /\ m = n
    BY DEF NoCopies
  <2>a. /\ Home(e, m) \in Homes /\ Pos(e, m) \in 1..Len(C[Home(e, m)])
        /\ D[e][m] = C[Home(e, m)][Pos(e, m)]
    BY <1>1
  <2>b. /\ Home(f, n) \in Homes /\ Pos(f, n) \in 1..Len(C[Home(f, n)])
        /\ D[f][n] = C[Home(f, n)][Pos(f, n)]
    BY <1>1
  <2>1. Home(e, m) = Home(f, n) /\ Pos(e, m) = Pos(f, n)
    <3>1. /\ C[Home(e, m)][Pos(e, m)] = C[Home(f, n)][Pos(f, n)]
          /\ C[Home(e, m)][Pos(e, m)] # "OPEN"
      BY <2>a, <2>b
    <3> QED
      BY SMTT(40), <2>a, <2>b, <3>1, OnePlace
  <2> QED
    BY <1>2, <2>1
<1> QED
  BY <1>3, <1>4

\* Neither does taking a whole queue.
LEMMA TakeMove ==
  ASSUME NEW C, NEW D, NEW S, NoCopies(C), AllSent(C, S),
         Sized(C), Sized(D),
         NEW g \in Homes, NEW h \in Homes, g # h, NEW k \in Nat, Takes(C, D, g, h, k)
  PROVE  NoCopies(D) /\ AllSent(D, S)
<1> USE DEF Sized, Takes
<1> DEFINE Home(f, n) == IF f = h THEN g ELSE f
           Pos(f, n) == IF f = h THEN n + k ELSE n
<1>1. ASSUME NEW f \in Homes, NEW n \in 1..Len(D[f])
      PROVE  /\ f # g
             /\ Home(f, n) \in Homes
             /\ Pos(f, n) \in 1..Len(C[Home(f, n)])
             /\ D[f][n] = C[Home(f, n)][Pos(f, n)]
  <2>1. f # g
    BY <1>1
  <2>2. CASE f = h
    BY <1>1, <2>1, <2>2
  <2>3. CASE f # h
    BY <1>1, <2>1, <2>3
  <2> QED
    BY <2>1, <2>2, <2>3
<1>2. ASSUME NEW e \in Homes \ {g}, NEW f \in Homes \ {g}, NEW m \in Nat, NEW n \in Nat,
             Home(e, m) = Home(f, n), Pos(e, m) = Pos(f, n)
      PROVE  e = f /\ m = n
  BY <1>2
<1> HIDE DEF Home, Pos
<1>3. AllSent(D, S)
  <2> SUFFICES ASSUME NEW f \in Homes, NEW n \in 1..Len(D[f])
               PROVE  D[f][n] \in S \cup {"OPEN"}
    BY DEF AllSent
  <2>1. C[Home(f, n)][Pos(f, n)] \in S \cup {"OPEN"}
    BY <1>1, PlaceSent
  <2> QED
    BY <1>1, <2>1
<1>4. NoCopies(D)
  <2> SUFFICES ASSUME NEW e \in Homes, NEW f \in Homes,
                      NEW m \in 1..Len(D[e]), NEW n \in 1..Len(D[f]),
                      D[e][m] = D[f][n], D[e][m] # "OPEN"
               PROVE  e = f /\ m = n
    BY DEF NoCopies
  <2>a. /\ Home(e, m) \in Homes /\ Pos(e, m) \in 1..Len(C[Home(e, m)])
        /\ D[e][m] = C[Home(e, m)][Pos(e, m)]
    BY <1>1
  <2>b. /\ Home(f, n) \in Homes /\ Pos(f, n) \in 1..Len(C[Home(f, n)])
        /\ D[f][n] = C[Home(f, n)][Pos(f, n)]
    BY <1>1
  <2>1. Home(e, m) = Home(f, n) /\ Pos(e, m) = Pos(f, n)
    <3>1. /\ C[Home(e, m)][Pos(e, m)] = C[Home(f, n)][Pos(f, n)]
          /\ C[Home(e, m)][Pos(e, m)] # "OPEN"
      BY <2>a, <2>b
    <3> QED
      BY SMTT(40), <2>a, <2>b, <3>1, OnePlace
  <2> QED
    BY <1>1, <1>2, <2>1
<1> QED
  BY <1>3, <1>4

\* Neither does putting something new, or another OPEN, into a place.
LEMMA NewMove ==
  ASSUME NEW C, NEW D, NEW S, NEW T, NoCopies(C), AllSent(C, S), S \subseteq T,
         Sized(C), Sized(D),
         NEW h \in Homes, NEW x \in T \cup {"OPEN"}, x \notin S, Adds(C, D, h, x)
  PROVE  NoCopies(D) /\ AllSent(D, T)
<1> USE DEF Sized, Adds
<1>1. ASSUME NEW f \in Homes, NEW n \in 1..Len(D[f])
      PROVE  \/ f = h /\ n = Len(D[h]) /\ D[f][n] = x
             \/ n \in 1..Len(C[f]) /\ D[f][n] = C[f][n]
  <2>1. CASE f = h
    BY <1>1, <2>1
  <2>2. CASE f # h
    BY <1>1, <2>2
  <2> QED
    BY <2>1, <2>2
<1>2. AllSent(D, T)
  BY <1>1 DEF AllSent
<1>3. ASSUME NEW e \in Homes, NEW f \in Homes,
             NEW m \in 1..Len(D[e]), NEW n \in 1..Len(D[f]),
             D[e][m] = D[f][n], D[e][m] # "OPEN"
      PROVE  e = f /\ m = n
  <2>1. CASE e = h /\ m = Len(D[h]) /\ D[e][m] = x
    BY SMTT(40), <1>1, <1>3, <2>1 DEF AllSent
  <2>2. CASE f = h /\ n = Len(D[h]) /\ D[f][n] = x
    BY <1>1, <1>3, <2>2 DEF AllSent
  <2>3. CASE /\ m \in 1..Len(C[e]) /\ D[e][m] = C[e][m]
             /\ n \in 1..Len(C[f]) /\ D[f][n] = C[f][n]
    <3>1. C[e][m] = C[f][n] /\ C[e][m] # "OPEN"
      BY <1>3, <2>3
    <3> QED
      BY <2>3, <3>1, OnePlace
  <2> QED
    BY <1>1, <2>1, <2>2, <2>3
<1>4. NoCopies(D)
  BY ONLY <1>3 DEF NoCopies
<1> QED
  BY <1>2, <1>4

-----------------------------------------------------------------------------
(* What the steps do to the places.                                        *)

\* What holds of the contents of the places when a step is taken.
LEMMA StepTypes ==
  ASSUME SigInv, [Next]_vars
  PROVE  Sized(Contents) /\ Sized(Contents')
<1>1. SigInv'
  BY SigStepInvariant
<1>2. ContentsTyped /\ ContentsTyped'
  BY <1>1, ContentsType, PTL
<1> QED
  BY <1>2, LenProperties DEF ContentsTyped, Sized

\* The places after a step.
LEMMA ContentsAtNext ==
  /\ \A c \in Conns :
       /\ Contents'[<<"hand", c>>] = Hand(c)'
       /\ Contents'[<<"batch", c>>] = batch'[c]
       /\ Contents'[<<"got", c>>] = got'[c]
  /\ \A i \in Ids : Contents'[<<"queue", i>>] = queues'[i]
  BY DEF Homes, Contents

\* What a place is, and what is in it before and after a step.
LEMMA HomeCases ==
  ASSUME NEW h \in Homes
  PROVE  \/ \E c \in Conns : /\ h = <<"hand", c>>
                             /\ Contents[h] = Hand(c) /\ Contents'[h] = Hand(c)'
         \/ \E c \in Conns : /\ h = <<"batch", c>>
                             /\ Contents[h] = batch[c] /\ Contents'[h] = batch'[c]
         \/ \E c \in Conns : /\ h = <<"got", c>>
                             /\ Contents[h] = got[c] /\ Contents'[h] = got'[c]
         \/ \E i \in Ids : /\ h = <<"queue", i>>
                           /\ Contents[h] = queues[i] /\ Contents'[h] = queues'[i]
<1>1. CASE h \in {"hand", "batch", "got"} \X Conns
  <2>1. PICK k \in {"hand", "batch", "got"}, c \in Conns : h = <<k, c>>
    BY <1>1
  <2>2. CASE k = "hand"
    BY <2>1, <2>2, ContentsAt, ContentsAtNext
  <2>3. CASE k = "batch"
    BY <2>1, <2>3, ContentsAt, ContentsAtNext
  <2>4. CASE k = "got"
    BY <2>1, <2>4, ContentsAt, ContentsAtNext
  <2> QED
    BY <2>2, <2>3, <2>4
<1>2. CASE h \in {"queue"} \X Ids
  <2>1. PICK i \in Ids : h = <<"queue", i>>
    BY <1>2
  <2> QED
    BY <2>1, ContentsAt, ContentsAtNext
<1> QED
  BY <1>1, <1>2 DEF Homes

\* A step that moves nothing.
LEMMA NothingMoves ==
  ASSUME OnceInv, UNCHANGED <<queues, batch, got, sent>>,
         \A c \in Conns : Hand(c)' = Hand(c)
  PROVE  NoCopies(Contents') /\ AllSent(Contents', sent')
<1>1. \A h \in Homes : Contents'[h] = Contents[h]
  BY HomeCases
<1> QED
  BY <1>1 DEF OnceInv, NoCopies, AllSent

\* A step after which the goroutine of c no longer has the message in its hands.
LEMMA HandDrops ==
  ASSUME OnceInv, [Next]_vars, UNCHANGED <<queues, batch, got, sent>>,
         NEW c \in Conns, Hand(c)' = <<>>,
         \A d \in Conns \ {c} : Hand(d)' = Hand(d)
  PROVE  NoCopies(Contents') /\ AllSent(Contents', sent')
<1>1. \A h \in Homes : Contents'[h] = Contents[h] \/ Contents'[h] = <<>>
  BY HomeCases
<1>2. Sized(Contents) /\ Sized(Contents')
  BY StepTypes DEF OnceInv
<1>3. ASSUME NEW h \in Homes
      PROVE  \E k \in Nat : \A n \in 1..Len(Contents'[h]) :
               n + k <= Len(Contents[h]) /\ Contents'[h][n] = Contents[h][n + k]
  <2>1. \A n \in 1..Len(Contents'[h]) :
          n + 0 <= Len(Contents[h]) /\ Contents'[h][n] = Contents[h][n + 0]
    BY <1>1, <1>2 DEF Sized
  <2> QED
    BY <2>1
<1>4. Drops(Contents, Contents')
  BY <1>3 DEF Drops
<1>5. NoCopies(Contents) /\ AllSent(Contents, sent) /\ sent \subseteq sent'
  BY DEF OnceInv
<1> QED
  BY <1>2, <1>4, <1>5, DropMove

\* Sending OPEN.
LEMMA SendOpenOnce ==
  ASSUME OnceInv, NEW c \in Conns, SendOpen(c), [Next]_vars
  PROVE  NoCopies(Contents') /\ AllSent(Contents', sent')
<1>1. \A d \in Conns : Hand(d)' = Hand(d)
  BY DEF SendOpen, Goto, Hand, OnceInv, SigInv, Types
<1>2. UNCHANGED <<queues, batch, sent>>
  BY DEF SendOpen, tables
<1>3. CASE UNCHANGED got
  BY <1>1, <1>2, <1>3, NothingMoves
<1>4. CASE Deliver(c, "OPEN")
  <2>1. /\ got'[c] = Append(got[c], "OPEN")
        /\ got[c] \in Seq(Signals \cup {"OPEN"})
        /\ \A d \in Conns \ {c} : got'[d] = got[d]
    BY <1>4 DEF Deliver, OnceInv, SigInv, Types
  <2>2. \A f \in Homes \ {<<"got", c>>} : Contents'[f] = Contents[f]
    BY <1>1, <1>2, <2>1, HomeCases
  <2>a. \A n \in 1..Len(got'[c]) :
          \/ n = Len(got'[c]) /\ got'[c][n] = "OPEN"
          \/ n # Len(got'[c]) /\ n <= Len(got[c]) /\ got'[c][n] = got[c][n]
    BY <2>1
  <2>3. Adds(Contents, Contents', <<"got", c>>, "OPEN")
    BY ZenonT(60), <2>2, <2>a, ContentsAt, ContentsAtNext DEF Adds
  <2>4. "OPEN" \notin sent
    BY SignalAssumption DEF OnceInv, SigInv, Types
  <2>5. NoCopies(Contents) /\ AllSent(Contents, sent) /\ sent \subseteq sent'
    BY <1>2 DEF OnceInv
  <2>6. Sized(Contents) /\ Sized(Contents')
    BY StepTypes DEF OnceInv
  <2>7. <<"got", c>> \in Homes
    BY ContentsAt
  <2> QED
    BY <2>3, <2>4, <2>5, <2>6, <2>7, NewMove
<1> QED
  BY <1>3, <1>4 DEF SendOpen

\* A place whose contents end in something new.
LEMMA AppendEnds ==
  ASSUME NEW S, NEW q \in Seq(S), NEW x \in S
  PROVE  \A n \in 1..Len(Append(q, x)) :
           \/ n = Len(Append(q, x)) /\ Append(q, x)[n] = x
           \/ n # Len(Append(q, x)) /\ n <= Len(q) /\ Append(q, x)[n] = q[n]
  OBVIOUS

\* Writing x to d adds it to what d got.
LEMMA DeliverEnds ==
  ASSUME SigInv, NEW d \in Conns, NEW x \in Signals \cup {"OPEN"}, Deliver(d, x)
  PROVE  /\ \A c \in Conns \ {d} : got'[c] = got[c]
         /\ \A n \in 1..Len(got'[d]) :
              \/ n = Len(got'[d]) /\ got'[d][n] = x
              \/ n # Len(got'[d]) /\ n <= Len(got[d]) /\ got'[d][n] = got[d][n]
<1>1. got[d] \in Seq(Signals \cup {"OPEN"})
  BY DEF SigInv, Types
<1>2. got'[d] = Append(got[d], x) /\ \A c \in Conns \ {d} : got'[c] = got[c]
  BY DEF Deliver, SigInv, Types
<1> QED
  BY <1>1, <1>2, AppendEnds

\* Sending a queued message.
LEMMA ReplayOnce ==
  ASSUME OnceInv, NEW c \in Conns, Replay(c), [Next]_vars
  PROVE  NoCopies(Contents') /\ AllSent(Contents', sent')
<1>1. \A d \in Conns : Hand(d)' = Hand(d)
  BY DEF Replay, Goto, Hand, OnceInv, SigInv, Types
<1>2. UNCHANGED <<queues, sent>> /\ batch' = [batch EXCEPT ![c] = Tail(batch[c])]
  BY DEF Replay, tables
<1>3. /\ batch[c] \in Seq(Signals) /\ Len(batch[c]) > 0
      /\ batch'[c] = Tail(batch[c]) /\ \A d \in Conns \ {c} : batch'[d] = batch[d]
  BY <1>2 DEF Replay, OnceInv, SigInv, Types, Fields
<1>4. \A n \in 1..Len(batch'[c]) :
        n + 1 <= Len(batch[c]) /\ batch'[c][n] = batch[c][n + 1]
  BY <1>3
<1>5. Sized(Contents) /\ Sized(Contents') /\ NoCopies(Contents) /\ AllSent(Contents, sent)
  BY StepTypes DEF OnceInv
<1>6. CASE UNCHANGED got
  <2>1. Drops(Contents, Contents')
    <3> SUFFICES ASSUME NEW h \in Homes
                 PROVE  \E k \in Nat : \A n \in 1..Len(Contents'[h]) :
                   n + k <= Len(Contents[h]) /\ Contents'[h][n] = Contents[h][n + k]
      BY DEF Drops
    <3>1. CASE h = <<"batch", c>>
      <4>1. /\ Contents[h] = batch[c] /\ Contents'[h] = batch'[c]
            /\ \A n \in 1..Len(batch'[c]) :
                 n + 1 <= Len(batch[c]) /\ batch'[c][n] = batch[c][n + 1]
        BY <1>4, <3>1, ContentsAt, ContentsAtNext
      <4> QED
        BY ONLY <4>1, 1 \in Nat
    <3>2. CASE h # <<"batch", c>>
      <4>1. Contents'[h] = Contents[h]
        BY <1>1, <1>2, <1>3, <1>6, <3>2, HomeCases
      <4>2. \A n \in 1..Len(Contents'[h]) :
              n + 0 <= Len(Contents[h]) /\ Contents'[h][n] = Contents[h][n + 0]
        BY <1>5, <4>1 DEF Sized
      <4> QED
        BY <4>2
    <3> QED
      BY <3>1, <3>2
  <2> QED
    BY <1>2, <1>5, <2>1, DropMove
<1>7. CASE Deliver(c, Head(batch[c]))
  <2>1. Head(batch[c]) = batch[c][1] /\ Head(batch[c]) \in Signals
    BY <1>3
  <2>2. /\ \A d \in Conns \ {c} : got'[d] = got[d]
        /\ \A n \in 1..Len(got'[c]) :
             \/ n = Len(got'[c]) /\ got'[c][n] = batch[c][1]
             \/ n # Len(got'[c]) /\ n + 0 <= Len(got[c]) /\ got'[c][n] = got[c][n + 0]
    <3>1. got[c] \in Seq(Signals \cup {"OPEN"})
      BY DEF OnceInv, SigInv, Types
    <3> QED
      BY <1>7, <2>1, <3>1, DeliverEnds DEF OnceInv
  <2>3. \A f \in Homes \ {<<"batch", c>>, <<"got", c>>} : Contents'[f] = Contents[f]
    BY <1>1, <1>2, <1>3, <2>2, HomeCases
  <2>4. Passes(Contents, Contents', <<"batch", c>>, <<"got", c>>, 0)
    <3>1. /\ Contents[<<"batch", c>>] = batch[c] /\ Contents'[<<"batch", c>>] = batch'[c]
          /\ Contents[<<"got", c>>] = got[c] /\ Contents'[<<"got", c>>] = got'[c]
      BY ContentsAt, ContentsAtNext
    <3>2. Len(batch[c]) > 0
      BY <1>3
    <3> QED
      BY ONLY <1>4, <2>2, <2>3, <3>1, <3>2 DEF Passes
  <2>5. /\ <<"batch", c>> \in Homes /\ <<"got", c>> \in Homes
        /\ <<"batch", c>> # <<"got", c>>
    BY ContentsAt
  <2> QED
    BY <1>2, <1>5, <2>4, <2>5, PassMove
<1> QED
  BY <1>6, <1>7 DEF Replay

\* Forwarding a message.
LEMMA ForwardOnce ==
  ASSUME OnceInv, NEW c \in Conns, Forward(c), [Next]_vars
  PROVE  NoCopies(Contents') /\ AllSent(Contents', sent')
<1>1. /\ Hand(c)' = <<>> /\ Hand(c) = <<job[c].sig>>
      /\ \A d \in Conns \ {c} : Hand(d)' = Hand(d)
  BY DEF Forward, Routed, Goto, Hand, OnceInv, SigInv, Types
<1>2. UNCHANGED <<queues, batch, sent>>
  BY DEF Forward, tables
<1>3. target[c] \in Conns /\ job[c].sig \in Signals
  BY InputTypes DEF Forward, OnceInv, SigInv, Fields
<1>4. CASE UNCHANGED got
  BY <1>1, <1>2, <1>4, HandDrops
<1>5. CASE Deliver(target[c], job[c].sig)
  <2> DEFINE d == target[c]
  <2>1. /\ Sized(Contents) /\ Sized(Contents')
        /\ NoCopies(Contents) /\ AllSent(Contents, sent)
    BY StepTypes DEF OnceInv
  <2>2. /\ \A e \in Conns \ {d} : got'[e] = got[e]
        /\ \A n \in 1..Len(got'[d]) :
             \/ n = Len(got'[d]) /\ got'[d][n] = Hand(c)[1]
             \/ n # Len(got'[d]) /\ n + 0 <= Len(got[d]) /\ got'[d][n] = got[d][n + 0]
    <3>1. got[d] \in Seq(Signals \cup {"OPEN"}) /\ Hand(c)[1] = job[c].sig
      BY <1>1, <1>3 DEF OnceInv, SigInv, Types
    <3> QED
      BY <1>3, <1>5, <3>1, DeliverEnds DEF OnceInv
  <2> HIDE DEF d
  <2>3. d \in Conns
    BY <1>3 DEF d
  <2>4. \A f \in Homes \ {<<"hand", c>>, <<"got", d>>} : Contents'[f] = Contents[f]
    BY <1>1, <1>2, <2>2, HomeCases
  <2>5. Passes(Contents, Contents', <<"hand", c>>, <<"got", d>>, 0)
    <3>1. Len(Hand(c)) > 0 /\ Len(Hand(c)') = 0
      BY <1>1
    <3>2. /\ Contents[<<"hand", c>>] = Hand(c) /\ Contents'[<<"hand", c>>] = Hand(c)'
          /\ Contents[<<"got", d>>] = got[d] /\ Contents'[<<"got", d>>] = got'[d]
      BY <2>3, ContentsAt, ContentsAtNext
    <3> QED
      BY ONLY <2>2, <2>4, <3>1, <3>2 DEF Passes
  <2>6. <<"hand", c>> \in Homes /\ <<"got", d>> \in Homes /\ <<"hand", c>> # <<"got", d>>
    BY <2>3, ContentsAt
  <2> QED
    BY <1>2, <2>1, <2>5, <2>6, PassMove
<1> QED
  BY <1>4, <1>5 DEF Forward

\* Reading a message.
LEMMA ReceiveOnce ==
  ASSUME OnceInv, NEW c \in Conns, NEW x \in Inputs, Receive(c, x), [Next]_vars
  PROVE  NoCopies(Contents') /\ AllSent(Contents', sent')
<1>1. /\ Hand(c) = <<>> /\ Hand(c)' = <<x.sig>>
      /\ \A d \in Conns \ {c} : Hand(d)' = Hand(d)
  BY DEF Receive, Goto, Hand, OnceInv, SigInv, Types
<1>2. UNCHANGED <<queues, batch, got>> /\ x.sig \notin sent /\ sent' = sent \cup {x.sig}
  BY DEF Receive, tables
<1>3. \A f \in Homes \ {<<"hand", c>>} : Contents'[f] = Contents[f]
  BY <1>1, <1>2, HomeCases
<1>4. Adds(Contents, Contents', <<"hand", c>>, x.sig)
  <2>1. \A n \in 1..Len(Hand(c)') : n = Len(Hand(c)') /\ Hand(c)'[n] = x.sig
    BY <1>1
  <2>2. Contents'[<<"hand", c>>] = Hand(c)'
    BY ContentsAtNext
  <2> QED
    BY ONLY <1>3, <2>1, <2>2 DEF Adds
<1>5. Sized(Contents) /\ Sized(Contents') /\ NoCopies(Contents) /\ AllSent(Contents, sent)
  BY StepTypes DEF OnceInv
<1>6. <<"hand", c>> \in Homes /\ sent \subseteq sent' /\ x.sig \in sent' \cup {"OPEN"}
  BY <1>2, ContentsAt
<1> QED
  BY <1>2, <1>4, <1>5, <1>6, NewMove

\* Looking the destination up.
LEMMA RouteOnce ==
  ASSUME OnceInv, NEW c \in Conns, Route(c), [Next]_vars
  PROVE  NoCopies(Contents') /\ AllSent(Contents', sent')
<1>1. UNCHANGED <<queues, batch, got, sent>>
  BY DEF Route, tables, wires
<1>2. \A d \in Conns \ {c} : Hand(d)' = Hand(d)
  BY DEF Route, Routed, Goto, Hand, OnceInv, SigInv, Types
<1>3. Hand(c)' = Hand(c) \/ Hand(c)' = <<>>
  BY DEF Route, Routed, Goto, Hand, OnceInv, SigInv, Types
<1> QED
  BY <1>1, <1>2, <1>3, HandDrops, NothingMoves

\* The cut of a queue that a message was appended to drops the k oldest.
LEMMA LastOfEnds ==
  ASSUME NEW q \in Seq(Signals), NEW x \in Signals, NEW k \in Nat, k > 0
  PROVE  \E j \in Nat : \A n \in 1..Len(LastOf(Append(q, x), k)) :
           \/ n = Len(LastOf(Append(q, x), k)) /\ LastOf(Append(q, x), k)[n] = x
           \/ /\ n # Len(LastOf(Append(q, x), k)) /\ n + j <= Len(q)
              /\ LastOf(Append(q, x), k)[n] = q[n + j]
<1> DEFINE a == Append(q, x)
<1>1. a \in Seq(Signals) /\ Len(a) = Len(q) + 1
  OBVIOUS
<1>2. \A n \in 1..Len(a) : IF n = Len(a) THEN a[n] = x ELSE a[n] = q[n]
  OBVIOUS
<1> HIDE DEF a
<1>3. CASE Len(a) <= k
  <2>1. LastOf(a, k) = a
    BY <1>3 DEF LastOf
  <2>2. \A n \in 1..Len(a) :
          \/ n = Len(a) /\ a[n] = x
          \/ n # Len(a) /\ n + 0 <= Len(q) /\ a[n] = q[n + 0]
    BY <1>1, <1>2
  <2> QED
    BY <2>1, <2>2 DEF a
<1>4. CASE Len(a) > k
  <2> DEFINE j == Len(a) - k
             b == SubSeq(a, j + 1, Len(a))
  <2>1. LastOf(a, k) = b
    BY <1>1, <1>4 DEF LastOf
  <2>2. Len(b) = k /\ \A n \in 1..k : b[n] = a[n + j]
    BY <1>1, <1>4
  <2>3. j \in Nat /\ \A n \in 1..k : n + j \in 1..Len(a) /\ (n + j = Len(a) <=> n = k)
    BY <1>1, <1>4
  <2> HIDE DEF b, j
  <2>4. \A n \in 1..Len(b) :
          \/ n = Len(b) /\ b[n] = x
          \/ n # Len(b) /\ n + j <= Len(q) /\ b[n] = q[n + j]
    BY <1>1, <1>2, <2>2, <2>3
  <2> QED
    BY <2>1, <2>3, <2>4 DEF a
<1>5. Len(a) <= k \/ Len(a) > k
  BY <1>1
<1> QED
  BY <1>3, <1>4, <1>5 DEF a

\* Queueing a message.
LEMMA EnqueueOnce ==
  ASSUME OnceInv, NEW c \in Conns, Enqueue(c), [Next]_vars
  PROVE  NoCopies(Contents') /\ AllSent(Contents', sent')
<1> DEFINE i == job[c].dst
           q == LastOf(Append(queues[i], job[c].sig), MaxQueued)
<1>1. /\ Hand(c)' = <<>> /\ Hand(c) = <<job[c].sig>>
      /\ \A d \in Conns \ {c} : Hand(d)' = Hand(d)
  BY DEF Enqueue, Routed, Goto, Hand, OnceInv, SigInv, Types
<1>2. UNCHANGED <<batch, got, sent>> /\ queues' = [queues EXCEPT ![i] = q]
  BY DEF Enqueue, wires
<1>3. i \in Ids /\ job[c].sig \in Signals /\ queues[i] \in Seq(Signals)
  BY InputTypes DEF Enqueue, OnceInv, SigInv, Fields, Types
<1>4. PICK k \in Nat : \A n \in 1..Len(q) :
        \/ n = Len(q) /\ q[n] = job[c].sig
        \/ n # Len(q) /\ n + k <= Len(queues[i]) /\ q[n] = queues[i][n + k]
  <2>1. MaxQueued \in Nat /\ MaxQueued > 0
    BY SignalAssumption
  <2> QED
    BY <1>3, <2>1, LastOfEnds
<1> HIDE DEF q, i
<1>5. queues'[i] = q /\ \A j \in Ids \ {i} : queues'[j] = queues[j]
  BY <1>2, <1>3 DEF OnceInv, SigInv, Types
<1>6. \A f \in Homes \ {<<"hand", c>>, <<"queue", i>>} : Contents'[f] = Contents[f]
  BY <1>1, <1>2, <1>5, HomeCases
<1>7. Passes(Contents, Contents', <<"hand", c>>, <<"queue", i>>, k)
  <2>1. /\ Contents[<<"hand", c>>] = Hand(c) /\ Contents'[<<"hand", c>>] = Hand(c)'
        /\ Contents[<<"queue", i>>] = queues[i] /\ Contents'[<<"queue", i>>] = q
    BY <1>3, <1>5, ContentsAt, ContentsAtNext
  <2>2. Len(Hand(c)) > 0 /\ Len(Hand(c)') = 0 /\ Hand(c)[1] = job[c].sig
    BY <1>1
  <2> QED
    BY ONLY <1>4, <1>6, <2>1, <2>2 DEF Passes
<1>8. Sized(Contents) /\ Sized(Contents') /\ NoCopies(Contents) /\ AllSent(Contents, sent)
  BY StepTypes DEF OnceInv
<1>9. /\ <<"hand", c>> \in Homes /\ <<"queue", i>> \in Homes
      /\ <<"hand", c>> # <<"queue", i>>
  BY <1>3, ContentsAt
<1> QED
  BY <1>2, <1>7, <1>8, <1>9, PassMove

\* What is left of a queue.
LEMMA UnexpiredEnds ==
  ASSUME NEW q \in Seq(Signals), NEW k \in Nat
  PROVE  \A n \in 1..Len(Unexpired(q, k)) :
           n + k <= Len(q) /\ Unexpired(q, k)[n] = q[n + k]
  BY SMTT(40) DEF Unexpired

\* Taking the queue.
LEMMA FlushOnce ==
  ASSUME OnceInv, NEW c \in Conns, Flush(c), [Next]_vars
  PROVE  NoCopies(Contents') /\ AllSent(Contents', sent')
<1> DEFINE i == id[c]
<1>1. \A d \in Conns : Hand(d)' = Hand(d)
  BY DEF Flush, Goto, Hand, OnceInv, SigInv, Types
<1>2. UNCHANGED <<got, sent>> /\ queues' = [queues EXCEPT ![i] = <<>>]
  BY DEF Flush, wires
<1>3. i \in Ids /\ queues[i] \in Seq(Signals)
  BY DEF Flush, OnceInv, SigInv, Fields, Types
<1>4. PICK k \in 0..Len(queues[i]) :
        batch' = [batch EXCEPT ![c] = Unexpired(queues[i], k)]
  BY DEF Flush
<1> HIDE DEF i
<1>5. /\ queues'[i] = <<>> /\ \A j \in Ids \ {i} : queues'[j] = queues[j]
      /\ \A d \in Conns \ {c} : batch'[d] = batch[d]
  BY <1>2, <1>3, <1>4 DEF OnceInv, SigInv, Types
<1>6. k \in Nat /\ \A n \in 1..Len(batch'[c]) :
        n + k <= Len(queues[i]) /\ batch'[c][n] = queues[i][n + k]
  <2>1. batch'[c] = Unexpired(queues[i], k) /\ k \in Nat
    BY <1>3, <1>4 DEF OnceInv, SigInv, Types
  <2> QED
    BY <1>3, <2>1, UnexpiredEnds
<1>7. \A f \in Homes \ {<<"queue", i>>, <<"batch", c>>} : Contents'[f] = Contents[f]
  BY <1>1, <1>2, <1>5, HomeCases
<1>8. Takes(Contents, Contents', <<"queue", i>>, <<"batch", c>>, k)
  <2>1. /\ Contents'[<<"batch", c>>] = batch'[c]
        /\ Contents[<<"queue", i>>] = queues[i] /\ Contents'[<<"queue", i>>] = <<>>
    BY <1>3, <1>5, ContentsAt, ContentsAtNext
  <2> QED
    BY ONLY <1>6, <1>7, <2>1 DEF Takes
<1>9. Sized(Contents) /\ Sized(Contents') /\ NoCopies(Contents) /\ AllSent(Contents, sent)
  BY StepTypes DEF OnceInv
<1>10. /\ <<"queue", i>> \in Homes /\ <<"batch", c>> \in Homes
       /\ <<"queue", i>> # <<"batch", c>>
  BY <1>3, ContentsAt
<1> QED
  BY <1>2, <1>6, <1>8, <1>9, <1>10, TakeMove

\* The sweep of the queues.
LEMMA SweepQueuesOnce ==
  ASSUME OnceInv, SweepQueues, [Next]_vars
  PROVE  NoCopies(Contents') /\ AllSent(Contents', sent')
<1>1. UNCHANGED <<batch, got, sent>> /\ \A d \in Conns : Hand(d)' = Hand(d)
  BY DEF SweepQueues, Hand, procs, wires
<1>2. PICK k \in [Ids -> 0..MaxQueued] :
        queues' = [i \in Ids |-> IF clients[i] # Nil THEN <<>>
                                 ELSE Unexpired(queues[i], k[i])]
  BY DEF SweepQueues
<1>3. Sized(Contents) /\ Sized(Contents') /\ NoCopies(Contents) /\ AllSent(Contents, sent)
  BY StepTypes DEF OnceInv
<1>4. ASSUME NEW i \in Ids
      PROVE  \E j \in Nat : \A n \in 1..Len(queues'[i]) :
               n + j <= Len(queues[i]) /\ queues'[i][n] = queues[i][n + j]
  <2>1. queues[i] \in Seq(Signals) /\ k[i] \in Nat
    BY SignalAssumption DEF OnceInv, SigInv, Types
  <2>2. CASE clients[i] # Nil
    <3>1. \A n \in 1..Len(queues'[i]) :
            n + 0 <= Len(queues[i]) /\ queues'[i][n] = queues[i][n + 0]
      BY <1>2, <2>2
    <3> QED
      BY <3>1
  <2>3. CASE clients[i] = Nil
    <3>1. queues'[i] = Unexpired(queues[i], k[i])
      BY <1>2, <2>3
    <3> QED
      BY SMTT(40), <2>1, <3>1, UnexpiredEnds
  <2> QED
    BY <2>2, <2>3
<1>5. Drops(Contents, Contents')
  <2> SUFFICES ASSUME NEW h \in Homes
               PROVE  \E j \in Nat : \A n \in 1..Len(Contents'[h]) :
                        n + j <= Len(Contents[h]) /\ Contents'[h][n] = Contents[h][n + j]
    BY DEF Drops
  <2>1. CASE \E i \in Ids : /\ h = <<"queue", i>>
                            /\ Contents[h] = queues[i] /\ Contents'[h] = queues'[i]
    BY ZenonT(60), <1>4, <2>1
  <2>2. CASE Contents'[h] = Contents[h]
    <3>1. \A n \in 1..Len(Contents'[h]) :
            n + 0 <= Len(Contents[h]) /\ Contents'[h][n] = Contents[h][n + 0]
      BY <1>3, <2>2 DEF Sized
    <3> QED
      BY <3>1
  <2> QED
    BY <1>1, <2>1, <2>2, HomeCases
<1> QED
  BY <1>1, <1>3, <1>5, DropMove

-----------------------------------------------------------------------------
(* The theorem.                                                            *)

\* A new server has no messages.
THEOREM OnceInit == Init => OnceInv
<1> SUFFICES ASSUME Init PROVE OnceInv
  OBVIOUS
<1>1. SigInv
  BY SigInitInvariant
<1>2. \A h \in Homes : Contents[h] = <<>>
  BY HomeCases DEF Init, Hand
<1>3. \A h \in Homes : Len(Contents[h]) = 0
  BY <1>2
<1> QED
  BY <1>1, <1>3 DEF OnceInv, NoCopies, AllSent

\* Every step keeps messages unique.
THEOREM OnceStep == OnceInv /\ [Next]_vars => OnceInv'
<1> SUFFICES ASSUME OnceInv, [Next]_vars PROVE OnceInv'
  OBVIOUS
<1>1. SigInv'
  BY SigStepInvariant DEF OnceInv
<1>2. SUFFICES NoCopies(Contents') /\ AllSent(Contents', sent')
  BY <1>1 DEF OnceInv, NoCopies, AllSent
<1> USE DEF tables, procs, wires, Goto, Routed
<1>3. ASSUME NEW c \in Conns,
             \/ \E i \in Ids, t \in Tokens : Connect(c, i, t)
             \/ Takeover(c) \/ \E d \in Conns : BeginSend(c, d)
             \/ SendLeave(c) \/ TellSource(c)
             \/ DropDead(c) \/ CloseDead(c) \/ FindSource(c)
             \/ ReadFails(c) \/ RemoveClient(c) \/ Close(c) \/ Break(c)
      PROVE  NoCopies(Contents') /\ AllSent(Contents', sent')
  <2>1. UNCHANGED <<queues, batch, got, sent>>
    BY <1>3 DEF Connect, Takeover, BeginSend, SendLeave, TellSource, DropDead, CloseDead,
       FindSource, ReadFails, RemoveClient, Close, Break
  <2>2. \A d \in Conns : Hand(d)' = Hand(d)
    BY <1>3 DEF Connect, Takeover, BeginSend, SendLeave, TellSource, DropDead, CloseDead,
       FindSource, ReadFails, RemoveClient, Close, Break, Hand, OnceInv, SigInv, Types
  <2> QED
    BY <2>1, <2>2, NothingMoves
<1>4. ASSUME NEW c \in Conns,
             \/ Flush(c) \/ SendOpen(c) \/ Replay(c) \/ Forward(c)
             \/ Route(c) \/ Enqueue(c)
             \/ \E x \in Inputs : Receive(c, x)
      PROVE  NoCopies(Contents') /\ AllSent(Contents', sent')
  BY <1>4, FlushOnce, SendOpenOnce, ReplayOnce, ForwardOnce, RouteOnce, EnqueueOnce,
     ReceiveOnce
<1>5. CASE SweepQueues
  BY <1>5, SweepQueuesOnce
<1>6. CASE Directory \/ AllGone \/ UNCHANGED vars
  <2>1. UNCHANGED <<queues, batch, got, sent>>
    BY <1>6 DEF Directory, AllGone, vars, sigVars
  <2>2. \A d \in Conns : Hand(d)' = Hand(d)
    BY <1>6 DEF Directory, AllGone, vars, sigVars, Hand
  <2> QED
    BY <2>1, <2>2, NothingMoves
<1> QED
  BY <1>3, <1>4, <1>5, <1>6 DEF Next, Step

\* A message is written to one connection at most, and once.
THEOREM AlwaysAtMostOnce == Spec => []AtMostOnce
<1>1. OnceInv => AtMostOnce
  <2> SUFFICES ASSUME OnceInv, NEW c \in Conns, NEW d \in Conns,
                      NEW m \in 1..Len(got[c]), NEW n \in 1..Len(got[d]),
                      got[c][m] = got[d][n], got[c][m] # "OPEN"
               PROVE  c = d /\ m = n
    BY DEF AtMostOnce
  <2>1. /\ <<"got", c>> \in Homes /\ Contents[<<"got", c>>] = got[c]
        /\ <<"got", d>> \in Homes /\ Contents[<<"got", d>>] = got[d]
    BY ContentsAt
  <2>2. <<"got", c>> = <<"got", d>> /\ m = n
    BY <2>1, OnePlace DEF OnceInv
  <2> QED
    BY <2>2
<1> QED
  BY <1>1, OnceInit, OnceStep, PTL DEF Spec
=============================================================================
