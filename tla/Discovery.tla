----------------------------- MODULE Discovery -----------------------------
(***************************************************************************)
(* The room directory of the signaling server                              *)
(* (internal/go-peerserver/signalserver.go): which node follows which      *)
(* collection, what the node said about itself, and which nodes it is      *)
(* connected to.                                                           *)
(*                                                                         *)
(* Nodes announce themselves over HTTP, every heartbeat replacing what they *)
(* said before; a record lives until its node leaves, its signaling        *)
(* connection breaks or its heartbeat is heartbeatTTL old at a sweep.  The  *)
(* handlers and the sweep each hold s.mu while they touch the directory,    *)
(* but announcements and queries read the clock before they have s.mu, and  *)
(* work with a time that may be long past when their turn comes.            *)
(*                                                                         *)
(* A missing inner map and an empty one look the same to every reader, so  *)
(* neither the outer keys of s.disc nor those of s.peerLinks are kept.     *)
(***************************************************************************)
EXTENDS Naturals, FiniteSets

CONSTANTS
  Ids,            \* peer ids
  Colls,          \* collections (rooms)
  NodeTypes,      \* what a node says about itself
  NoStats,        \* no entry in s.peerStats
  Reports,        \* the announcements that nodes may make
  HeartbeatTTL,   \* heartbeatTTL, in ticks of the clock
  MaxCollections, \* maxCollectionsPerAnnounce
  MaxTime         \* bound on the clock

ASSUME DiscoveryAssumption ==
  /\ Reports \subseteq
       [peer : Ids, colls : SUBSET Colls, type : NodeTypes, peers : SUBSET Ids]
  /\ NoStats \notin [type : NodeTypes, last : Nat]
  /\ HeartbeatTTL \in Nat \ {0} /\ MaxCollections \in Nat /\ MaxTime \in Nat

VARIABLES
  disc,   \* disc[c][p]: when p last announced collection c, Absent if it is not in it
  colls,  \* colls[p]: the collections in p's metadata (s.peerColls)
  stats,  \* stats[p]: p's metadata, or NoStats (s.peerStats)
  links,  \* links[p]: the nodes p says it is connected to (s.peerLinks)
  now     \* the time

discVars == <<disc, colls, stats, links, now>>

Absent == 0

\* last.Before(cutoff): the sweep removes the entry.
Expired(last) == last + HeartbeatTTL < now

\* last.After(cutoff): a query that began at the time at returns the entry.
Recent(last, at) == last # Absent /\ last + HeartbeatTTL > at

DiscInit ==
  /\ disc = [c \in Colls |-> [p \in Ids |-> Absent]]
  /\ colls = [p \in Ids |-> {}]
  /\ stats = [p \in Ids |-> NoStats]
  /\ links = [p \in Ids |-> {}]
  /\ now = 1

-----------------------------------------------------------------------------
\* A mutant of Announce: the node stays in the collections it no longer names.
AnnounceAdds(r, at) ==
  /\ Cardinality(r.colls) <= MaxCollections
  /\ disc' = [c \in Colls |-> IF c \in r.colls
                              THEN [disc[c] EXCEPT ![r.peer] = at] ELSE disc[c]]
  /\ colls' = [colls EXCEPT ![r.peer] = r.colls]
  /\ stats' = [stats EXCEPT ![r.peer] = [type |-> r.type, last |-> at]]
  /\ links' = [links EXCEPT ![r.peer] = r.peers \ {r.peer}]
  /\ UNCHANGED now

\* HandleAnnounce: the report replaces all that the node said before.  It is
\* stamped with the time at which the handler began to wait for s.mu.
Announce(r, at) ==
  /\ Cardinality(r.colls) <= MaxCollections
  /\ disc' = [c \in Colls |->
                [disc[c] EXCEPT ![r.peer] = IF c \in r.colls THEN at ELSE Absent]]
  /\ colls' = [colls EXCEPT ![r.peer] = r.colls]
  /\ stats' = [stats EXCEPT ![r.peer] = [type |-> r.type, last |-> at]]
  /\ links' = [links EXCEPT ![r.peer] = r.peers \ {r.peer}]
  /\ UNCHANGED now

\* A mutant of Forget: the edges of the node stay in the graph.
ForgetKeepsEdges(p) ==
  /\ disc' = [c \in Colls |-> [disc[c] EXCEPT ![p] = Absent]]
  /\ colls' = [colls EXCEPT ![p] = {}]
  /\ stats' = [stats EXCEPT ![p] = NoStats]
  /\ UNCHANGED <<links, now>>

\* Everything about p goes, its edges in both directions included: HandleLeave
\* does this, and so do removeClient and handleDeadDst for a connection.
Forget(p) ==
  /\ disc' = [c \in Colls |-> [disc[c] EXCEPT ![p] = Absent]]
  /\ colls' = [colls EXCEPT ![p] = {}]
  /\ stats' = [stats EXCEPT ![p] = NoStats]
  /\ links' = [q \in Ids |-> IF q = p THEN {} ELSE links[q] \ {p}]
  /\ UNCHANGED now

Leave(p) == Forget(p)

\* A mutant of SweepDiscovery: a node is taken to be gone as soon as one of
\* its entries has expired or it misses one collection.
SweepActiveEverywhere ==
  LET kept == [c \in Colls |->
                 [p \in Ids |-> IF Expired(disc[c][p]) THEN Absent ELSE disc[c][p]]]
      active == {p \in Ids : \A c \in Colls : kept[c][p] # Absent}
  IN /\ disc' = kept
     /\ links' = [p \in Ids |-> IF p \in active THEN links[p] \cap active ELSE {}]
     /\ stats' = [p \in Ids |-> IF p \in active THEN stats[p] ELSE NoStats]
     /\ colls' = [p \in Ids |-> IF p \in active THEN colls[p] ELSE {}]
     /\ UNCHANGED now

\* sweepDiscovery: expired entries go, then all that belongs to, or points to,
\* a node that is left in no collection.
SweepDiscovery ==
  LET kept == [c \in Colls |->
                 [p \in Ids |-> IF Expired(disc[c][p]) THEN Absent ELSE disc[c][p]]]
      active == {p \in Ids : \E c \in Colls : kept[c][p] # Absent}
  IN /\ disc' = kept
     /\ links' = [p \in Ids |-> IF p \in active THEN links[p] \cap active ELSE {}]
     /\ stats' = [p \in Ids |-> IF p \in active THEN stats[p] ELSE NoStats]
     /\ colls' = [p \in Ids |-> IF p \in active THEN colls[p] ELSE {}]
     /\ UNCHANGED now

Tick ==
  /\ now < MaxTime
  /\ now' = now + 1
  /\ UNCHANGED <<disc, colls, stats, links>>

DiscNext ==
  \/ \E r \in Reports, at \in 1 .. now : Announce(r, at)
  \/ \E p \in Ids : Leave(p)
  \/ SweepDiscovery
  \/ Tick

DiscSpec == DiscInit /\ [][DiscNext]_discVars

-----------------------------------------------------------------------------
(* What HandleNodes and HandleStatus answer, when they began at the time at. *)

\* The nodes of one room, and of all rooms.
InRoom(c, at) == {p \in Ids : Recent(disc[c][p], at)}
Online(at) == UNION {InRoom(c, at) : c \in Colls}

\* The type filter of a query; an empty one passes every node.
OfTypes(S, T) == {p \in S : T = {} \/ stats[p].type \in T}

\* The graph edges drawn between the nodes that are returned.
Edges(S) == {{e[1], e[2]} : e \in {e \in S \X S : e[2] \in links[e[1]]}}

-----------------------------------------------------------------------------
(* Properties.                                                             *)

\* Type correctness of the directory; no node is its own neighbour.
DiscTypeOK ==
  /\ disc \in [Colls -> [Ids -> Nat]]
  /\ colls \in [Ids -> SUBSET Colls]
  /\ stats \in [Ids -> [type : NodeTypes, last : Nat] \cup {NoStats}]
  /\ links \in [Ids -> SUBSET Ids]
  /\ \A p \in Ids : p \notin links[p]
  /\ now \in Nat \ {0}

\* The rooms and the metadata tell the same story: a node is in exactly the
\* rooms that its metadata lists, all of them since its last announcement, and
\* a node without metadata is in no room and has no edges of its own
\* (signalserver.go:600-639: announcements replace; 145-189: the sweep).
RoomsMatchMetadata ==
  \A p \in Ids :
    /\ \A c \in Colls :
         disc[c][p] = IF c \in colls[p] THEN stats[p].last ELSE Absent
    /\ stats[p] = NoStats => colls[p] = {} /\ links[p] = {}

\* No query shows half of a node: a node that one of its rooms returns is
\* returned by every room it follows, and its metadata is there to be shown
\* (signalserver.go:699-740, 782-793).
RoomsAgree ==
  \A at \in 1 .. now, c \in Colls : \A p \in InRoom(c, at) :
    /\ stats[p] # NoStats
    /\ c \in colls[p] /\ \A d \in colls[p] : p \in InRoom(d, at)

\* What a sweep does to a node that follows a room and whose last heartbeat is
\* not older than heartbeatTTL: nothing.
KeepsFollowers ==
  SweepDiscovery =>
    \A p \in Ids :
      stats[p] # NoStats /\ ~Expired(stats[p].last) /\ colls[p] # {} =>
        stats'[p] = stats[p] /\ colls'[p] = colls[p]
SweepKeepsFollowers == [][KeepsFollowers]_discVars
=============================================================================
