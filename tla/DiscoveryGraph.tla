--------------------------- MODULE DiscoveryGraph ---------------------------
(***************************************************************************)
(* The directory with a record of who dropped out of it since each node's  *)
(* report was stored: whether the graph that queries draw is still true.    *)
(***************************************************************************)
EXTENDS Discovery

VARIABLE gone \* gone[p]: who has lost its record since p's last report was stored

graphVars == <<discVars, gone>>

GraphInit == DiscInit /\ gone = [p \in Ids |-> {}]

\* Who loses its record in this step.
Lost == {q \in Ids : stats[q] # NoStats /\ stats'[q] = NoStats}

GraphNext ==
  \/ \E r \in Reports, at \in 1 .. now :
       Announce(r, at) /\ gone' = [gone EXCEPT ![r.peer] = {}]
  \/ /\ (\E p \in Ids : Leave(p)) \/ SweepDiscovery \/ Tick
     /\ gone' = [p \in Ids |-> gone[p] \cup Lost]

GraphSpec == GraphInit /\ [][GraphNext]_graphVars

\* Every edge in the graph of an answer, whenever the query began and whatever
\* its type filter, was reported by one of its ends, and that report was stored
\* after the other end last dropped out of the directory: a node that left and
\* came back is not shown with what the server knew of it before
\* (signalserver.go:173-179, 666-673, 742-765).  The time on the edge may be
\* older than that: the report is stamped before it waits for s.mu (601-602).
GraphIsCurrent ==
  \A at \in 1 .. now, T \in {{}} \cup {{t} : t \in NodeTypes} :
    \A e \in Edges(OfTypes(Online(at), T)) :
      \E p, q \in Online(at) :
        e = {p, q} /\ p # q /\ q \in links[p] /\ q \notin gone[p]
=============================================================================
