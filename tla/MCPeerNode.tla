----------------------------- MODULE MCPeerNode -----------------------------
(***************************************************************************)
(* A node with room for one connection that is offered one or two, or one   *)
(* with a second channel; or a client with one connection of its own.       *)
(***************************************************************************)
EXTENDS PeerNode

MCParent == [k \in Children |-> CHOOSE c \in Inbound : c = "b1"]
MCRemote == [c \in Conns |-> IF c = "b2" THEN "r2" ELSE "r1"]
MCCasts == {{"b1"}, {"b1", "b2"}, {"b1", "k"}, {"o"}}
MCMaxFaults == [s \in MCCasts |-> CASE s = {"o"} -> 2 [] s = {"b1"} -> 2 [] OTHER -> 0]
=============================================================================
