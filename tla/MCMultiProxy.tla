---------------------------- MODULE MCMultiProxy ----------------------------
(* multi-proxy in front of a capture-proxy and of one source elsewhere. *)
EXTENDS MultiProxy, TLC

Symmetry == Permutations(Reqs)
=============================================================================
