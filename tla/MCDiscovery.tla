---------------------------- MODULE MCDiscovery ----------------------------
(* Two nodes and three rooms; a node may announce anything.                *)
EXTENDS DiscoveryGraph, TLC

CONSTANTS a, b, r1, r2, r3

MCReports ==
  [peer : Ids, colls : SUBSET Colls, type : NodeTypes, peers : SUBSET Ids]

Symmetry == Permutations(Ids) \cup Permutations(Colls)
============================================================================
