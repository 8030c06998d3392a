----------------------------- MODULE MCKVLinear -----------------------------
(* A small instance of KVLinear: one key, objects with the fields a and b.   *)
EXTENDS KVLinear, TLC

CONSTANTS c1, c2, e1, e2

MCDocs == {[a |-> 1], [a |-> 2]}
MCMerge(d, v) == v @@ d

Symmetry == Permutations(Clients) \cup Permutations(Entries)
============================================================================
