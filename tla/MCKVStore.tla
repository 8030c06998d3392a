----------------------------- MODULE MCKVStore -----------------------------
(* A small instance of KVStore.  Objects have the fields a and b and no     *)
(* nested objects, so both merges are the union of the fields.              *)
EXTENDS KVStore, TLC

CONSTANTS c1, c2, c3, e1, e2, e3, e4, e5

MCDocs == {[a |-> 1], [b |-> 1], [a |-> 1, b |-> 1]}
MCDocs1 == {[a |-> 1]}
MCMerge(d, v) == v @@ d

Symmetry == Permutations(Clients) \cup Permutations(Entries)
============================================================================
