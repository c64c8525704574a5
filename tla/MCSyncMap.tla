------------------------------ MODULE MCSyncMap ------------------------------
(* Instances of SyncMap for TLC.                                           *)
EXTENDS SyncMap, TLC

(* Three keys, of which one may have two values.                           *)
SomeEntries == {<<1, "a">>, <<2, "a">>, <<2, "b">>, <<3, "a">>}

Symmetry == Permutations(Threads) \cup Permutations(Guards)

=============================================================================
