------------------------------ MODULE MCSyncVec ------------------------------
(* Instances of SyncVec for TLC.                                           *)
EXTENDS SyncVec, TLC

Symmetry == Permutations(Threads) \cup Permutations(Guards) \cup Permutations(Values)

=============================================================================
