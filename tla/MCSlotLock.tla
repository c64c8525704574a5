----------------------------- MODULE MCSlotLock -----------------------------
(* Instances of SlotLock for TLC: small sets of threads and guards.        *)
EXTENDS SlotLock, TLC

(* Guards that are VecIter are told apart from the others, threads are not *)
(* told apart at all: the set is only used with properties that are not    *)
(* temporal liveness properties.                                           *)
Symmetry == Permutations(Threads) \cup Permutations(Guards \ Iters)

=============================================================================
