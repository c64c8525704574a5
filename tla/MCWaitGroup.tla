----------------------------- MODULE MCWaitGroup -----------------------------
(* Instances of WaitGroup for TLC; threads are interchangeable, and so are *)
(* all values but the first.                                               *)
EXTENDS WaitGroup, TLC

Symmetry == Permutations(Threads) \cup Permutations(Handles \ {Main})

=============================================================================
