---------------------------- MODULE MCSlotMemory ----------------------------
(* Instances of SlotMemory for TLC.                                        *)
EXTENDS SlotMemory, TLC

Symmetry == Permutations(Guards)

=============================================================================
