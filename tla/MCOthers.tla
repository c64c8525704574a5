------------------------------ MODULE MCOthers ------------------------------
(* The components that share nothing, in one instance for TLC: the part is *)
(* chosen at the start, and only that part moves.                          *)
EXTENDS ReaderSlots, AtomicDuration, DeferGuard, VecEq, TLC

VARIABLE part

(* A vector with itself, two both ways, and one in a chain with another.   *)
Comparisons == {<<1, 1>>, <<1, 2>>, <<2, 1>>, <<3, 1>>}

slotsVars == vars

Idle == kept = NoDuration /\ cell = Cell(kept)

OthersInit ==
  /\ Init /\ DeferInit /\ EqInit
  /\ \/ part = "duration" /\ DurationInit
     \/ part \in {"slots", "defer", "eq"} /\ Idle
  /\ part = "eq" \/ \A v, w \in Vecs : value[v] = value[w]

OthersNext ==
  \/ part = "slots" /\ Next /\ UNCHANGED <<part, durationVars, deferVars, eqVars>>
  \/ part = "duration" /\ DurationNext /\ UNCHANGED <<part, slotsVars, deferVars, eqVars>>
  \/ part = "defer" /\ DeferNext /\ UNCHANGED <<part, slotsVars, durationVars, eqVars>>
  \/ part = "eq" /\ EqNext /\ UNCHANGED <<part, slotsVars, durationVars, deferVars>>

OthersSpec == OthersInit /\ [][OthersNext]_<<part, slotsVars, durationVars, deferVars, eqVars>>

Symmetry ==
  Permutations(Threads) \cup Permutations(Guards) \cup Permutations(Places)
    \cup Permutations(Addrs)

=============================================================================
