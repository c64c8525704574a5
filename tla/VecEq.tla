-------------------------------- MODULE VecEq --------------------------------
(***************************************************************************)
(* SyncVec's eq (vec.rs:418-422): `a == b` takes a read guard of a and     *)
(* then one of b.  While it waits for b it keeps the writers of a waiting. *)
(*                                                                         *)
(* The lock of each vector is that of SlotLock, seen from outside: a       *)
(* writer that has come keeps new readers out (writing is up) and waits    *)
(* for those that are in.  A caller has no guard when it calls a method.   *)
(* The names are those of this module alone, for it is checked together    *)
(* with others.                                                            *)
(***************************************************************************)
EXTENDS Integers

CONSTANTS
  Callers,
  Vecs,
  Compared,      (* the <<a, b>> for which somebody says a == b            *)
  Values,        (* what may be in a vector                                *)
  Nil            (* nobody, nothing                                        *)

ASSUME VecEqAssumption ==
  /\ Compared \subseteq Vecs \X Vecs
  /\ Nil \notin Callers

VARIABLES
  pc,
  value,         (* the contents of each vector                            *)
  writer,        (* who holds its WriteLock, or drains its readers         *)
  pinned,        (* who has a guard of it, as "self" or as "other"         *)
  args,          (* the two vectors that a thread is comparing             *)
  target,        (* the vector that it is writing                          *)
  seen           (* what it has seen of self, then the answer              *)

eqVars == <<pc, value, writer, pinned, args, target, seen>>

Sides  == {"self", "other"}
Labels == {"user", "self", "other", "compare", "half", "answered",
           "mutex", "drain", "write"}

Goto(t, from, to) ==
  /\ pc[t] = from
  /\ pc' = [pc EXCEPT ![t] = to]

EqInit ==
  /\ pc = [t \in Callers |-> "user"]
  /\ value \in [Vecs -> Values]
  /\ writer = [v \in Vecs |-> Nil]
  /\ pinned = [v \in Vecs |-> {}]
  /\ args = [t \in Callers |-> Nil]
  /\ target = [t \in Callers |-> Nil]
  /\ seen = [t \in Callers |-> Nil]

-----------------------------------------------------------------------------
(* Slips: a guard that does not outlive the look at what it guards, and    *)
(* one that is forgotten.                                                  *)

PinSelfBriefly(t) ==
  /\ Goto(t, "self", "other")
  /\ writer[args[t].self] = Nil
  /\ UNCHANGED <<value, writer, pinned, args, target, seen>>

DropSelfForgotten(t) ==
  /\ Goto(t, "answered", "user")
  /\ args' = [args EXCEPT ![t] = Nil]
  /\ seen' = [seen EXCEPT ![t] = Nil]
  /\ UNCHANGED <<value, writer, pinned, target>>

-----------------------------------------------------------------------------
(* self.dirty_ref() == other.dirty_ref().                                  *)

Compare(t, a, b) ==
  /\ Goto(t, "user", "self")
  /\ <<a, b>> \in Compared
  /\ args' = [args EXCEPT ![t] = [self |-> a, other |-> b]]
  /\ UNCHANGED <<value, writer, pinned, target, seen>>

PinSelf(t) ==
  /\ Goto(t, "self", "other")
  /\ writer[args[t].self] = Nil
  /\ pinned' = [pinned EXCEPT ![args[t].self] = @ \cup {<<t, "self">>}]
  /\ UNCHANGED <<value, writer, args, target, seen>>

PinOther(t) ==
  /\ Goto(t, "other", "compare")
  /\ writer[args[t].other] = Nil
  /\ pinned' = [pinned EXCEPT ![args[t].other] = @ \cup {<<t, "other">>}]
  /\ UNCHANGED <<value, writer, args, target, seen>>

(* The elements of the two are looked at one after the other.              *)
LookAtSelf(t) ==
  /\ Goto(t, "compare", "half")
  /\ seen' = [seen EXCEPT ![t] = value[args[t].self]]
  /\ UNCHANGED <<value, writer, pinned, args, target>>

(* Both guards live until the comparison is done (or has panicked), and    *)
(* the younger one is dropped first.                                       *)
Answer(t) ==
  /\ Goto(t, "half", "answered")
  /\ seen' = [seen EXCEPT ![t] = (@ = value[args[t].other])]
  /\ pinned' = [pinned EXCEPT ![args[t].other] = @ \ {<<t, "other">>}]
  /\ UNCHANGED <<value, writer, args, target>>

DropSelf(t) ==
  /\ Goto(t, "answered", "user")
  /\ pinned' = [pinned EXCEPT ![args[t].self] = @ \ {<<t, "self">>}]
  /\ args' = [args EXCEPT ![t] = Nil]
  /\ seen' = [seen EXCEPT ![t] = Nil]
  /\ UNCHANGED <<value, writer, target>>

-----------------------------------------------------------------------------
(* Any write method.                                                       *)

BeginWrite(t, v) ==
  /\ Goto(t, "user", "mutex")
  /\ target' = [target EXCEPT ![t] = v]
  /\ UNCHANGED <<value, writer, pinned, args, seen>>

LockWrite(t) ==
  /\ Goto(t, "mutex", "drain")
  /\ writer[target[t]] = Nil
  /\ writer' = [writer EXCEPT ![target[t]] = t]
  /\ UNCHANGED <<value, pinned, args, target, seen>>

EnterWrite(t) ==
  /\ Goto(t, "drain", "write")
  /\ pinned[target[t]] = {}
  /\ UNCHANGED <<value, writer, pinned, args, target, seen>>

(* In several steps, perhaps.                                              *)
Write(t) ==
  /\ pc[t] = "write"
  /\ \E x \in Values : value' = [value EXCEPT ![target[t]] = x]
  /\ UNCHANGED <<pc, writer, pinned, args, target, seen>>

EndWrite(t) ==
  /\ Goto(t, "write", "user")
  /\ writer' = [writer EXCEPT ![target[t]] = Nil]
  /\ target' = [target EXCEPT ![t] = Nil]
  /\ UNCHANGED <<value, pinned, args, seen>>

-----------------------------------------------------------------------------

EqNext ==
  \E t \in Callers :
    \/ PinSelf(t) \/ PinOther(t) \/ LookAtSelf(t) \/ Answer(t) \/ DropSelf(t)
    \/ LockWrite(t) \/ EnterWrite(t) \/ Write(t) \/ EndWrite(t)
    \/ \E v \in Vecs : BeginWrite(t, v)
    \/ \E a, b \in Vecs : Compare(t, a, b)

EqSpec == EqInit /\ [][EqNext]_eqVars

-----------------------------------------------------------------------------
(* Properties.                                                             *)

EqTypeOK ==
  /\ pc \in [Callers -> Labels]
  /\ value \in [Vecs -> Values]
  /\ writer \in [Vecs -> Callers \cup {Nil}]
  /\ pinned \in [Vecs -> SUBSET (Callers \X Sides)]
  /\ args \in [Callers -> [self : Vecs, other : Vecs] \cup {Nil}]
  /\ target \in [Callers -> Vecs \cup {Nil}]
  /\ seen \in [Callers -> Values \cup BOOLEAN \cup {Nil}]

(* Who cannot take its next step until somebody else has taken one.        *)
WaitsFor(t, u) ==
  \/ pc[t] = "self"  /\ writer[args[t].self] = u
  \/ pc[t] = "other" /\ writer[args[t].other] = u
  \/ pc[t] = "mutex" /\ writer[target[t]] = u
  \/ pc[t] = "drain" /\ \E s \in Sides : <<u, s>> \in pinned[target[t]]

(* A set of threads of which none can go on before another one of it has.  *)
Circle(S) ==
  /\ S \in (SUBSET Callers) \ {{}}
  /\ \A t \in S : \E u \in S : WaitsFor(t, u)

(* Comparisons that each hold a guard of one vector, and want one of that  *)
(* which the next of them holds.                                           *)
Ring(C) ==
  /\ C # {}
  /\ \A t \in C : pc[t] = "other" /\ \E u \in C : args[u].self = args[t].other

(* Nobody calls a write method under a guard (vec.rs:83-87), and readers   *)
(* never block each other (vec.rs:76-77).  Still threads may wait for one  *)
(* another in a circle, as eq waits for its second guard with the first in *)
(* hand (vec.rs:420): but only if comparisons under way, by any number of  *)
(* the threads, go round in a ring, a == b and b == a, or v == v.  Writers *)
(* alone, or with comparisons that make no ring, never do.                 *)
CirclesAreRings ==
  \A S \in SUBSET Callers : Circle(S) => \E C \in SUBSET S : Ring(C)

(* No circle at all.                                                       *)
NoCircle == \A S \in SUBSET Callers : ~Circle(S)

(* The answer of eq is that of one moment: the two vectors are equal, or   *)
(* not, when it is given, whatever other threads have written meanwhile.   *)
AnswerTrue ==
  [][\A t \in Callers : pc[t] = "half" /\ pc'[t] = "answered" =>
       seen'[t] = (value[args[t].self] = value[args[t].other])]_eqVars

=============================================================================
