------------------------------- MODULE SyncVec -------------------------------
(***************************************************************************)
(* dark_std::sync::SyncVec (vec.rs): the calls of Container on a vector.   *)
(* Positions are counted from 0, as in the code; c[i + 1] is position i.   *)
(* A method that takes &mut self (push_mut, pop_mut, remove_mut) does what *)
(* the one without _mut does, when nobody else can call anything.          *)
(***************************************************************************)
EXTENDS Integers, Sequences, FiniteSets

CONSTANTS
  Threads, Guards, None,
  Garbage, Panic,
  Values,
  MaxLen,       (* the bound of a run on the length of the vector          *)
  WithIndex,    (* TRUE: Index and get_uncheck are called                  *)
  Contract

S == INSTANCE SequencesExt

Vectors == UNION {[1 .. n -> Values] : n \in 0 .. MaxLen}
Start   == {<<>>} \cup {<<v, v>> : v \in Values} \* new, and sync_vec![v; 2]
Indices == 0 .. MaxLen
Places  == SUBSET (1 .. MaxLen)

Some(x) == <<"some", x>>
Nothing == <<"none">>
Outcome(c, result) == {[contents |-> c, result |-> result]}

-----------------------------------------------------------------------------
(* Slips that the properties below would not survive.                      *)

(* The new element takes the place of an old one.                          *)
InsertOver(c, i, v) ==
  IF i < Len(c) THEN Outcome([c EXCEPT ![i + 1] = v], Nothing)
  ELSE IF i = Len(c) THEN Outcome(Append(c, v), Nothing)
  ELSE Outcome(c, Panic)

-----------------------------------------------------------------------------
(* What the write methods do: the contents, and the result.                *)

Insert(c, i, v) ==
  IF i <= Len(c) THEN Outcome(S!InsertAt(c, i + 1, v), Nothing)
                 ELSE Outcome(c, Panic)

Set(c, i, v) ==
  IF i < Len(c) THEN Outcome([c EXCEPT ![i + 1] = v], Nothing)
                ELSE Outcome(c, Panic)

Push(c, v) == Outcome(Append(c, v), Nothing)

Pushes(c, arr) == Outcome(c \o arr, Nothing)

Pop(c) ==
  IF c = <<>> THEN Outcome(c, Nothing)
              ELSE Outcome(S!Front(c), Some(S!Last(c)))

Remove(c, i) ==
  IF Len(c) > i THEN Outcome(S!RemoveAt(c, i + 1), Some(c[i + 1]))
                ELSE Outcome(c, Nothing)

Clear(c) == Outcome(<<>>, Nothing)

(* The buffer may move; what is in it stays.                               *)
ShrinkToFit(c) == Outcome(c, Nothing)

Writes ==
  ({"insert", "set"} \X Indices \X Values)
  \cup ({"push"} \X Values)
  \cup {<<"pushes", <<v, w>>>> : v, w \in Values}
  \cup {<<"remove", i>> : i \in Indices}
  \cup {<<"pop">>, <<"clear">>, <<"shrink_to_fit">>}

Effects(op, c) ==
  CASE op[1] = "insert"        -> Insert(c, op[2], op[3])
    [] op[1] = "set"           -> Set(c, op[2], op[3])
    [] op[1] = "push"          -> Push(c, op[2])
    [] op[1] = "pushes"        -> Pushes(c, op[2])
    [] op[1] = "pop"           -> Pop(c)
    [] op[1] = "remove"        -> Remove(c, op[2])
    [] op[1] = "clear"         -> Clear(c)
    [] op[1] = "shrink_to_fit" -> ShrinkToFit(c)

-----------------------------------------------------------------------------
(* What the other methods find.                                            *)

Reads    == {<<"len">>, <<"is_empty">>} \cup ({"contains"} \X Values)
Unsynced == IF WithIndex THEN {<<"index", i>> : i \in Indices} ELSE {}
Borrows  == {<<"get", i>> : i \in Indices} \cup {<<"iter">>, <<"dirty_ref">>} \cup Unsynced
Iterators == {<<"iter">>, <<"iter_mut">>}
Edits    == {<<"get_mut", i>> : i \in Indices} \cup {<<"iter_mut">>}

(* The positions that the result of a borrow refers to.                    *)
Place(op, c) ==
  IF op[1] \in {"iter", "dirty_ref", "iter_mut"} THEN DOMAIN c
  ELSE IF op[2] < Len(c) THEN {op[2] + 1}
  ELSE None

Answer(op, c) ==
  CASE op[1] = "len"      -> <<"len", Len(c)>>
    [] op[1] = "is_empty" -> <<"is_empty", c = <<>>>>
    [] op[1] = "contains" -> <<"contains", \E i \in DOMAIN c : c[i] = op[2]>>
    [] op[1] = "index"    -> Panic
    [] op[1] \in {"get", "get_mut"} -> Nothing

Look(place, c) == <<"at", [i \in place |-> c[i]]>>

Stores(place, c) == {[c EXCEPT ![i] = v] : i \in place, v \in Values}

-----------------------------------------------------------------------------

VARIABLES contents, reading, writer, pc, call, seen, told, view, edit

INSTANCE Container WITH Contents <- Vectors

(* None is no thread, no contents, no call, nothing to hold on to.         *)
NoneIsNothing ==
  /\ None \notin Threads
  /\ \A c \in Vectors : c # None
  /\ \A p \in Places : p # None
  /\ \A v \in View \cup Edit : v # None
  /\ \A e \in [owner : Threads, place : Places] : e # None
  /\ \A op \in Calls : op # None

ASSUME SyncVecAssumption ==
  /\ MaxLen \in Nat /\ MaxLen >= 2 \* room for Start
  /\ WithIndex \in BOOLEAN /\ Contract \in BOOLEAN
  /\ Threads \cap Guards = {}
  /\ NoneIsNothing

-----------------------------------------------------------------------------
(* Properties.                                                             *)

Occurrences(s, v) == Cardinality({i \in DOMAIN s : s[i] = v})

Given(op) == CASE op[1] = "insert" -> <<op[3]>>
               [] op[1] = "push"   -> <<op[2]>>
               [] op[1] = "pushes" -> op[2]
               [] OTHER            -> <<>>
Taken(result) == IF result[1] = "some" THEN <<result[2]>> ELSE <<>>

(* No element is lost, and none is handed out twice: whatever threads call *)
(* at the same time, what insert, push and pushes are given and what pop   *)
(* and remove return add up with what is in the vector.  (set and clear    *)
(* drop elements, and so does a call that panics.)                         *)
Conserved ==
  [][\A t \in Threads :
       /\ pc[t] = "changing" /\ pc'[t] # "changing"
       /\ call[t][1] \notin {"set", "clear"}
       /\ told'[2] # Panic
       => \A v \in Values :
            Occurrences(contents', v) + Occurrences(Taken(told'[2]), v)
              = Occurrences(contents, v) + Occurrences(Given(call[t]), v)]_vars

=============================================================================
