------------------------------- MODULE SyncMap -------------------------------
(***************************************************************************)
(* SyncHashMap, SyncBtreeMap and SyncIndexMap (map_hash.rs, map_btree.rs,  *)
(* map_index.rs): the calls of Container on a map.  The three files are    *)
(* the same but for the map they wrap, which is modelled by what its       *)
(* methods do: its entries are a sequence of <<key, value>> pairs, sorted  *)
(* by key in a btree, and in an index map in the order that its insert and *)
(* swap_remove make.  No call of this model shows the order of a HashMap,  *)
(* which is any: the sorted map stands for it too.                         *)
(*                                                                         *)
(* shrink_to_fit is left out: a write that changes nothing, as remove of a *)
(* key that is not there (and in SyncBtreeMap no write at all).            *)
(***************************************************************************)
EXTENDS Integers, Sequences, FiniteSets

CONSTANTS
  Threads, Guards, None,
  Garbage, Panic,
  Entries,      (* the <<key, value>> pairs that are used; keys are        *)
                (* numbers, their order is Ord                             *)
  UserPanics    (* TRUE: Hash, Eq or Ord of a key may panic in a write     *)

S == INSTANCE SequencesExt

Kinds == {"sorted", "index"}

Keys == {e[1] : e \in Entries}

(* A map has each key once, so there are at most as many entries as keys.  *)
Maps == [kind : Kinds,
         entries : UNION {[1 .. n -> Entries] : n \in 0 .. Cardinality(Keys)}]
Start  == [kind : Kinds, entries : {<<>>}]
Places == SUBSET Keys

Has(s, k) == \E i \in DOMAIN s : s[i][1] = k
At(s, k)  == CHOOSE i \in DOMAIN s : s[i][1] = k
KeysOf(s) == {s[i][1] : i \in DOMAIN s}

Some(x) == <<"some", x>>
Nothing == <<"none">>
Outcome(c, s, result) == {[contents |-> [c EXCEPT !.entries = s], result |-> result]}

-----------------------------------------------------------------------------
(* Slips that the properties below would not survive.                      *)

(* The last entry takes the place of the removed one, and stays.           *)
SwapRemoveKept(s, i) == [j \in DOMAIN s |-> IF j = i THEN s[Len(s)] ELSE s[j]]

(* shift_remove in the place of swap_remove.                               *)
WithoutShifting(c, i) == S!RemoveAt(c.entries, i)

(* insert returns what it has put in.                                      *)
ReplaceNew(c, k, v) ==
  Outcome(c, [c.entries EXCEPT ![At(c.entries, k)] = <<k, v>>], Some(v))

-----------------------------------------------------------------------------
(* The write methods.                                                      *)

Sorted(s, e) ==
  S!InsertAt(s, Cardinality({i \in DOMAIN s : s[i][1] < e[1]}) + 1, e)

WithNew(c, e) ==
  IF c.kind = "index" THEN Append(c.entries, e) ELSE Sorted(c.entries, e)

Replace(c, k, v) ==
  LET i == At(c.entries, k)
  IN  Outcome(c, [c.entries EXCEPT ![i] = <<k, v>>], Some(c.entries[i][2]))

Insert(c, k, v) ==
  IF Has(c.entries, k) THEN Replace(c, k, v)
                       ELSE Outcome(c, WithNew(c, <<k, v>>), Nothing)

(* swap_remove: the last entry takes the place of the removed one.         *)
SwapRemove(s, i) ==
  S!Front([j \in DOMAIN s |-> IF j = i THEN s[Len(s)] ELSE s[j]])

Without(c, i) ==
  IF c.kind = "index" THEN SwapRemove(c.entries, i) ELSE S!RemoveAt(c.entries, i)

Remove(c, k) ==
  LET i == At(c.entries, k)
  IN  IF Has(c.entries, k) THEN Outcome(c, Without(c, i), Some(c.entries[i][2]))
                           ELSE Outcome(c, c.entries, Nothing)

Clear(c) == Outcome(c, <<>>, Nothing)

(* Hash, Eq or Ord of the key panics before the map is changed; the        *)
(* WriteLock is dropped on the way out.                                    *)
KeyPanics(c) == IF UserPanics THEN Outcome(c, c.entries, Panic) ELSE {}

Writes == {<<"insert", e[1], e[2]>> : e \in Entries} \cup ({"remove"} \X Keys) \cup {<<"clear">>}

Effects(op, c) ==
  CASE op[1] = "insert" -> Insert(c, op[2], op[3]) \cup KeyPanics(c)
    [] op[1] = "remove" -> Remove(c, op[2]) \cup KeyPanics(c)
    [] op[1] = "clear"  -> Clear(c)

-----------------------------------------------------------------------------
(* What the other methods find.  Places are keys.                          *)

Reads     == {<<"len">>, <<"is_empty">>} \cup ({"contains_key"} \X Keys)
Unsynced  == {"index"} \X Keys
Borrows   == ({"get"} \X Keys) \cup {<<"iter">>, <<"dirty_ref">>} \cup Unsynced
Iterators == {<<"iter">>, <<"iter_mut">>}
Edits     == ({"get_mut"} \X Keys) \cup {<<"iter_mut">>}

Place(op, c) ==
  IF op[1] \in {"iter", "dirty_ref", "iter_mut"} THEN KeysOf(c.entries)
  ELSE IF Has(c.entries, op[2]) THEN {op[2]}
  ELSE None

Answer(op, c) ==
  CASE op[1] = "len"          -> <<"len", Len(c.entries)>>
    [] op[1] = "is_empty"     -> <<"is_empty", c.entries = <<>>>>
    [] op[1] = "contains_key" -> <<"contains_key", Has(c.entries, op[2])>>
    [] op[1] = "index"        -> Panic
    [] op[1] \in {"get", "get_mut"} -> Nothing

Look(place, c) == <<"at", [k \in place |-> c.entries[At(c.entries, k)][2]]>>

Stores(place, c) ==
  {[c EXCEPT !.entries[At(c.entries, e[1])] = e] : e \in {d \in Entries : d[1] \in place}}

-----------------------------------------------------------------------------

VARIABLES contents, reading, writer, pc, call, seen, told, view, edit

INSTANCE Container WITH Contents <- Maps, Contract <- TRUE

(* None is no thread, no contents, no call, nothing to hold on to.         *)
NoneIsNothing ==
  /\ None \notin Threads
  /\ \A c \in Maps : c # None
  /\ \A p \in Places : p # None
  /\ \A v \in View \cup Edit : v # None
  /\ \A e \in [owner : Threads, place : Places] : e # None
  /\ \A op \in Calls : op # None

ASSUME SyncMapAssumption ==
  /\ IsFiniteSet(Entries)
  /\ \A e \in Entries : e = <<e[1], e[2]>> /\ e[1] \in Int
  /\ UserPanics \in BOOLEAN
  /\ Threads \cap Guards = {}
  /\ NoneIsNothing

-----------------------------------------------------------------------------
(* Properties.                                                             *)

(* Every key is there once, and a btree yields its keys in order: what its *)
(* searches rely on.                                                       *)
WellFormed ==
  LET s == contents.entries
  IN  \A i, j \in DOMAIN s : i < j =>
        /\ s[i][1] # s[j][1]
        /\ contents.kind = "sorted" => s[i][1] < s[j][1]

(* The order in which an IndexMap shows its entries is the order of their  *)
(* insertion, but for one thing: a remove moves the last entry (to where   *)
(* the removed one was).  Nothing else moves an entry that stays.          *)
PositionsKept ==
  [][LET s == contents.entries
     IN  \A k \in KeysOf(s) \cap KeysOf(s') :
           contents.kind = "index" /\ At(s', k) # At(s, k) =>
             /\ At(s, k) = Len(s)
             /\ Len(s') = Len(s) - 1]_vars

(* The abstract map is a function, and knows nothing of order.             *)
AsFunction(c) == [k \in KeysOf(c.entries) |-> c.entries[At(c.entries, k)][2]]

FunctionEffects(op, f) ==
  LET old(k)   == IF k \in DOMAIN f THEN Some(f[k]) ELSE Nothing
      only(ks) == [k \in ks |-> f[k]]
      is(g, x) == {[contents |-> g, result |-> x]}
      panic    == IF UserPanics THEN is(f, Panic) ELSE {}
  IN CASE op[1] = "insert" -> panic \cup
            is([k \in DOMAIN f \cup {op[2]} |-> IF k = op[2] THEN op[3] ELSE f[k]],
               old(op[2]))
       [] op[1] = "remove" -> panic \cup is(only(DOMAIN f \ {op[2]}), old(op[2]))
       [] op[1] = "clear"  -> is(only({}), Nothing)

FunctionPlace(op, f) ==
  IF op[1] \in {"iter", "dirty_ref", "iter_mut"} THEN DOMAIN f
  ELSE IF op[2] \in DOMAIN f THEN {op[2]} ELSE None

FunctionAnswer(op, f) ==
  CASE op[1] = "len"          -> <<"len", Cardinality(DOMAIN f)>>
    [] op[1] = "is_empty"     -> <<"is_empty", DOMAIN f = {}>>
    [] op[1] = "contains_key" -> <<"contains_key", op[2] \in DOMAIN f>>
    [] op[1] = "index"        -> Panic
    [] op[1] \in {"get", "get_mut"} -> Nothing

AbstractMap == INSTANCE AtomicContainer WITH
  Start    <- {AsFunction(c) : c \in Start},
  contents <- AsFunction(contents),
  open     <- Opened,
  edit     <- Edited,
  Effects  <- FunctionEffects,
  Place    <- FunctionPlace,
  Answer   <- FunctionAnswer,
  Look     <- LAMBDA place, f : <<"at", [k \in place |-> f[k]]>>,
  Stores   <- LAMBDA place, f :
                {[f EXCEPT ![e[1]] = e[2]] : e \in {d \in Entries : d[1] \in place}}

(* Each of the three maps behaves, for every thread, like one function     *)
(* from keys to values that changes atomically.                            *)
ImplementsMap == AbstractMap!Spec

=============================================================================
