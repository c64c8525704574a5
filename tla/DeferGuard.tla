----------------------------- MODULE DeferGuard -----------------------------
(***************************************************************************)
(* defer! and its Guard (defer/mod.rs) on one thread: nested scopes, in    *)
(* which closures are deferred, that are left at their ends or by a panic. *)
(* What the language does with the locals of a scope (the youngest is      *)
(* dropped first, a panic goes on to drop the others, a second panic       *)
(* aborts) is modelled here as the code relies on it.                      *)
(***************************************************************************)
EXTENDS Integers, Sequences, SequencesExt

CONSTANTS
  Closures,      (* each is deferred at most once                          *)
  MaxScopes      (* how deep scopes are nested                             *)

VARIABLES
  mode,
  guards,        (* the guards that live, the youngest last                *)
  floors,        (* of each open scope, the innermost last: how many of    *)
                 (* the guards are older than the scope                    *)
  deferred,      (* the closures, in the order they were deferred          *)
  disarmed,      (* those whose guard has been emptied: its field is pub   *)
  ran            (* those that have been called, in order                  *)

deferVars == <<mode, guards, floors, deferred, disarmed, ran>>

(* A guard is the closure in its Option, which it may have lost.           *)
Armed == ToSet(guards) \ disarmed

(* The innermost scope has a guard that is still to be dropped.            *)
Guarded == Len(guards) > Last(floors)

DeferInit ==
  /\ mode = "running"
  /\ guards = <<>>
  /\ floors = <<0>>
  /\ deferred = <<>>
  /\ disarmed = {}
  /\ ran = <<>>

Enter ==
  /\ mode = "running"
  /\ Len(floors) < MaxScopes
  /\ floors' = Append(floors, Len(guards))
  /\ UNCHANGED <<mode, guards, deferred, disarmed, ran>>

Defer(c) ==
  /\ mode = "running"
  /\ c \notin ToSet(deferred)
  /\ guards' = Append(guards, c)
  /\ deferred' = Append(deferred, c)
  /\ UNCHANGED <<mode, floors, disarmed, ran>>

Disarm(c) ==
  /\ mode = "running"
  /\ c \in Armed
  /\ disarmed' = disarmed \cup {c}
  /\ UNCHANGED <<mode, guards, floors, deferred, ran>>

Leave ==
  /\ mode = "running"
  /\ mode' \in {"leaving", "unwinding"}       (* at the end, by a panic    *)
  /\ UNCHANGED <<guards, floors, deferred, disarmed, ran>>

(* A panic out of a drop unwinds; out of a drop while unwinding, it aborts.*)
Panicked == IF mode = "leaving" THEN "unwinding" ELSE "aborted"

(* A slip: a closure that panics takes the others of its scope along.      *)
DropGuardAlone ==
  /\ mode \in {"leaving", "unwinding"}
  /\ Guarded
  /\ LET c == Last(guards)
     IN  /\ ran' = IF c \in disarmed THEN ran ELSE Append(ran, c)
         /\ \/ mode' = mode /\ guards' = Front(guards)
            \/ /\ c \notin disarmed /\ mode' = Panicked
               /\ guards' = SubSeq(guards, 1, Last(floors))
  /\ UNCHANGED <<floors, deferred, disarmed>>

(* A slip: as a queue.                                                     *)
DropOldest ==
  /\ mode \in {"leaving", "unwinding"}
  /\ Guarded
  /\ LET i == Last(floors) + 1
     IN  /\ ran' = IF guards[i] \in disarmed THEN ran ELSE Append(ran, guards[i])
         /\ guards' = RemoveAt(guards, i)
  /\ UNCHANGED <<mode, floors, deferred, disarmed>>

(* The closure is taken out of the guard and called, once.                 *)
DeferDrop ==
  /\ mode \in {"leaving", "unwinding"}
  /\ Guarded
  /\ LET c == Last(guards)
     IN  \/ c \in disarmed /\ UNCHANGED <<ran, mode>>
         \/ c \notin disarmed /\ ran' = Append(ran, c) /\ mode' \in {mode, Panicked}
  /\ guards' = Front(guards)
  /\ UNCHANGED <<floors, deferred, disarmed>>

(* Nothing is left in the scope; a catch_unwind around it ends a panic.    *)
Left ==
  /\ mode \in {"leaving", "unwinding"}
  /\ ~Guarded
  /\ floors' = Front(floors)
  /\ IF Len(floors) = 1 THEN mode' = "ended"
     ELSE \/ mode' = "running"
          \/ mode = "unwinding" /\ mode' = mode
  /\ UNCHANGED <<guards, deferred, disarmed, ran>>

DeferNext ==
  \/ Enter \/ Leave \/ DeferDrop \/ Left
  \/ \E c \in Closures : Defer(c) \/ Disarm(c)

DeferSpec == DeferInit /\ [][DeferNext]_deferVars

-----------------------------------------------------------------------------
(* Whatever panics, short of an abort, and however scopes are nested:      *)
(* every closure that was deferred has run once, or has been disarmed, or  *)
(* has its guard in a scope that is still to be left.                      *)
NothingForgotten ==
  mode # "aborted" =>
    /\ ToSet(deferred) = Armed \cup ToSet(ran) \cup disarmed
    /\ IsInjective(ran)
    /\ ToSet(ran) \cap (Armed \cup disarmed) = {}
    /\ mode = "ended" => guards = <<>>

Older(d, c) ==
  \E i, j \in DOMAIN deferred : i < j /\ deferred[i] = d /\ deferred[j] = c

(* "LIFO (last-in, first-out queue)" (mod.rs:12): the closure that is      *)
(* called is the youngest of those that are still to be called, in its own *)
(* scope or in any other.                                                  *)
LastInFirstOut ==
  [][\A c \in Closures : ran' = Append(ran, c) => \A d \in Armed' : Older(d, c)]_deferVars

=============================================================================
