--------------------------- MODULE AtomicDuration ---------------------------
(***************************************************************************)
(* AtomicDuration (sync/duration.rs): an optional duration in one atomic   *)
(* usize, in milliseconds; zero stands for none.  Every operation is one   *)
(* access to the atomic, so one action; get only looks.  The names are     *)
(* those of this module alone, for it is checked together with others.     *)
(***************************************************************************)
EXTENDS Integers

CONSTANTS
  MsPerSec, NanosPerMilli,
  U64Max, UsizeMax,
  NoDuration

ASSUME AtomicDurationAssumption ==
  /\ MsPerSec \in Nat \ {0}
  /\ NanosPerMilli \in Nat \ {0}
  /\ UsizeMax \in Nat
  /\ U64Max \in Nat
  /\ UsizeMax <= U64Max
  /\ NoDuration \notin [secs : Nat, nanos : Nat]

VARIABLES
  cell,   (* the atomic                                                    *)
  kept    (* what was stored last, or none if that has been taken          *)

durationVars == <<cell, kept>>

Duration == [secs : 0 .. U64Max, nanos : 0 .. MsPerSec * NanosPerMilli - 1]
Nanos(d) == d.secs * (MsPerSec * NanosPerMilli) + d.nanos

Saturated(n) == IF n > U64Max THEN U64Max ELSE n

(* A slip: what is left of a millisecond is dropped.                       *)
dur_to_ms_down(d) ==
  Saturated(Saturated(d.secs * MsPerSec) + d.nanos \div NanosPerMilli)

dur_to_ms(d) ==
  Saturated(Saturated(d.secs * MsPerSec)
              + (d.nanos + NanosPerMilli - 1) \div NanosPerMilli)

(* The cast to usize drops what does not fit.                              *)
Cell(d) == IF d = NoDuration THEN 0 ELSE dur_to_ms(d) % (UsizeMax + 1)

(* Duration::from_millis, or none.                                         *)
Get ==
  IF cell = 0 THEN NoDuration
  ELSE [secs |-> cell \div MsPerSec, nanos |-> (cell % MsPerSec) * NanosPerMilli]

DurationInit ==
  /\ kept \in Duration \cup {NoDuration}
  /\ cell = Cell(kept)

Store(d) ==
  /\ kept' = d
  /\ cell' = Cell(d)

(* Also into_inner.                                                        *)
Take ==
  /\ kept' = NoDuration
  /\ cell' = 0

DurationNext == Take \/ \E d \in Duration \cup {NoDuration} : Store(d)

DurationSpec == DurationInit /\ [][DurationNext]_durationVars

-----------------------------------------------------------------------------
(* A duration that usize has milliseconds for is read back no shorter than *)
(* it was stored, and less than a millisecond longer: a timeout never ends *)
(* too early.  None is read if and only if none, or zero, was stored, or   *)
(* what was stored has been taken.                                         *)
NeverShorter ==
  /\ kept = NoDuration => Get = NoDuration
  /\ kept # NoDuration /\ Nanos(kept) <= UsizeMax * NanosPerMilli =>
       /\ Get = NoDuration <=> Nanos(kept) = 0
       /\ Get # NoDuration =>
            Nanos(kept) <= Nanos(Get) /\ Nanos(Get) < Nanos(kept) + NanosPerMilli

=============================================================================
