-------------------------------- MODULE Latch --------------------------------
(***************************************************************************)
(* What a WaitGroup promises (wg.rs:8-40: clone it, drop the clones when   *)
(* their work is done, and wait: then "all done").  A latch is the set of  *)
(* its live handles; a thread that waits on one of them is told so when    *)
(* that handle is the only one left.  How handles are counted is the       *)
(* business of the module that implements this one.                        *)
(***************************************************************************)
CONSTANTS
  Threads,
  Handles,   (* names for the WaitGroup values that may be alive at once   *)
  Main,      (* the one that new() returns                                 *)
  None

VARIABLES
  alive,     (* the live handles                                           *)
  waits,     (* the handle each thread waits on                            *)
  done       (* threads whose last wait has returned                       *)

vars == <<alive, waits, done>>

Init ==
  /\ alive = {Main}
  /\ waits = [t \in Threads |-> None]
  /\ done = {}

Clone(h) ==
  /\ alive # {}
  /\ h \notin alive
  /\ alive' = alive \cup {h}
  /\ UNCHANGED <<waits, done>>

Drop(h) ==
  /\ h \in alive
  /\ \A t \in Threads : waits[t] # h
  /\ alive' = alive \ {h}
  /\ UNCHANGED <<waits, done>>

Wait(t, h) ==
  /\ waits[t] = None
  /\ h \in alive
  /\ waits' = [waits EXCEPT ![t] = h]
  /\ done' = done \ {t}
  /\ UNCHANGED alive

(* A wait that finds nobody else returns at once.                          *)
Pass(t, h) ==
  /\ waits[t] = None
  /\ alive = {h}
  /\ done' = done \cup {t}
  /\ UNCHANGED <<alive, waits>>

Return(t) ==
  /\ waits[t] # None
  /\ alive = {waits[t]}
  /\ waits' = [waits EXCEPT ![t] = None]
  /\ done' = done \cup {t}
  /\ UNCHANGED alive

GiveUp(t) ==
  /\ waits[t] # None
  /\ waits' = [waits EXCEPT ![t] = None]
  /\ UNCHANGED <<alive, done>>

Next ==
  \/ \E h \in Handles : Clone(h) \/ Drop(h)
  \/ \E t \in Threads :
       \/ \E h \in Handles : Wait(t, h) \/ Pass(t, h)
       \/ Return(t)
       \/ GiveUp(t)

Spec == Init /\ [][Next]_vars

=============================================================================
