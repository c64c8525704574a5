------------------------------- MODULE RwLock -------------------------------
(***************************************************************************)
(* What the SAFETY comment of every container promises (map_hash.rs:144,   *)
(* vec.rs:93), stated as an abstract reader-writer lock over the accesses  *)
(* to the container's contents.                                            *)
(*                                                                         *)
(* An access is anything that may look at the contents: a read method in   *)
(* progress, or a read guard that a method returned.  The set of accesses  *)
(* changes atomically, and so does the writer; counters, flags, mutexes    *)
(* and scans are the business of the module that implements this one.      *)
(***************************************************************************)
CONSTANTS
  Accesses,  (* names of the read accesses                                 *)
  Threads,   (* threads that may write                                     *)
  None       (* "no thread"                                                *)

VARIABLES
  reading,   (* the read accesses in progress                              *)
  writer     (* the thread that may change the contents, or None           *)

vars == <<reading, writer>>

Init ==
  /\ reading = {}
  /\ writer = None

-----------------------------------------------------------------------------

StartRead(a) ==
  /\ writer = None
  /\ a \notin reading
  /\ reading' = reading \cup {a}
  /\ UNCHANGED writer

(* A method returns a guard: the access goes on under the guard's name.    *)
HandOver(a, b) ==
  /\ a \in reading
  /\ b \notin reading
  /\ reading' = (reading \ {a}) \cup {b}
  /\ UNCHANGED writer

EndRead(a) ==
  /\ a \in reading
  /\ reading' = reading \ {a}
  /\ UNCHANGED writer

StartWrite(t) ==
  /\ reading = {}
  /\ writer = None
  /\ writer' = t
  /\ UNCHANGED reading

EndWrite ==
  /\ writer # None
  /\ writer' = None
  /\ UNCHANGED reading

Next ==
  \/ \E a \in Accesses : StartRead(a) \/ EndRead(a)
  \/ \E a, b \in Accesses : HandOver(a, b)
  \/ \E t \in Threads : StartWrite(t)
  \/ EndWrite

Spec == Init /\ [][Next]_vars

=============================================================================
