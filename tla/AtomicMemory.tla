---------------------------- MODULE AtomicMemory ----------------------------
(***************************************************************************)
(* Atomics with the orderings of the C++20 model that Rust uses.  A        *)
(* location has all its values in modification order; a message is a value *)
(* and the clock it passes on to whoever acquires it.  A clock says which  *)
(* is the oldest message of each location that its owner may still read,   *)
(* and which events happen before whatever its owner does next.  SeqCst    *)
(* accesses take their total order from the order of the steps.            *)
(***************************************************************************)
EXTENDS Integers, Sequences

CONSTANTS
  Threads, Locs,
  Events         (* what is ordered by happens-before                      *)

VARIABLES hist, clock

Orders == {"Relaxed", "Release", "Acquire", "SeqCst"}
Releases(o) == o \in {"Release", "SeqCst"}
Acquires(o) == o \in {"Acquire", "SeqCst"}

Clock == [view : [Locs -> Nat \ {0}], know : SUBSET Events]
Message(Values) == [val : Values, order : Orders, clock : Clock]

Nothing == [view |-> [l \in Locs |-> 1], know |-> {}]

Later(i, j) == IF i < j THEN j ELSE i

Join(c, d) ==
  [view |-> [l \in Locs |-> Later(c.view[l], d.view[l])],
   know |-> c.know \cup d.know]

(* Every location has a first value that everybody knows.                  *)
Start(first) ==
  /\ hist = [l \in Locs |->
               <<[val |-> first[l], order |-> "SeqCst", clock |-> Nothing]>>]
  /\ clock = [t \in Threads |-> Nothing]

Latest(l) == Len(hist[l])
Last(l)   == hist[l][Latest(l)]

(* A load may return an old message, but none older than one that its      *)
(* thread knows of; a SeqCst load none older than the last SeqCst write.   *)
Readable(t, l, o) ==
  {i \in clock[t].view[l] .. Latest(l) :
     o = "SeqCst" => \A j \in i + 1 .. Latest(l) : hist[l][j].order # "SeqCst"}

Acquired(t, o, m) == IF Acquires(o) THEN Join(clock[t], m.clock) ELSE clock[t]
Released(o, c)    == IF Releases(o) THEN c ELSE Nothing

Put(l, v, o, c) ==
  hist' = [hist EXCEPT ![l] =
             Append(@, [val |-> v, order |-> o, clock |-> c])]

Load(t, l, o, i) ==
  /\ i \in Readable(t, l, o)
  /\ clock' = [clock EXCEPT ![t] =
                 [Acquired(t, o, hist[l][i]) EXCEPT !.view[l] = i]]
  /\ UNCHANGED hist

Store(t, l, o, v) ==
  LET c == [clock[t] EXCEPT !.view[l] = Latest(l) + 1]
  IN  /\ clock' = [clock EXCEPT ![t] = c]
      /\ Put(l, v, o, Released(o, c))

(* A read-modify-write takes the last value, and passes on what the writer *)
(* of that value passed on (it continues its release sequence).            *)
Add(t, l, o, n) ==
  LET c == [Acquired(t, o, Last(l)) EXCEPT !.view[l] = Latest(l) + 1]
  IN  /\ clock' = [clock EXCEPT ![t] = c]
      /\ Put(l, Last(l).val + n, o, Join(Last(l).clock, Released(o, c)))

(* Mutexes, channels: t learns what is in the clock c.                     *)
Learn(t, c) ==
  /\ clock' = [clock EXCEPT ![t] = Join(@, c)]
  /\ UNCHANGED hist

(* t makes an event of its own.                                            *)
Happen(t, e) ==
  /\ clock' = [clock EXCEPT ![t].know = @ \cup {e}]
  /\ UNCHANGED hist

=============================================================================
