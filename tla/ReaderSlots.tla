---------------------------- MODULE ReaderSlots ----------------------------
(***************************************************************************)
(* How a thread finds its reader counter: reader_count_for and its         *)
(* thread-local caches (sync/mod.rs).  The caches hold raw pointers under  *)
(* the id of a container.  Nobody tells them when the container is         *)
(* dropped, its counters are freed and their addresses are used again; the *)
(* claim is that "each container has a unique id, so address reuse cannot  *)
(* alias a stale entry" (mod.rs:24-25).                                    *)
(*                                                                         *)
(* A lookup is one action: what it uses is its thread's own, but for the   *)
(* registry, which it changes under the mutex.                             *)
(***************************************************************************)
EXTENDS Integers, FiniteSets

CONSTANTS
  Threads,
  Guards,        (* names for the read guards that may be alive at once    *)
  Places,        (* where a container may be in memory                     *)
  Addrs,         (* where a counter may be on the heap                     *)
  None,          (* no container, no guard, the null pointer               *)
  IdWidth,       (* the number of values of usize                          *)
  MaxMade        (* how many containers the program ever creates           *)

ASSUME ReaderSlotsAssumption ==
  /\ None \notin Addrs
  /\ None \notin Nat
  /\ None \notin Threads
  /\ None \notin [of : Places, slot : Addrs, by : Threads \cup {None}]
  /\ IdWidth \in Nat \ {0}
  /\ MaxMade \in Nat
  /\ MaxMade <= IdWidth        (* CONTAINER_ID does not come round         *)

VARIABLES
  made,          (* how many containers have been created                  *)
  id,            (* the id of the container at each place                  *)
  registry,      (* the counters it owns                                   *)
  last, all,     (* the caches of each thread                              *)
  guard          (* the container each guard borrows, the counter it pins, *)
                 (* and the thread that did so, until that thread ends     *)

vars == <<made, id, registry, last, all, guard>>

Ids   == 0 .. IdWidth - 1
Entry == [id : Ids, slot : Addrs]

(* (usize::MAX, null): the id is that of some container, perhaps.          *)
Unset == [id |-> IdWidth - 1, slot |-> None]

Alive(p)     == id[p] # None
Borrowed(p)  == \E g \in Guards : guard[g] # None /\ guard[g].of = p
Allocated(a) == \E p \in Places : a \in registry[p]

Init ==
  /\ made = 0
  /\ id = [p \in Places |-> None]
  /\ registry = [p \in Places |-> {}]
  /\ last = [t \in Threads |-> Unset]
  /\ all = [t \in Threads |-> {}]
  /\ guard = [g \in Guards |-> None]

-----------------------------------------------------------------------------
(* Containers.                                                             *)

(* A slip: the place would do for an id.                                   *)
NewByPlace(p) ==
  /\ ~Alive(p)
  /\ made < MaxMade
  /\ made' = made + 1
  /\ id' = [id EXCEPT ![p] = Cardinality({q \in Places : Alive(q)})]
  /\ UNCHANGED <<registry, last, all, guard>>

New(p) ==
  /\ ~Alive(p)
  /\ made < MaxMade
  /\ made' = made + 1
  /\ id' = [id EXCEPT ![p] = made % IdWidth]
  /\ UNCHANGED <<registry, last, all, guard>>

(* What is borrowed is neither moved nor dropped.                          *)
Move(p, q) ==
  /\ Alive(p) /\ ~Borrowed(p) /\ ~Alive(q)
  /\ id' = [id EXCEPT ![q] = id[p], ![p] = None]
  /\ registry' = [registry EXCEPT ![q] = registry[p], ![p] = {}]
  /\ UNCHANGED <<made, last, all, guard>>

Drop(p) ==
  /\ Alive(p) /\ ~Borrowed(p)
  /\ id' = [id EXCEPT ![p] = None]
  /\ registry' = [registry EXCEPT ![p] = {}]
  /\ UNCHANGED <<made, last, all, guard>>

-----------------------------------------------------------------------------
(* Guards and their counters.                                              *)

Pin(t, g, p, a) ==
  /\ guard[g] = None
  /\ guard' = [guard EXCEPT ![g] = [of |-> p, slot |-> a, by |-> t]]

(* A slip: no check for the null pointer.                                  *)
InLastOrUnset(t, p) == last[t].id = id[p]

InLast(t, p) == last[t].id = id[p] /\ last[t].slot # None
InAll(t, p)  == \E e \in all[t] : e.id = id[p]

FoundLast(t, p, g) ==
  /\ Alive(p)
  /\ InLast(t, p)
  /\ Pin(t, g, p, last[t].slot)
  /\ UNCHANGED <<made, id, registry, last, all>>

(* Which entry is the first with this id is left open: there is only one.  *)
FoundAll(t, p, g) ==
  /\ Alive(p)
  /\ ~InLast(t, p)
  /\ \E e \in all[t] :
       /\ e.id = id[p]
       /\ last' = [last EXCEPT ![t] = e]
       /\ Pin(t, g, p, e.slot)
  /\ UNCHANGED <<made, id, registry, all>>

(* A slip: the new counter is cached, but only as the last one.            *)
RegisterForNow(t, p, g) ==
  /\ Alive(p)
  /\ ~InLast(t, p) /\ ~InAll(t, p)
  /\ \E a \in Addrs :
       /\ ~Allocated(a)
       /\ registry' = [registry EXCEPT ![p] = @ \cup {a}]
       /\ last' = [last EXCEPT ![t] = [id |-> id[p], slot |-> a]]
       /\ Pin(t, g, p, a)
  /\ UNCHANGED <<made, id, all>>

Register(t, p, g) ==
  /\ Alive(p)
  /\ ~InLast(t, p) /\ ~InAll(t, p)
  /\ \E a \in Addrs :
       /\ ~Allocated(a)
       /\ registry' = [registry EXCEPT ![p] = @ \cup {a}]
       /\ all' = [all EXCEPT ![t] = @ \cup {[id |-> id[p], slot |-> a]}]
       /\ last' = [last EXCEPT ![t] = [id |-> id[p], slot |-> a]]
       /\ Pin(t, g, p, a)
  /\ UNCHANGED <<made, id>>

(* By whatever thread: a VecIter is Send.                                  *)
DropGuard(g) ==
  /\ guard[g] # None
  /\ guard' = [guard EXCEPT ![g] = None]
  /\ UNCHANGED <<made, id, registry, last, all>>

(* A thread ends, with its caches, and another one starts.  Its counters   *)
(* stay with their containers, and its VecIters may still be somewhere.    *)
ThreadEnd(t) ==
  /\ last' = [last EXCEPT ![t] = Unset]
  /\ all' = [all EXCEPT ![t] = {}]
  /\ guard' = [g \in Guards |->
       IF guard[g] # None /\ guard[g].by = t
       THEN [guard[g] EXCEPT !.by = None] ELSE guard[g]]
  /\ UNCHANGED <<made, id, registry>>

-----------------------------------------------------------------------------

Next ==
  \/ \E p \in Places : New(p) \/ Drop(p)
  \/ \E p, q \in Places : Move(p, q)
  \/ \E t \in Threads, p \in Places, g \in Guards :
       FoundLast(t, p, g) \/ FoundAll(t, p, g) \/ Register(t, p, g)
  \/ \E g \in Guards : DropGuard(g)
  \/ \E t \in Threads : ThreadEnd(t)

Spec == Init /\ [][Next]_vars

-----------------------------------------------------------------------------
(* Properties.                                                             *)

TypeOK ==
  /\ made \in 0 .. MaxMade
  /\ id \in [Places -> Ids \cup {None}]
  /\ registry \in [Places -> SUBSET Addrs]
  /\ last \in [Threads -> Entry \cup {Unset}]
  /\ all \in [Threads -> SUBSET Entry]
  /\ guard \in [Guards -> [of : Places, slot : Addrs, by : Threads \cup {None}]
                            \cup {None}]

(* A guard pins a counter that the writers of its container will scan, and *)
(* that is not freed before the guard is gone ("The returned reference is  *)
(* valid for as long as the registry (i.e. the container) lives",          *)
(* mod.rs:42-43): also when ids or addresses have been used before.        *)
GuardsScanned ==
  \A g \in Guards : guard[g] # None =>
    Alive(guard[g].of) /\ guard[g].slot \in registry[guard[g].of]

(* The guards of a thread pin one counter of a container, however often it *)
(* has turned to others in between, and no other thread pins that one, not *)
(* even for a thread that has ended ("The counter is only written by its   *)
(* owning thread, so concurrent readers touch their own cache line",       *)
(* mod.rs:21-22).                                                          *)
PrivateCounters ==
  \A g, h \in Guards :
    /\ guard[g] # None /\ guard[h] # None
    /\ guard[g].of = guard[h].of /\ guard[h].by # None
    => (guard[g].by = guard[h].by <=> guard[g].slot = guard[h].slot)

=============================================================================
