------------------------- MODULE ReaderSlotsProofs -------------------------
(***************************************************************************)
(* The thread-local caches never alias, for any number of threads,         *)
(* containers and counters, as long as CONTAINER_ID does not come round.   *)
(* The argument: an id is given out once, so an entry with the id of a     *)
(* living container was made for that container, and its counter is in the *)
(* registry, from which nothing is removed before the container dies.      *)
(***************************************************************************)
EXTENDS ReaderSlots, TLAPS

(* Ids are given out once.                                                 *)
IdsInv ==
  /\ \A p \in Places : Alive(p) => id[p] < made
  /\ \A p, q \in Places : Alive(p) /\ id[p] = id[q] => p = q
  /\ \A t \in Threads : \A e \in all[t] : e.id < made

(* A counter belongs to one container that lives.                          *)
OwnedInv ==
  /\ \A p \in Places : ~Alive(p) => registry[p] = {}
  /\ \A p, q \in Places : \A a \in registry[p] : a \in registry[q] => p = q

(* The last counter is one of all; an entry for a living container is in   *)
(* its registry, is the only one of its thread, and of no other thread.    *)
CacheInv ==
  /\ \A t \in Threads : last[t].slot # None => last[t] \in all[t]
  /\ \A t \in Threads, p \in Places : \A e \in all[t] :
       Alive(p) /\ e.id = id[p] => e.slot \in registry[p]
  /\ \A t \in Threads : \A e, f \in all[t] : e.id = f.id => e = f
  /\ \A t, u \in Threads, p \in Places : \A e \in all[t], f \in all[u] :
       Alive(p) /\ e.id = id[p] /\ f.id = id[p] /\ e.slot = f.slot => t = u

(* A guard pins the cached counter of its thread, or one that no cache has *)
(* any more.                                                               *)
GuardInv ==
  \A g \in Guards : guard[g] # None =>
    /\ Alive(guard[g].of)
    /\ guard[g].slot \in registry[guard[g].of]
    /\ \A t \in Threads :
         guard[g].by = t =>
           [id |-> id[guard[g].of], slot |-> guard[g].slot] \in all[t]
    /\ guard[g].by = None =>
         \A t \in Threads : \A e \in all[t] :
           e.id = id[guard[g].of] => e.slot # guard[g].slot

IInv == TypeOK /\ IdsInv /\ OwnedInv /\ CacheInv /\ GuardInv

-----------------------------------------------------------------------------
(* The steps.                                                              *)

(* What is there, and what a guard is made of.                             *)
LEMMA Types ==
  ASSUME TypeOK
  PROVE  /\ \A p \in Places : Alive(p) <=> id[p] \in Ids
         /\ \A p \in Places : Alive(p) => id[p] \in Nat
         /\ \A t \in Threads : \A e \in all[t] : e \in Entry /\ e.slot # None
         /\ \A g \in Guards : guard[g] # None =>
              guard[g] \in [of : Places, slot : Addrs, by : Threads \cup {None}]
         /\ \A r \in [of : Places, slot : Addrs, by : Threads \cup {None}] : r # None
         /\ made \in Nat
  BY ReaderSlotsAssumption DEF TypeOK, Alive, Ids, Entry

(* A new container has an id that no other has, and no cache knows.        *)
LEMMA NewStep ==
  ASSUME IInv, NEW p \in Places, New(p)
  PROVE  IInv'
<1> USE DEF IInv
<1>1. /\ made < MaxMade /\ made' = made + 1 /\ made \in Nat
      /\ made % IdWidth = made /\ made \in Ids
  BY ReaderSlotsAssumption DEF New, TypeOK, Ids
<1>2. /\ id' = [id EXCEPT ![p] = made] /\ ~Alive(p)
      /\ registry' = registry /\ last' = last /\ all' = all /\ guard' = guard
  BY <1>1 DEF New
<1>3. /\ id'[p] = made /\ Alive(p)'
      /\ \A q \in Places : q # p => id'[q] = id[q] /\ Alive(q)' = Alive(q)
  BY <1>1, <1>2, ReaderSlotsAssumption DEF TypeOK, Alive
<1>4. TypeOK'
  BY <1>1, <1>2, ReaderSlotsAssumption DEF TypeOK
<1>5. IdsInv'
  <2>1. \A q \in Places : Alive(q)' => id'[q] < made'
    BY <1>1, <1>3, Types DEF IdsInv
  <2>2. \A q \in Places : q # p => id'[q] # made
    BY <1>1, <1>3, Types DEF IdsInv, Alive
  <2>3. \A t \in Threads : \A e \in all'[t] : e.id < made'
    BY <1>1, <1>2, Types DEF IdsInv, Entry, Ids
  <2> QED
    BY <1>2, <1>3, <2>1, <2>2, <2>3 DEF IdsInv
<1>6. OwnedInv'
  BY <1>2, <1>3 DEF OwnedInv
<1>7. \A t \in Threads : \A e \in all[t] : e.id # made
  BY <1>1, Types DEF IdsInv, Entry, Ids
<1>8. CacheInv'
  BY <1>2, <1>3, <1>7 DEF CacheInv
<1>9. GuardInv'
  <2>1. \A g \in Guards : guard[g] # None => guard[g].of \in Places /\ guard[g].of # p
    BY <1>2, Types DEF GuardInv
  <2> QED
    BY <1>2, <1>3, <2>1 DEF GuardInv
<1> QED
  BY <1>4, <1>5, <1>6, <1>8, <1>9

(* A container that moves takes its id and its counters along; one that is *)
(* dropped leaves entries that nobody will look for.                       *)
LEMMA MoveStep ==
  ASSUME IInv, NEW p \in Places, NEW q \in Places, Move(p, q)
  PROVE  IInv'
<1> USE DEF IInv
<1>1. /\ made' = made /\ last' = last /\ all' = all /\ guard' = guard
      /\ Alive(p) /\ ~Alive(q) /\ p # q
      /\ \A g \in Guards : guard[g] # None => guard[g].of # p
  BY DEF Move, Borrowed
<1>2. /\ id'[q] = id[p] /\ id'[p] = None /\ registry'[q] = registry[p] /\ registry'[p] = {}
      /\ \A r \in Places : r # p /\ r # q => id'[r] = id[r] /\ registry'[r] = registry[r]
      /\ registry[q] = {}
  BY <1>1 DEF Move, TypeOK, OwnedInv
<1>3. /\ Alive(q)' /\ ~Alive(p)'
      /\ \A r \in Places : r # p /\ r # q => Alive(r)' = Alive(r)
  BY <1>1, <1>2 DEF Alive
<1>4. TypeOK'
  BY <1>1 DEF Move, TypeOK
<1>5. IdsInv'
  BY <1>1, <1>2, <1>3 DEF IdsInv, Alive
<1>6. OwnedInv'
  BY <1>1, <1>2, <1>3 DEF OwnedInv
<1>7. CacheInv'
  BY <1>1, <1>2, <1>3 DEF CacheInv
<1>8. GuardInv'
  <2>1. \A g \in Guards : guard[g] # None =>
          guard[g].of \in Places /\ guard[g].of # p /\ guard[g].of # q
    BY <1>1, Types DEF GuardInv
  <2> QED
    BY <1>1, <1>2, <1>3, <2>1 DEF GuardInv
<1> QED
  BY <1>4, <1>5, <1>6, <1>7, <1>8

LEMMA DropStep ==
  ASSUME IInv, NEW p \in Places, Drop(p)
  PROVE  IInv'
<1> USE DEF IInv
<1>1. /\ made' = made /\ last' = last /\ all' = all /\ guard' = guard
      /\ \A g \in Guards : guard[g] # None => guard[g].of # p
  BY DEF Drop, Borrowed
<1>2. /\ id'[p] = None /\ registry'[p] = {} /\ ~Alive(p)'
      /\ \A r \in Places : r # p =>
           id'[r] = id[r] /\ registry'[r] = registry[r] /\ Alive(r)' = Alive(r)
  BY <1>1 DEF Drop, TypeOK, Alive
<1>3. TypeOK'
  BY <1>1 DEF Drop, TypeOK
<1>4. IdsInv'
  BY <1>1, <1>2 DEF IdsInv, Alive
<1>5. OwnedInv'
  BY <1>1, <1>2 DEF OwnedInv
<1>6. CacheInv'
  BY <1>1, <1>2 DEF CacheInv
<1>7. GuardInv'
  <2>1. \A g \in Guards : guard[g] # None => guard[g].of \in Places /\ guard[g].of # p
    BY <1>1, Types
  <2> QED
    BY <1>1, <1>2, <2>1 DEF GuardInv
<1> QED
  BY <1>3, <1>4, <1>5, <1>6, <1>7

(* A guard for a counter that the thread has cached.                       *)
LEMMA FoundStep ==
  ASSUME IInv, NEW t \in Threads, NEW p \in Places, NEW g \in Guards,
         FoundLast(t, p, g) \/ FoundAll(t, p, g)
  PROVE  IInv'
<1> USE DEF IInv
<1>1. PICK e \in all[t] :
        /\ e.id = id[p]
        /\ last' = [last EXCEPT ![t] = e]
        /\ Pin(t, g, p, e.slot)
  <2>1. CASE FoundLast(t, p, g)
    <3>1. last[t] \in all[t] /\ last[t].id = id[p] /\ Pin(t, g, p, last[t].slot)
      BY <2>1 DEF FoundLast, InLast, CacheInv
    <3>2. last' = [last EXCEPT ![t] = last[t]]
      BY <2>1 DEF FoundLast, TypeOK
    <3> QED
      BY <3>1, <3>2
  <2>2. CASE FoundAll(t, p, g)
    BY <2>2 DEF FoundAll
  <2> QED
    BY <2>1, <2>2
<1>2. made' = made /\ id' = id /\ registry' = registry /\ all' = all /\ Alive(p)
  BY DEF FoundLast, FoundAll
<1>3. e \in Entry /\ e.slot \in registry[p] /\ e.slot \in Addrs
  BY <1>1, <1>2, Types DEF CacheInv, Entry
<1>4. /\ guard'[g] = [of |-> p, slot |-> e.slot, by |-> t]
      /\ \A h \in Guards : h # g => guard'[h] = guard[h]
      /\ guard' \in [Guards -> [of : Places, slot : Addrs, by : Threads \cup {None}] \cup {None}]
  BY <1>1, <1>3 DEF Pin, TypeOK
<1>5. TypeOK'
  BY <1>1, <1>2, <1>3, <1>4 DEF TypeOK
<1>6. IdsInv' /\ OwnedInv'
  BY <1>2 DEF IdsInv, OwnedInv, Alive
<1>7. CacheInv'
  <2>1. \A u \in Threads : last'[u].slot # None => last'[u] \in all[u]
    BY <1>1 DEF CacheInv, TypeOK
  <2> QED
    BY <1>2, <2>1 DEF CacheInv, Alive
<1>8. GuardInv'
  <2>1. [id |-> id[p], slot |-> e.slot] = e
    BY <1>1, <1>3 DEF Entry
  <2>2. t # None
    BY ReaderSlotsAssumption
  <2> QED
    BY <1>2, <1>3, <1>4, <2>1, <2>2 DEF GuardInv, Alive
<1> QED
  BY <1>5, <1>6, <1>7, <1>8

(* A new counter is nobody else's, and the thread had none.                *)
LEMMA RegisterStep ==
  ASSUME IInv, NEW t \in Threads, NEW p \in Places, NEW g \in Guards,
         Register(t, p, g)
  PROVE  IInv'
<1> USE DEF IInv
<1>1. PICK a \in Addrs :
        /\ ~Allocated(a)
        /\ registry' = [registry EXCEPT ![p] = @ \cup {a}]
        /\ all' = [all EXCEPT ![t] = @ \cup {[id |-> id[p], slot |-> a]}]
        /\ last' = [last EXCEPT ![t] = [id |-> id[p], slot |-> a]]
        /\ Pin(t, g, p, a)
  BY DEF Register
<1>2. PICK e : e = [id |-> id[p], slot |-> a]
  OBVIOUS
<1>3. made' = made /\ id' = id /\ Alive(p) /\ \A f \in all[t] : f.id # id[p]
  BY DEF Register, InAll
<1>4. e \in Entry /\ e.id = id[p] /\ e.slot = a /\ a # None
  BY <1>2, <1>3, Types, ReaderSlotsAssumption DEF Entry
<1>5. /\ registry'[p] = registry[p] \cup {a}
      /\ \A q \in Places : q # p => registry'[q] = registry[q]
      /\ \A q \in Places : a \notin registry[q]
      /\ all'[t] = all[t] \cup {e} /\ last'[t] = e
      /\ \A u \in Threads : u # t => all'[u] = all[u] /\ last'[u] = last[u]
  BY <1>1, <1>2 DEF TypeOK, Allocated
<1>6. /\ guard'[g] = [of |-> p, slot |-> a, by |-> t]
      /\ \A h \in Guards : h # g => guard'[h] = guard[h]
      /\ guard' \in [Guards -> [of : Places, slot : Addrs, by : Threads \cup {None}] \cup {None}]
  BY <1>1 DEF Pin, TypeOK
<1>7. TypeOK'
  BY <1>1, <1>2, <1>3, <1>4, <1>6 DEF TypeOK
<1>8. \A q \in Places : Alive(q)' = Alive(q)
  BY <1>3 DEF Alive
<1>9. IdsInv'
  <2>1. \A u \in Threads : \A f \in all'[u] : f.id < made
    BY <1>3, <1>4, <1>5 DEF IdsInv
  <2> QED
    BY <1>3, <1>8, <2>1 DEF IdsInv
<1>10. OwnedInv'
  BY <1>3, <1>5, <1>8 DEF OwnedInv
<1>11. CacheInv'
  <2>1. \A u \in Threads : last'[u].slot # None => last'[u] \in all'[u]
    BY <1>5 DEF CacheInv
  <2>2. ASSUME NEW u \in Threads, NEW q \in Places, NEW f \in all'[u], Alive(q), f.id = id[q]
        PROVE  f.slot \in registry'[q]
    <3>1. CASE f \in all[u]
      BY <1>5, <2>2, <3>1 DEF CacheInv
    <3>2. CASE f \notin all[u]
      <4>1. f = e /\ q = p
        BY <1>3, <1>4, <1>5, <2>2, <3>2 DEF IdsInv
      <4> QED
        BY <1>4, <1>5, <4>1
    <3> QED
      BY <3>1, <3>2
  <2>3. ASSUME NEW u \in Threads, NEW f \in all'[u], NEW h \in all'[u], f.id = h.id
        PROVE  f = h
    BY <1>3, <1>4, <1>5, <2>3 DEF CacheInv
  <2>4. ASSUME NEW u \in Threads, NEW v \in Threads, NEW q \in Places,
               NEW f \in all'[u], NEW h \in all'[v],
               Alive(q), f.id = id[q], h.id = id[q], f.slot = h.slot
        PROVE  u = v
    <3>1. CASE f \in all[u] /\ h \in all[v]
      BY <2>4, <3>1 DEF CacheInv
    <3>2. \A w \in Threads : \A d \in all[w] : d.id = id[q] => d.slot # a
      BY <1>5, <2>4 DEF CacheInv
    <3>3. CASE f \notin all[u] \/ h \notin all[v]
      BY <1>4, <1>5, <2>4, <3>2, <3>3
    <3> QED
      BY <3>1, <3>3
  <2> QED
    BY <1>3, <1>8, <2>1, <2>2, <2>3, <2>4 DEF CacheInv
<1>12. GuardInv'
  <2> SUFFICES ASSUME NEW h \in Guards, guard'[h] # None
               PROVE  /\ Alive(guard'[h].of)
                      /\ guard'[h].slot \in registry'[guard'[h].of]
                      /\ \A u \in Threads : guard'[h].by = u =>
                           [id |-> id[guard'[h].of], slot |-> guard'[h].slot] \in all'[u]
                      /\ guard'[h].by = None =>
                           \A u \in Threads : \A f \in all'[u] :
                             f.id = id[guard'[h].of] => f.slot # guard'[h].slot
    BY <1>3 DEF GuardInv, Alive
  <2>1. CASE h = g
    <3>1. t # None
      BY ReaderSlotsAssumption
    <3> QED
      BY <1>2, <1>3, <1>5, <1>6, <2>1, <3>1
  <2>2. CASE h # g
    <3>1. guard'[h] = guard[h] /\ guard[h] # None /\ guard[h].of \in Places
      BY <1>6, <2>2, Types
    <3>2. guard[h].slot # a /\ Alive(guard[h].of) /\ guard[h].slot \in registry[guard[h].of]
      BY <1>5, <3>1 DEF GuardInv
    <3>3. registry[guard[h].of] \subseteq registry'[guard[h].of]
      BY <1>5, <3>1
    <3>4. \A u \in Threads : guard[h].by = u =>
            [id |-> id[guard[h].of], slot |-> guard[h].slot] \in all'[u]
      BY <1>5, <3>1 DEF GuardInv
    <3>5. ASSUME guard[h].by = None, NEW u \in Threads, NEW f \in all'[u],
                 f.id = id[guard[h].of]
          PROVE  f.slot # guard[h].slot
      <4>1. f \in all[u] \/ f = e
        BY <1>5, <3>5
      <4>2. f \in all[u] => f.slot # guard[h].slot
        BY <3>1, <3>5 DEF GuardInv
      <4> QED
        BY <1>4, <3>2, <4>1, <4>2
    <3> QED
      BY <3>1, <3>2, <3>3, <3>4, <3>5
  <2> QED
    BY <2>1, <2>2
<1> QED
  BY <1>7, <1>9, <1>10, <1>11, <1>12

LEMMA DropGuardStep ==
  ASSUME IInv, NEW g \in Guards, DropGuard(g)
  PROVE  IInv'
<1> USE DEF IInv
<1>1. /\ made' = made /\ id' = id /\ registry' = registry /\ last' = last /\ all' = all
      /\ guard' = [guard EXCEPT ![g] = None]
  BY DEF DropGuard
<1>2. TypeOK' /\ IdsInv' /\ OwnedInv' /\ CacheInv'
  BY <1>1 DEF TypeOK, IdsInv, OwnedInv, CacheInv, Alive
<1>3. \A h \in Guards : guard'[h] # None => guard'[h] = guard[h]
  BY <1>1 DEF TypeOK
<1>4. GuardInv'
  BY <1>1, <1>3 DEF GuardInv, Alive
<1> QED
  BY <1>2, <1>4

(* The guards of a thread that ends pin counters that nobody has cached.   *)
LEMMA ThreadEndStep ==
  ASSUME IInv, NEW t \in Threads, ThreadEnd(t)
  PROVE  IInv'
<1> USE DEF IInv
<1>1. /\ made' = made /\ id' = id /\ registry' = registry
      /\ all'[t] = {} /\ last'[t] = Unset
      /\ \A u \in Threads : u # t => all'[u] = all[u] /\ last'[u] = last[u]
  BY DEF ThreadEnd, TypeOK
<1>2. ASSUME NEW h \in Guards
      PROVE  /\ guard[h] = None => guard'[h] = None
             /\ guard[h] # None /\ guard[h].by # t => guard'[h] = guard[h]
             /\ guard[h] # None /\ guard[h].by = t =>
                  /\ guard'[h] \in [of : Places, slot : Addrs, by : Threads \cup {None}]
                  /\ guard'[h].of = guard[h].of /\ guard'[h].slot = guard[h].slot
                  /\ guard'[h].by = None
  BY Types DEF ThreadEnd
<1>3. TypeOK'
  <2>1. guard' \in [Guards -> [of : Places, slot : Addrs, by : Threads \cup {None}] \cup {None}]
    <3>1. \A h \in Guards : guard'[h] \in [of : Places, slot : Addrs, by : Threads \cup {None}] \cup {None}
      BY <1>2, Types
    <3> QED
      BY <3>1 DEF ThreadEnd
  <2>2. all' \in [Threads -> SUBSET Entry] /\ last' \in [Threads -> Entry \cup {Unset}]
    BY DEF ThreadEnd, TypeOK
  <2> QED
    BY <1>1, <2>1, <2>2 DEF TypeOK
<1>4. IdsInv' /\ OwnedInv'
  BY <1>1 DEF IdsInv, OwnedInv, Alive
<1>5. CacheInv'
  <2>1. \A u \in Threads : all'[u] \subseteq all[u]
    BY <1>1
  <2>2. \A u \in Threads : last'[u].slot # None => last'[u] \in all'[u]
    BY <1>1 DEF CacheInv, Unset
  <2> QED
    BY <1>1, <2>1, <2>2 DEF CacheInv, Alive
<1>6. GuardInv'
  <2> SUFFICES ASSUME NEW h \in Guards, guard'[h] # None
               PROVE  /\ Alive(guard'[h].of)
                      /\ guard'[h].slot \in registry[guard'[h].of]
                      /\ \A u \in Threads : guard'[h].by = u =>
                           [id |-> id[guard'[h].of], slot |-> guard'[h].slot] \in all'[u]
                      /\ guard'[h].by = None =>
                           \A u \in Threads : \A f \in all'[u] :
                             f.id = id[guard'[h].of] => f.slot # guard'[h].slot
    BY <1>1 DEF GuardInv, Alive
  <2>1. /\ guard[h] # None /\ guard'[h].of = guard[h].of /\ guard'[h].slot = guard[h].slot
        /\ guard[h].of \in Places
        /\ Alive(guard[h].of) /\ guard[h].slot \in registry[guard[h].of]
    BY <1>2, Types DEF GuardInv
  <2>2. CASE guard[h].by # t
    <3>1. guard'[h] = guard[h]
      BY <1>2, <2>1, <2>2
    <3> QED
      BY <1>1, <2>1, <2>2, <3>1 DEF GuardInv
  <2>3. CASE guard[h].by = t
    <3>1. PICK e \in all[t] : e.id = id[guard[h].of] /\ e.slot = guard[h].slot
      BY <2>1, <2>3 DEF GuardInv
    <3>2. \A u \in Threads : \A f \in all'[u] :
            f.id = id[guard[h].of] => f.slot # guard[h].slot
      BY <1>1, <2>1, <3>1 DEF CacheInv
    <3>3. guard'[h].by = None /\ None \notin Threads
      BY <1>2, <2>1, <2>3, ReaderSlotsAssumption
    <3> QED
      BY <2>1, <3>2, <3>3
  <2> QED
    BY <2>2, <2>3
<1> QED
  BY <1>3, <1>4, <1>5, <1>6

-----------------------------------------------------------------------------
(* The theorems.                                                           *)

(* The invariant holds, whatever is created, moved, dropped and ended.     *)
THEOREM SlotsInvariance == Spec => []IInv
<1>1. Init => IInv
  BY ReaderSlotsAssumption DEF Init, IInv, TypeOK, IdsInv, OwnedInv, CacheInv, GuardInv, Alive, Unset
<1>2. IInv /\ [Next]_vars => IInv'
  <2>1. IInv /\ UNCHANGED vars => IInv'
    BY DEF vars, IInv, TypeOK, IdsInv, OwnedInv, CacheInv, GuardInv, Alive
  <2> QED
    BY <2>1, NewStep, MoveStep, DropStep, FoundStep, RegisterStep, DropGuardStep,
       ThreadEndStep DEF Next
<1> QED
  BY <1>1, <1>2, PTL DEF Spec

(* Every variable has its type; no guard pins the null pointer.            *)
THEOREM SlotsTypes == Spec => []TypeOK
<1>1. IInv => TypeOK
  BY DEF IInv
<1> QED
  BY <1>1, SlotsInvariance, PTL

(* Whatever was cached before, and whatever addresses have been used       *)
(* again: a guard pins a counter that its container owns and scans.        *)
THEOREM NeverDangling == Spec => []GuardsScanned
<1>1. IInv => GuardsScanned
  BY DEF IInv, GuardInv, GuardsScanned
<1> QED
  BY <1>1, SlotsInvariance, PTL

(* A thread has one counter in a container, and has it to itself.          *)
THEOREM NeverShared == Spec => []PrivateCounters
<1>1. IInv => PrivateCounters
  <2> SUFFICES ASSUME IInv, NEW g \in Guards, NEW h \in Guards,
                      guard[g] # None, guard[h] # None,
                      guard[g].of = guard[h].of, guard[h].by # None
               PROVE  guard[g].by = guard[h].by <=> guard[g].slot = guard[h].slot
    BY DEF PrivateCounters
  <2>1. PICK p \in Places, t \in Threads :
          guard[h].of = p /\ guard[g].of = p /\ guard[h].by = t /\ Alive(p)
    BY Types DEF IInv, GuardInv
  <2>2. [id |-> id[p], slot |-> guard[h].slot] \in all[t]
    BY <2>1 DEF IInv, GuardInv
  <2>3. guard[g].by = None => guard[g].slot # guard[h].slot /\ guard[g].by # t
    BY <2>1, <2>2, ReaderSlotsAssumption DEF IInv, GuardInv
  <2>4. ASSUME NEW u \in Threads, guard[g].by = u
        PROVE  u = t <=> guard[g].slot = guard[h].slot
    <3>1. [id |-> id[p], slot |-> guard[g].slot] \in all[u]
      BY <2>1, <2>4 DEF IInv, GuardInv
    <3> QED
      BY <2>1, <2>2, <3>1 DEF IInv, CacheInv
  <2>5. guard[g].by \in Threads \cup {None}
    BY Types DEF IInv
  <2> QED
    BY <2>1, <2>3, <2>4, <2>5
<1> QED
  BY <1>1, SlotsInvariance, PTL

=============================================================================
