-------------------------- MODULE SlotMemoryProofs --------------------------
(***************************************************************************)
(* SlotMemory has no data race, and implements RwLock, for any number of   *)
(* threads, guards and accesses.  The argument: a SeqCst load of a         *)
(* location whose last write is SeqCst returns that write.  So a reader    *)
(* that finds the flag down has seen the last Lower and knows all writes,  *)
(* and nobody is in a write; a scan that finds a zero has seen the last    *)
(* value of that counter, which passes on all that was read through it, by *)
(* whatever thread, and nobody has a guard of it.                          *)
(***************************************************************************)
EXTENDS SlotMemory, FiniteSetTheorems, TLAPS

Know(t)   == clock[t].know
Passes(l) == M!Last(l).clock.know
Value(l)  == M!Last(l).val

Writes     == {a \in done : a.kind = "write"}
ReadsOf(s) == {a \in done : a.kind = "read" /\ a.slot = s}
PinsOf(s)  == {g \in Guards : Live(g) /\ guard[g].slot = s}
Pending(s) == IF pc[s] \in {"look", "undo"} THEN 1 ELSE 0

(* The mutexes are held in the phases of a write, and of a scan.           *)
LockInv ==
  /\ \A t \in Threads :
       pc[t] \in {"raise", "registry", "scan", "write", "unlock"} <=> writer = t
  /\ \A t \in Threads : pc[t] = "scan" <=> scanner = t
  /\ scanner = None => todo = {}

(* The flag is up from Raise to Lower, and every write to it is SeqCst.    *)
FlagInv ==
  /\ \A t \in Threads : pc[t] \in {"registry", "scan", "write"} => Value(Flag) = TRUE
  /\ Value(Flag) = TRUE => \E t \in Threads : pc[t] \in {"registry", "scan", "write"}
  /\ M!Last(Flag).order = "SeqCst"

(* A counter is the number of its guards, and of pins under way; it is     *)
(* only raised from zero by a SeqCst write.                                *)
CountOf(s) ==
  /\ Value(s) = Cardinality(PinsOf(s)) + Pending(s)
  /\ \A i \in 1 .. M!Latest(s) - 1 : hist[s][i].val = 0 => hist[s][i + 1].order = "SeqCst"

CountInv == \A s \in Threads : CountOf(s)

(* A slot that is not in the registry has never been used.                 *)
RegisteredInv ==
  \A s \in Threads \ registry :
    /\ pc[s] \notin {"pin", "look", "undo"}
    /\ PinsOf(s) = {}
    /\ ReadsOf(s) = {}

(* Writes are known to the next writer, and to whoever sees the flag down. *)
WritesInv ==
  /\ writer = None => Writes \subseteq passed["write"].know
  /\ \A t \in Threads : writer = t => Writes \subseteq Know(t)
  /\ Value(Flag) = FALSE => Writes \subseteq Passes(Flag)
  /\ \A g \in Guards : Live(g) => Writes \subseteq Know(guard[g].by)

(* A read is known to the thread that has the guard, or to whoever sees    *)
(* the latest value of the counter.                                        *)
ReadsInv ==
  \A s \in Threads : \A a \in ReadsOf(s) :
    a \in Passes(s) \/ \E g \in PinsOf(s) : a \in Know(guard[g].by)

(* Nobody uses a slot that t has found to be zero, and t knows all that    *)
(* was read through it.                                                    *)
Quiet(t, s) == PinsOf(s) = {} /\ ReadsOf(s) \subseteq Know(t)

ScanInv ==
  \A t \in Threads :
    /\ pc[t] = "scan" => \A s \in registry \ todo : Quiet(t, s)
    /\ pc[t] = "write" => \A s \in Threads : Quiet(t, s)

IInv ==
  /\ TypeOK /\ LockInv /\ FlagInv /\ CountInv /\ RegisteredInv
  /\ WritesInv /\ ReadsInv /\ ScanInv

-----------------------------------------------------------------------------
(* What the memory operations do.                                          *)

(* Clocks are joined to clocks.                                            *)
LEMMA ClockType ==
  /\ M!Nothing \in M!Clock
  /\ \A c, d \in M!Clock : M!Join(c, d) \in M!Clock
  /\ \A c \in M!Clock, l \in Locs, n \in Nat \ {0} :
       /\ [c EXCEPT !.view[l] = n] \in M!Clock
       /\ [c EXCEPT !.view[l] = n].know = c.know
<1>1. M!Nothing \in M!Clock
  BY DEF M!Nothing, M!Clock
<1>2. ASSUME NEW c \in M!Clock, NEW d \in M!Clock
      PROVE  M!Join(c, d) \in M!Clock
  <2>1. \A l \in Locs : c.view[l] \in Nat \ {0} /\ d.view[l] \in Nat \ {0}
    BY DEF M!Clock
  <2> QED
    BY <2>1 DEF M!Clock, M!Join, M!Later
<1>3. ASSUME NEW c \in M!Clock, NEW l \in Locs, NEW n \in Nat \ {0}
      PROVE  /\ [c EXCEPT !.view[l] = n] \in M!Clock
             /\ [c EXCEPT !.view[l] = n].know = c.know
  BY DEF M!Clock
<1> QED
  BY <1>1, <1>2, <1>3

(* What is in the history of a location.                                   *)
LEMMA HistoryType ==
  ASSUME TypeOK, NEW l \in Locs
  PROVE  /\ M!Latest(l) \in Nat \ {0}
         /\ DOMAIN hist[l] = 1 .. M!Latest(l)
         /\ \A i \in DOMAIN hist[l] :
              hist[l][i].clock \in M!Clock /\ hist[l][i].order \in M!Orders
         /\ l # Flag => \A i \in DOMAIN hist[l] : hist[l][i].val \in Nat
         /\ l = Flag => \A i \in DOMAIN hist[l] : hist[l][i].val \in BOOLEAN
<1>1. ASSUME NEW V, hist[l] \in Seq(M!Message(V)) \ {<<>>}
      PROVE  /\ M!Latest(l) \in Nat \ {0}
             /\ DOMAIN hist[l] = 1 .. M!Latest(l)
             /\ \A i \in DOMAIN hist[l] : hist[l][i] \in M!Message(V)
  BY <1>1 DEF M!Latest
<1>2. CASE l = Flag
  BY <1>1, <1>2 DEF TypeOK, M!Message
<1>3. CASE l # Flag
  BY <1>1, <1>3 DEF TypeOK, Locs, M!Message
<1> QED
  BY <1>2, <1>3

(* A SeqCst load of a location returns its last value if that was written  *)
(* by a SeqCst access.                                                     *)
LEMMA LoadEffect ==
  ASSUME TypeOK, NEW t \in Threads, NEW l \in Locs,
         NEW i \in DOMAIN hist[l], M!Load(t, l, "SeqCst", i)
  PROVE  /\ hist' = hist
         /\ clock' \in [Threads -> M!Clock]
         /\ clock'[t].know = clock[t].know \cup hist[l][i].clock.know
         /\ \A u \in Threads : u # t => clock'[u] = clock[u]
         /\ \A j \in i + 1 .. M!Latest(l) : hist[l][j].order # "SeqCst"
<1> DEFINE c == M!Join(clock[t], hist[l][i].clock)
<1>1. clock[t] \in M!Clock /\ hist[l][i].clock \in M!Clock /\ i \in Nat \ {0}
  BY HistoryType DEF TypeOK
<1>2. c \in M!Clock /\ [c EXCEPT !.view[l] = i] \in M!Clock
  BY <1>1, ClockType
<1>3. clock' = [clock EXCEPT ![t] = [c EXCEPT !.view[l] = i]]
  BY DEF M!Load, M!Acquired, M!Acquires
<1>4. [c EXCEPT !.view[l] = i].know = clock[t].know \cup hist[l][i].clock.know
  BY DEF M!Join
<1> QED
  BY <1>2, <1>3, <1>4 DEF TypeOK, M!Load, M!Readable

(* A new message is the last one.                                          *)
LEMMA PutEffect ==
  ASSUME TypeOK, NEW l \in Locs, NEW v, NEW o, NEW c, M!Put(l, v, o, c)
  PROVE  /\ hist' = [k \in Locs |-> hist'[k]]
         /\ hist'[l] = Append(hist[l],
                          [val |-> v, order |-> o, clock |-> c])
         /\ \A k \in Locs : k # l => hist'[k] = hist[k]
         /\ M!Latest(l)' = M!Latest(l) + 1
         /\ M!Last(l)' = [val |-> v, order |-> o, clock |-> c]
         /\ \A i \in 1 .. M!Latest(l) : hist'[l][i] = hist[l][i]
<1> DEFINE m == [val |-> v, order |-> o, clock |-> c]
<1>1. hist' = [hist EXCEPT ![l] = Append(hist[l], m)]
  BY DEF M!Put
<1>2. hist = [k \in Locs |-> hist[k]]
  BY DEF TypeOK
<1>3. hist'[l] = Append(hist[l], m) /\ \A k \in Locs : k # l => hist'[k] = hist[k]
  BY <1>1, <1>2
<1>4. hist' = [k \in Locs |-> hist'[k]]
  BY <1>1, <1>2
<1>5. \E S : hist[l] \in Seq(S)
  BY DEF TypeOK, Locs
<1>6. /\ Len(Append(hist[l], m)) = Len(hist[l]) + 1
      /\ Append(hist[l], m)[Len(hist[l]) + 1] = m
      /\ \A i \in 1 .. Len(hist[l]) : Append(hist[l], m)[i] = hist[l][i]
  BY <1>5
<1> QED
  BY <1>3, <1>4, <1>6 DEF M!Latest, M!Last

(* Counting up or down passes on what the last value passed on; with a     *)
(* release also what the thread knows.                                     *)
LEMMA AddEffect ==
  ASSUME TypeOK, NEW t \in Threads, NEW s \in Threads, NEW n \in {1, -1},
         NEW o \in {"SeqCst", "Release"}, Value(s) + n \in Nat,
         M!Add(t, s, o, n)
  PROVE  /\ hist' = [l \in Locs |-> hist'[l]]
         /\ hist'[s] \in Seq(M!Message(Nat)) \ {<<>>}
         /\ \A l \in Locs : l # s => hist'[l] = hist[l]
         /\ M!Latest(s)' = M!Latest(s) + 1
         /\ \A i \in 1 .. M!Latest(s) : hist'[s][i] = hist[s][i]
         /\ Value(s)' = Value(s) + n
         /\ M!Last(s)'.order = o
         /\ clock' \in [Threads -> M!Clock]
         /\ clock[t].know \subseteq clock'[t].know
         /\ \A u \in Threads : u # t => clock'[u] = clock[u]
         /\ Passes(s) \cup clock[t].know \subseteq Passes(s)'
<1> DEFINE a == M!Acquired(t, o, M!Last(s))
           c == [a EXCEPT !.view[s] = M!Latest(s) + 1]
           r == M!Join(M!Last(s).clock, c)
<1>1. /\ s \in Locs /\ s # Flag
      /\ M!Latest(s) \in Nat \ {0} /\ M!Last(s).clock \in M!Clock
      /\ clock[t] \in M!Clock /\ Value(s) \in Nat
  <2>1. s \in Locs /\ s # Flag
    BY SlotMemoryAssumption DEF Locs
  <2>2. M!Latest(s) \in Nat \ {0} /\ M!Latest(s) \in DOMAIN hist[s]
    BY <2>1, HistoryType
  <2> QED
    BY <2>1, <2>2, HistoryType DEF TypeOK, M!Last, Value
<1>2. a \in M!Clock /\ clock[t].know \subseteq a.know
  BY <1>1, ClockType DEF M!Acquired, M!Join
<1>3. c \in M!Clock /\ c.know = a.know
  <2>1. M!Latest(s) + 1 \in Nat \ {0}
    BY <1>1
  <2> QED
    BY <1>1, <1>2, <2>1, ClockType
<1>4. r \in M!Clock /\ r.know = Passes(s) \cup c.know
  BY <1>1, <1>3, ClockType DEF M!Join, Passes
<1>5. /\ clock' = [clock EXCEPT ![t] = c]
      /\ M!Put(s, M!Last(s).val + n, o, r)
  BY DEF M!Add, M!Released, M!Releases
<1>6. /\ hist' = [l \in Locs |-> hist'[l]]
      /\ hist'[s] = Append(hist[s],
            [val |-> Value(s) + n, order |-> o, clock |-> r])
      /\ \A l \in Locs : l # s => hist'[l] = hist[l]
      /\ M!Latest(s)' = M!Latest(s) + 1
      /\ M!Last(s)' = [val |-> Value(s) + n, order |-> o, clock |-> r]
      /\ \A i \in 1 .. M!Latest(s) : hist'[s][i] = hist[s][i]
  BY <1>1, <1>5, PutEffect DEF Value
<1>7. hist'[s] \in Seq(M!Message(Nat)) \ {<<>>}
  <2>1. [val |-> Value(s) + n, order |-> o, clock |-> r] \in M!Message(Nat)
    BY <1>4 DEF M!Message, M!Orders
  <2>2. hist[s] \in Seq(M!Message(Nat))
    BY DEF TypeOK
  <2> QED
    BY <1>6, <2>1, <2>2
<1>8. Value(s)' = M!Last(s)'.val /\ Passes(s)' = M!Last(s)'.clock.know
  BY DEF Value, Passes
<1>9. /\ clock' \in [Threads -> M!Clock] /\ clock'[t] = c
      /\ \A u \in Threads : u # t => clock'[u] = clock[u]
  BY <1>3, <1>5 DEF TypeOK
<1>10. /\ Value(s)' = Value(s) + n
       /\ M!Last(s)'.order = o
       /\ Passes(s)' = r.know
  BY <1>6, <1>8
<1>11. Passes(s) \cup clock[t].know \subseteq Passes(s)'
  BY <1>2, <1>3, <1>4, <1>10
<1> QED
  BY <1>2, <1>3, <1>6, <1>7, <1>9, <1>10, <1>11

(* Writing the flag with SeqCst passes on all that the thread knows.       *)
LEMMA StoreEffect ==
  ASSUME TypeOK, NEW t \in Threads, NEW v \in BOOLEAN,
         M!Store(t, Flag, "SeqCst", v)
  PROVE  /\ hist' = [l \in Locs |-> hist'[l]]
         /\ hist'[Flag] \in Seq(M!Message(BOOLEAN)) \ {<<>>}
         /\ \A l \in Locs : l # Flag => hist'[l] = hist[l]
         /\ Value(Flag)' = v
         /\ M!Last(Flag)'.order = "SeqCst"
         /\ clock' \in [Threads -> M!Clock]
         /\ \A u \in Threads : clock'[u].know = clock[u].know
         /\ Passes(Flag)' = clock[t].know
<1> DEFINE c == [clock[t] EXCEPT !.view[Flag] = M!Latest(Flag) + 1]
<1>1. Flag \in Locs /\ M!Latest(Flag) \in Nat \ {0} /\ clock[t] \in M!Clock
  BY HistoryType DEF TypeOK, Locs
<1>2. c \in M!Clock /\ c.know = clock[t].know
  <2>1. M!Latest(Flag) + 1 \in Nat \ {0}
    BY <1>1
  <2> QED
    BY <1>1, <2>1, ClockType
<1>3. clock' = [clock EXCEPT ![t] = c] /\ M!Put(Flag, v, "SeqCst", c)
  BY DEF M!Store, M!Released, M!Releases
<1>4. /\ hist' = [l \in Locs |-> hist'[l]]
      /\ hist'[Flag] = Append(hist[Flag], [val |-> v, order |-> "SeqCst", clock |-> c])
      /\ \A l \in Locs : l # Flag => hist'[l] = hist[l]
      /\ M!Last(Flag)' = [val |-> v, order |-> "SeqCst", clock |-> c]
  BY <1>1, <1>3, PutEffect
<1>5. hist'[Flag] \in Seq(M!Message(BOOLEAN)) \ {<<>>}
  <2>1. [val |-> v, order |-> "SeqCst", clock |-> c] \in M!Message(BOOLEAN)
    BY <1>2 DEF M!Message, M!Orders
  <2>2. hist[Flag] \in Seq(M!Message(BOOLEAN))
    BY DEF TypeOK
  <2> QED
    BY <1>4, <2>1, <2>2
<1>6. Value(Flag)' = M!Last(Flag)'.val /\ Passes(Flag)' = M!Last(Flag)'.clock.know
  BY DEF Value, Passes
<1>7. clock' \in [Threads -> M!Clock] /\ \A u \in Threads : clock'[u].know = clock[u].know
  BY <1>2, <1>3 DEF TypeOK
<1>8. Value(Flag)' = v
  <2>1. [val |-> v, order |-> "SeqCst", clock |-> c].val = v
    OBVIOUS
  <2> QED
    BY <1>4, <1>6, <2>1, Zenon
<1>9. M!Last(Flag)'.order = "SeqCst" /\ Passes(Flag)' = clock[t].know
  <2>1. /\ [val |-> v, order |-> "SeqCst", clock |-> c].order = "SeqCst"
        /\ [val |-> v, order |-> "SeqCst", clock |-> c].clock = c
    OBVIOUS
  <2> QED
    BY <1>2, <1>4, <1>6, <2>1
<1> QED
  BY <1>4, <1>5, <1>7, <1>8, <1>9

(* Learning a clock, and an event of one's own.                            *)
LEMMA LearnEffect ==
  ASSUME TypeOK, NEW t \in Threads, NEW c \in M!Clock, M!Learn(t, c)
  PROVE  /\ hist' = hist
         /\ clock' \in [Threads -> M!Clock]
         /\ clock'[t].know = clock[t].know \cup c.know
         /\ \A u \in Threads : u # t => clock'[u] = clock[u]
<1>1. clock[t] \in M!Clock
  BY DEF TypeOK
<1>2. M!Join(clock[t], c) \in M!Clock
  BY <1>1, ClockType
<1> QED
  BY <1>2 DEF TypeOK, M!Learn, M!Join

LEMMA TouchEffect ==
  ASSUME TypeOK, NEW t \in Threads,
         NEW kind \in {"read", "write"}, NEW s \in Threads, Touch(t, kind, s)
  PROVE  \E a \in Access :
           /\ a.kind = kind /\ a.slot = s
           /\ done' = done \cup {a}
           /\ hist' = hist
           /\ clock' \in [Threads -> M!Clock]
           /\ clock'[t].know = clock[t].know \cup {a}
           /\ \A u \in Threads : u # t => clock'[u] = clock[u]
<1> DEFINE a == [kind |-> kind, slot |-> s, n |-> Cardinality(done)]
<1>1. Cardinality(done) \in Nat
  BY FS_CardinalityType DEF TypeOK
<1>2. a \in Access
  BY <1>1 DEF Access
<1>3. /\ done' = done \cup {a} /\ hist' = hist
      /\ clock' = [clock EXCEPT ![t].know = clock[t].know \cup {a}]
  BY DEF Touch, M!Happen
<1>4. [clock[t] EXCEPT !.know = clock[t].know \cup {a}] \in M!Clock
  BY <1>2 DEF TypeOK, M!Clock
<1>5. /\ clock' \in [Threads -> M!Clock]
      /\ clock'[t].know = clock[t].know \cup {a}
      /\ \A u \in Threads : u # t => clock'[u] = clock[u]
  BY <1>3, <1>4 DEF TypeOK, M!Clock
<1> QED
  BY <1>2, <1>3, <1>5

-----------------------------------------------------------------------------
(* Counting, and what a step leaves as it is.                              *)

(* The guards of a slot are finitely many.                                 *)
LEMMA PinsCounted ==
  ASSUME NEW s
  PROVE  /\ IsFiniteSet(PinsOf(s))
         /\ Cardinality(PinsOf(s)) \in Nat
         /\ Cardinality(PinsOf(s)) = 0 <=> PinsOf(s) = {}
         /\ \A g \in Guards \ PinsOf(s) :
              Cardinality(PinsOf(s) \cup {g}) = Cardinality(PinsOf(s)) + 1
         /\ \A g \in PinsOf(s) :
              Cardinality(PinsOf(s) \ {g}) = Cardinality(PinsOf(s)) - 1
<1>1. IsFiniteSet(PinsOf(s))
  BY SlotMemoryAssumption, FS_Subset DEF PinsOf
<1> QED
  BY <1>1, FS_CardinalityType, FS_EmptySet, FS_AddElement, FS_RemoveElement

(* Every counter has a last value.                                         *)
LEMMA ValueType ==
  ASSUME TypeOK, NEW l \in Locs
  PROVE  /\ M!Latest(l) \in Nat \ {0}
         /\ M!Latest(l) \in DOMAIN hist[l]
         /\ DOMAIN hist[l] = 1 .. M!Latest(l)
         /\ l # Flag => Value(l) \in Nat
         /\ l = Flag => Value(l) \in BOOLEAN
BY HistoryType DEF Value, M!Last

LEMMA FlagIsNoCounter ==
  Flag \in Locs /\ \A t \in Threads : t \in Locs /\ t # Flag
BY SlotMemoryAssumption DEF Locs

(* Locations whose history is the same have the same last value.           *)
LEMMA SameHistory ==
  ASSUME NEW l, hist'[l] = hist[l]
  PROVE  /\ M!Latest(l)' = M!Latest(l)
         /\ M!Last(l)' = M!Last(l)
         /\ Value(l)' = Value(l)
         /\ Passes(l)' = Passes(l)
BY DEF M!Latest, M!Last, Value, Passes

Grows == \A t \in Threads : Know(t) \subseteq Know(t)'

LEMMA CountKept ==
  ASSUME CountInv, NEW s \in Threads,
         hist'[s] = hist[s], PinsOf(s)' = PinsOf(s), Pending(s)' = Pending(s)
  PROVE  CountOf(s)'
<1>1. M!Latest(s)' = M!Latest(s) /\ Value(s)' = Value(s)
  BY SameHistory
<1> QED
  BY <1>1 DEF CountInv, CountOf

(* A counter that gets a new value, by SeqCst if it was zero.              *)
LEMMA CountAdded ==
  ASSUME TypeOK, CountInv, NEW s \in Threads,
         M!Latest(s)' = M!Latest(s) + 1,
         \A i \in 1 .. M!Latest(s) : hist'[s][i] = hist[s][i],
         Value(s) = 0 => M!Last(s)'.order = "SeqCst",
         Value(s)' = Cardinality(PinsOf(s)') + Pending(s)'
  PROVE  CountOf(s)'
<1>1. M!Latest(s) \in Nat \ {0}
  BY ValueType, FlagIsNoCounter
<1>2. ASSUME NEW i \in 1 .. M!Latest(s), hist'[s][i].val = 0
      PROVE  hist'[s][i + 1].order = "SeqCst"
  <2>1. hist[s][i].val = 0
    BY <1>2
  <2>2. CASE i = M!Latest(s)
    <3>1. Value(s) = 0
      BY <2>1, <2>2 DEF Value, M!Last
    <3>2. M!Last(s)' = hist'[s][M!Latest(s) + 1]
      BY DEF M!Last
    <3> QED
      BY <2>2, <3>1, <3>2
  <2>3. CASE i # M!Latest(s)
    <3>1. i \in 1 .. M!Latest(s) - 1 /\ i + 1 \in 1 .. M!Latest(s)
      BY <1>1, <2>3
    <3> QED
      BY <2>1, <3>1 DEF CountInv, CountOf
  <2> QED
    BY <2>2, <2>3
<1> QED
  BY <1>1, <1>2 DEF CountOf

LEMMA WritesKept ==
  ASSUME TypeOK, WritesInv, Grows, done' = done, guard' = guard, writer' = writer,
         passed'["write"] = passed["write"], hist'[Flag] = hist[Flag]
  PROVE  WritesInv'
<1>1. Value(Flag)' = Value(Flag) /\ Passes(Flag)' = Passes(Flag)
  BY SameHistory
<1>2. \A g \in Guards : Live(g)' = Live(g) /\ (Live(g) => guard[g].by \in Threads)
  BY DEF Live, TypeOK
<1>3. Writes' = Writes
  BY DEF Writes
<1> QED
  BY <1>1, <1>2, <1>3 DEF WritesInv, Grows

LEMMA ReadsKept ==
  ASSUME TypeOK, ReadsInv, Grows, done' = done, guard' = guard,
         \A s \in Threads : Passes(s) \subseteq Passes(s)'
  PROVE  ReadsInv'
<1>1. \A s \in Threads : PinsOf(s)' = PinsOf(s) /\ ReadsOf(s)' = ReadsOf(s)
  BY DEF PinsOf, Live, ReadsOf
<1>2. \A s \in Threads : \A g \in PinsOf(s) : guard[g].by \in Threads
  BY DEF PinsOf, Live, TypeOK
<1> QED
  BY <1>1, <1>2 DEF ReadsInv, Grows

(* What is quiet stays so, unless somebody gets a guard or reads.          *)
LEMMA QuietKept ==
  ASSUME Grows, NEW t \in Threads, NEW s \in Threads, Quiet(t, s),
         PinsOf(s)' \subseteq PinsOf(s), ReadsOf(s)' = ReadsOf(s)
  PROVE  Quiet(t, s)'
BY DEF Quiet, Grows

-----------------------------------------------------------------------------
(* The invariant.                                                          *)

(* Steps of begin_read that neither give out a guard nor take one back.    *)
LEMMA ReadStep ==
  ASSUME IInv, NEW t \in Threads,
         BeginRead(t) \/ RegisterSlot(t) \/ Pin(t) \/ Refuse(t) \/ Undo(t)
  PROVE  IInv'
<1> USE DEF IInv
<1>0. /\ guard' = guard /\ done' = done /\ writer' = writer /\ scanner' = scanner
      /\ todo' = todo /\ passed'["write"] = passed["write"]
  BY DEF BeginRead, RegisterSlot, Pin, Refuse, Undo, lockVars, TypeOK
<1>1. \A s \in Threads : PinsOf(s)' = PinsOf(s) /\ ReadsOf(s)' = ReadsOf(s)
  BY <1>0 DEF PinsOf, Live, ReadsOf
<1>2. /\ pc' = [pc EXCEPT ![t] = pc'[t]]
      /\ pc[t] \in {"user", "slot", "pin", "look", "undo"}
      /\ pc'[t] \in {"slot", "pin", "look", "undo"}
  BY DEF BeginRead, RegisterSlot, Pin, Refuse, Undo, Goto, TypeOK
<1>3. ASSUME hist' = hist, pc'[t] \in {"look", "undo"} <=> pc[t] \in {"look", "undo"}
       PROVE  CountInv'
  <2> SUFFICES ASSUME NEW s \in Threads
               PROVE  CountOf(s)'
    BY DEF CountInv
  <2>1. Pending(s)' = Pending(s)
    BY <1>2, <1>3 DEF Pending, TypeOK
  <2> QED
    BY <1>1, <1>3, <2>1, CountKept
<1>4. /\ Grows /\ clock' \in [Threads -> M!Clock] /\ hist'[Flag] = hist[Flag]
      /\ hist' = [l \in Locs |-> hist'[l]]
      /\ \A s \in Threads : Passes(s) \subseteq Passes(s)'
      /\ \A s \in Threads : hist'[s] \in Seq(M!Message(Nat)) \ {<<>>}
      /\ CountInv'
  <2>1. CASE BeginRead(t)
    <3>1. hist' = hist /\ clock' = clock /\ pc[t] = "user" /\ pc'[t] \in {"slot", "pin"}
      BY <2>1 DEF BeginRead, memory, Goto, TypeOK
    <3>2. CountInv'
      BY <1>3, <3>1
    <3> QED
      BY <3>1, <3>2, SameHistory DEF TypeOK, Grows, Know
  <2>2. CASE RegisterSlot(t)
    <3>1. passed["registry"] \in M!Clock
      BY DEF TypeOK
    <3>2. /\ hist' = hist /\ clock' \in [Threads -> M!Clock] /\ Grows
          /\ pc[t] = "slot" /\ pc'[t] = "pin"
      BY <2>2, <3>1, LearnEffect DEF RegisterSlot, Goto, TypeOK, Grows, Know
    <3>3. CountInv'
      BY <1>3, <3>2
    <3> QED
      BY <3>2, <3>3, SameHistory DEF TypeOK
  <2>3. CASE Refuse(t)
    <3>1. PICK i \in DOMAIN hist[Flag] : M!Load(t, Flag, "SeqCst", i)
      BY <2>3 DEF Refuse, LookOrder
    <3>2. /\ hist' = hist /\ clock' \in [Threads -> M!Clock] /\ Grows
          /\ pc[t] = "look" /\ pc'[t] = "undo"
      BY <2>3, <3>1, LoadEffect, FlagIsNoCounter DEF Refuse, Goto, TypeOK, Grows, Know
    <3>3. CountInv'
      BY <1>3, <3>2
    <3> QED
      BY <3>2, <3>3, SameHistory DEF TypeOK
  <2>4. ASSUME NEW n \in {1, -1}, M!Add(t, t, "SeqCst", n), Value(t) + n \in Nat,
               IF n = 1 THEN pc[t] = "pin" /\ pc'[t] = "look"
                        ELSE pc[t] = "undo" /\ pc'[t] = "pin"
        PROVE  /\ Grows /\ clock' \in [Threads -> M!Clock] /\ hist'[Flag] = hist[Flag]
               /\ hist' = [l \in Locs |-> hist'[l]]
               /\ \A s \in Threads : Passes(s) \subseteq Passes(s)'
               /\ \A s \in Threads : hist'[s] \in Seq(M!Message(Nat)) \ {<<>>}
               /\ CountInv'
    <3>1. /\ hist' = [l \in Locs |-> hist'[l]]
          /\ hist'[t] \in Seq(M!Message(Nat)) \ {<<>>}
          /\ \A l \in Locs : l # t => hist'[l] = hist[l]
          /\ M!Latest(t)' = M!Latest(t) + 1
          /\ \A i \in 1 .. M!Latest(t) : hist'[t][i] = hist[t][i]
          /\ Value(t)' = Value(t) + n
          /\ M!Last(t)'.order = "SeqCst"
          /\ clock' \in [Threads -> M!Clock]
          /\ clock[t].know \subseteq clock'[t].know
          /\ \A u \in Threads : u # t => clock'[u] = clock[u]
          /\ Passes(t) \cup clock[t].know \subseteq Passes(t)'
      BY <2>4, AddEffect
    <3>2. Grows /\ hist'[Flag] = hist[Flag] /\ \A s \in Threads : s # t => hist'[s] = hist[s]
      BY <3>1, FlagIsNoCounter DEF Grows, Know
    <3>3. \A s \in Threads : Passes(s) \subseteq Passes(s)'
      BY <3>1, <3>2, SameHistory
    <3>4. \A s \in Threads : hist'[s] \in Seq(M!Message(Nat)) \ {<<>>}
      BY <3>1, <3>2 DEF TypeOK
    <3>5. CountOf(t)'
      <4>1. Value(t) \in Nat /\ Cardinality(PinsOf(t)) \in Nat
        BY ValueType, FlagIsNoCounter, PinsCounted
      <4>2. Value(t) = Cardinality(PinsOf(t)) + Pending(t)
        BY DEF CountInv, CountOf
      <4>3. Pending(t)' = Pending(t) + n
        BY <2>4 DEF Pending
      <4>4. Pending(t) \in {0, 1}
        BY DEF Pending
      <4>5. Value(t)' = Cardinality(PinsOf(t)') + Pending(t)'
        BY <1>1, <3>1, <4>1, <4>2, <4>3, <4>4
      <4> QED
        BY <3>1, <4>5, CountAdded
    <3>6. \A s \in Threads : s # t => CountOf(s)'
      <4> SUFFICES ASSUME NEW s \in Threads, s # t
                   PROVE  CountOf(s)'
        OBVIOUS
      <4>1. Pending(s)' = Pending(s)
        BY <1>2 DEF Pending, TypeOK
      <4> QED
        BY <1>1, <3>2, <4>1, CountKept
    <3>7. CountInv'
      BY <3>5, <3>6 DEF CountInv
    <3> QED
      BY <3>1, <3>2, <3>3, <3>4, <3>7
  <2>5. Value(t) \in Nat /\ (pc[t] = "undo" => Value(t) + (-1) \in Nat)
    <3>1. Value(t) = Cardinality(PinsOf(t)) + Pending(t)
      BY DEF CountInv, CountOf
    <3> QED
      BY <3>1, PinsCounted DEF Pending
  <2>6. CASE Pin(t)
    <3>1. M!Add(t, t, "SeqCst", 1) /\ pc[t] = "pin" /\ pc'[t] = "look"
      BY <2>6 DEF Pin, PinOrder, Goto, TypeOK
    <3> QED
      BY <2>4, <2>5, <3>1
  <2>7. CASE Undo(t)
    <3>1. M!Add(t, t, "SeqCst", -1) /\ pc[t] = "undo" /\ pc'[t] = "pin"
      BY <2>7 DEF Undo, UndoOrder, Goto, TypeOK
    <3> QED
      BY <2>4, <2>5, <3>1
  <2> QED
    BY <2>1, <2>2, <2>3, <2>6, <2>7
<1>5. /\ registry \subseteq registry' /\ registry' \subseteq Threads
      /\ registry' # registry => scanner = None /\ registry' = registry \cup {t}
      /\ pc'[t] \in {"pin", "look", "undo"} => t \in registry'
      /\ passed' \in [{"write", "registry"} -> M!Clock]
  BY ClockType DEF BeginRead, RegisterSlot, Pin, Refuse, Undo, lockVars, Goto, TypeOK, RegisteredInv
<1>6. TypeOK'
  BY <1>0, <1>2, <1>4, <1>5 DEF TypeOK, Labels
<1>7. LockInv'
  BY <1>0, <1>2 DEF LockInv, TypeOK
<1>8. FlagInv'
  <2>1. Value(Flag)' = Value(Flag) /\ M!Last(Flag)' = M!Last(Flag)
    BY <1>4, SameHistory
  <2> QED
    BY <1>2, <2>1 DEF FlagInv, TypeOK
<1>9. RegisteredInv'
  BY <1>1, <1>2, <1>5 DEF RegisteredInv, TypeOK
<1>10. WritesInv'
  BY <1>0, <1>4, WritesKept
<1>11. ReadsInv'
  BY <1>0, <1>4, ReadsKept
<1>12. ScanInv'
  <2> SUFFICES ASSUME NEW u \in Threads
               PROVE  /\ pc'[u] = "scan" => \A s \in registry' \ todo' : Quiet(u, s)'
                      /\ pc'[u] = "write" => \A s \in Threads : Quiet(u, s)'
    BY DEF ScanInv
  <2>1. \A s \in Threads : Quiet(u, s) => Quiet(u, s)'
    BY <1>1, <1>4, QuietKept
  <2>2. pc'[u] \in {"scan", "write"} => pc[u] = pc'[u]
    BY <1>2 DEF TypeOK
  <2>3. pc[u] = "scan" => registry' = registry
    BY <1>5, SlotMemoryAssumption DEF LockInv
  <2> QED
    BY <1>0, <2>1, <2>2, <2>3 DEF ScanInv, TypeOK
<1> QED
  BY <1>4, <1>6, <1>7, <1>8, <1>9, <1>10, <1>11, <1>12

(* Guards have a slot and a thread.                                        *)
LEMMA GuardType ==
  ASSUME TypeOK
  PROVE  /\ \A g \in Guards : Live(g) => guard[g] \in [slot : Threads, by : Threads]
         /\ \A r \in [slot : Threads, by : Threads] : r # None
BY SlotMemoryAssumption DEF TypeOK, Live

(* Admit: a load that finds the flag down finds its last value.            *)
LEMMA AdmitStep ==
  ASSUME IInv, NEW t \in Threads, NEW g \in Guards, Admit(t, g)
  PROVE  IInv'
<1> USE DEF IInv
<1>1. PICK i \in DOMAIN hist[Flag] :
        hist[Flag][i].val = FALSE /\ M!Load(t, Flag, "SeqCst", i)
  BY DEF Admit, LookOrder
<1>2. /\ hist' = hist /\ clock' \in [Threads -> M!Clock] /\ Grows
      /\ clock'[t].know = clock[t].know \cup hist[Flag][i].clock.know
      /\ \A j \in i + 1 .. M!Latest(Flag) : hist[Flag][j].order # "SeqCst"
  BY <1>1, LoadEffect, FlagIsNoCounter DEF Grows, Know
<1>3. i = M!Latest(Flag)
  <2>1. M!Latest(Flag) \in Nat \ {0} /\ i \in 1 .. M!Latest(Flag)
    BY FlagIsNoCounter, HistoryType
  <2>2. hist[Flag][M!Latest(Flag)].order = "SeqCst"
    BY DEF FlagInv, M!Last
  <2>3. i < M!Latest(Flag) => M!Latest(Flag) \in i + 1 .. M!Latest(Flag)
    BY <2>1
  <2> QED
    BY <1>2, <2>1, <2>2, <2>3
<1>4. Value(Flag) = FALSE /\ Writes \subseteq Know(t)'
  <2>1. Value(Flag) = FALSE
    BY <1>1, <1>3 DEF Value, M!Last
  <2>2. Passes(Flag) \subseteq Know(t)'
    BY <1>2, <1>3 DEF Passes, M!Last, Know
  <2>3. Writes \subseteq Passes(Flag)
    BY <2>1 DEF WritesInv
  <2> QED
    BY <2>1, <2>2, <2>3
<1>5. /\ pc[t] = "look" /\ pc' = [pc EXCEPT ![t] = "user"]
      /\ ~Live(g) /\ guard' = [guard EXCEPT ![g] = [slot |-> t, by |-> t]]
      /\ registry' = registry /\ todo' = todo /\ writer' = writer /\ scanner' = scanner
      /\ passed' = passed /\ done' = done
  BY DEF Admit, Goto, lockVars
<1>6. /\ \A h \in Guards : h # g => guard'[h] = guard[h]
      /\ guard'[g] = [slot |-> t, by |-> t] /\ guard'[g] # None
      /\ guard' \in [Guards -> [slot : Threads, by : Threads] \cup {None}]
  BY <1>5, GuardType DEF TypeOK
<1>7. /\ PinsOf(t)' = PinsOf(t) \cup {g} /\ g \notin PinsOf(t)
      /\ \A s \in Threads : s # t => PinsOf(s)' = PinsOf(s)
      /\ \A s \in Threads : \A h \in PinsOf(s) : guard'[h] = guard[h] /\ h \in PinsOf(s)'
      /\ \A s \in Threads : ReadsOf(s)' = ReadsOf(s)
      /\ Writes' = Writes
  BY <1>5, <1>6 DEF PinsOf, Live, ReadsOf, Writes
<1>8. TypeOK'
  BY <1>2, <1>5, <1>6 DEF TypeOK, Labels
<1>9. LockInv'
  BY <1>5 DEF LockInv, TypeOK
<1>10. \A l \in Locs : Value(l)' = Value(l) /\ Passes(l)' = Passes(l) /\ M!Last(l)' = M!Last(l)
  BY <1>2, SameHistory
<1>11. FlagInv'
  BY <1>4, <1>5, <1>10, FlagIsNoCounter DEF FlagInv, TypeOK
<1>12. CountInv'
  <2>1. CountOf(t)'
    <3>1. Cardinality(PinsOf(t)') = Cardinality(PinsOf(t)) + 1
      BY <1>7, PinsCounted
    <3>2. Pending(t) = 1 /\ Pending(t)' = 0
      BY <1>5 DEF Pending, TypeOK
    <3>3. Value(t)' = Value(t) /\ M!Latest(t)' = M!Latest(t)
      BY <1>2, SameHistory
    <3>4. Cardinality(PinsOf(t)) \in Nat
      BY PinsCounted
    <3> QED
      BY <1>2, <3>1, <3>2, <3>3, <3>4 DEF CountInv, CountOf
  <2>2. ASSUME NEW s \in Threads, s # t
        PROVE  CountOf(s)'
    <3>1. Pending(s)' = Pending(s)
      BY <1>5, <2>2 DEF Pending, TypeOK
    <3> QED
      BY <1>2, <1>7, <2>2, <3>1, CountKept
  <2> QED
    BY <2>1, <2>2 DEF CountInv
<1>13. RegisteredInv'
  BY <1>5, <1>7 DEF RegisteredInv, TypeOK
<1>14. WritesInv'
  <2>1. \A u \in Threads : Know(u) \subseteq Know(u)'
    BY <1>2 DEF Grows
  <2>2. ASSUME NEW h \in Guards, Live(h)'
        PROVE  Writes \subseteq Know(guard[h].by)'
    <3>1. CASE h = g
      BY <1>4, <1>6, <3>1
    <3>2. CASE h # g
      BY <1>6, <2>1, <2>2, <3>2, GuardType DEF WritesInv, Live
    <3> QED
      BY <3>1, <3>2
  <2> QED
    BY <1>4, <1>5, <1>7, <1>10, <2>1, <2>2, FlagIsNoCounter DEF WritesInv
<1>15. ReadsInv'
  <2>1. \A s \in Threads : \A h \in PinsOf(s) : Know(guard[h].by) \subseteq Know(guard[h].by)'
    BY <1>2, <1>7, GuardType DEF Grows, PinsOf
  <2> QED
    BY <1>7, <1>10, <2>1, FlagIsNoCounter DEF ReadsInv
<1>16. ScanInv'
  <2>1. \A u \in Threads : pc'[u] \notin {"scan", "write"}
    BY <1>4, <1>5 DEF FlagInv, TypeOK
  <2> QED
    BY <2>1 DEF ScanInv
<1> QED
  BY <1>8, <1>9, <1>11, <1>12, <1>13, <1>14, <1>15, <1>16

(* Read: it is known to the thread that has the guard.                     *)
LEMMA GuardReadStep ==
  ASSUME IInv, NEW g \in Guards, Read(g)
  PROVE  IInv'
<1> USE DEF IInv
<1>1. PICK b \in Threads, p \in Threads :
        Live(g) /\ guard[g].by = b /\ guard[g].slot = p /\ g \in PinsOf(p)
  <2>1. Live(g) /\ guard[g].by \in Threads /\ guard[g].slot \in Threads
    BY GuardType DEF Read
  <2> QED
    BY <2>1 DEF PinsOf
<1>2. PICK a \in Access :
        /\ a.kind = "read" /\ a.slot = p
        /\ done' = done \cup {a}
        /\ hist' = hist
        /\ clock' \in [Threads -> M!Clock]
        /\ clock'[b].know = clock[b].know \cup {a}
        /\ \A u \in Threads : u # b => clock'[u] = clock[u]
  BY <1>1, TouchEffect DEF Read
<1>3. /\ pc' = pc /\ guard' = guard /\ registry' = registry /\ todo' = todo
      /\ writer' = writer /\ scanner' = scanner /\ passed' = passed
  BY DEF Read, lockVars
<1>4. Grows /\ a \in Know(b)'
  BY <1>2 DEF Grows, Know
<1>5. /\ Writes' = Writes
      /\ ReadsOf(p)' = ReadsOf(p) \cup {a}
      /\ \A s \in Threads : s # p => ReadsOf(s)' = ReadsOf(s)
      /\ \A s \in Threads : PinsOf(s)' = PinsOf(s) /\ Pending(s)' = Pending(s)
  BY <1>2, <1>3 DEF Writes, ReadsOf, PinsOf, Live, Pending
<1>6. \A l \in Locs : Value(l)' = Value(l) /\ Passes(l)' = Passes(l) /\ M!Last(l)' = M!Last(l)
  BY <1>2, SameHistory
<1>7. TypeOK'
  BY <1>2, <1>3, FS_AddElement DEF TypeOK
<1>8. LockInv'
  BY <1>3 DEF LockInv
<1>9. FlagInv'
  BY <1>3, <1>6, FlagIsNoCounter DEF FlagInv
<1>10. CountInv'
  BY <1>2, <1>5, CountKept DEF CountInv
<1>11. RegisteredInv'
  BY <1>1, <1>3, <1>5 DEF RegisteredInv
<1>12. WritesInv'
  <2>1. \A h \in Guards : Live(h)' = Live(h) /\ (Live(h) => guard[h].by \in Threads)
    BY <1>3, GuardType DEF Live
  <2> QED
    BY <1>3, <1>4, <1>5, <1>6, <2>1, FlagIsNoCounter DEF WritesInv, Grows
<1>13. ReadsInv'
  <2>1. \A s \in Threads : \A h \in PinsOf(s) : guard[h].by \in Threads
    BY GuardType DEF PinsOf
  <2> QED
    BY <1>1, <1>3, <1>4, <1>5, <1>6, <2>1, FlagIsNoCounter DEF ReadsInv, Grows
<1>14. ScanInv'
  <2>1. \A u \in Threads, s \in Threads : Quiet(u, s) => Quiet(u, s)'
    BY <1>1, <1>4, <1>5, QuietKept DEF Quiet
  <2> QED
    BY <1>3, <2>1 DEF ScanInv, TypeOK
<1> QED
  BY <1>7, <1>8, <1>9, <1>10, <1>11, <1>12, <1>13, <1>14

(* Send: what the one thread knows, the other learns.                      *)
LEMMA SendStep ==
  ASSUME IInv, NEW g \in Guards, NEW t \in Threads, Send(g, t)
  PROVE  IInv'
<1> USE DEF IInv
<1> DEFINE b == guard[g].by
<1>1. Live(g) /\ b \in Threads /\ guard[g] \in [slot : Threads, by : Threads]
  BY GuardType DEF Send
<1>2. /\ hist' = hist /\ clock' \in [Threads -> M!Clock] /\ Grows
      /\ Know(b) \subseteq Know(t)'
  <2>1. clock[b] \in M!Clock
    BY <1>1 DEF TypeOK
  <2> QED
    BY <2>1, LearnEffect DEF Send, Grows, Know
<1>3. /\ pc' = pc /\ done' = done /\ registry' = registry /\ todo' = todo
      /\ writer' = writer /\ scanner' = scanner /\ passed' = passed
      /\ guard' = [guard EXCEPT ![g].by = t]
  BY DEF Send, lockVars
<1>4. /\ \A h \in Guards : h # g => guard'[h] = guard[h]
      /\ guard'[g] \in [slot : Threads, by : Threads]
      /\ guard'[g].by = t /\ guard'[g].slot = guard[g].slot
      /\ guard' \in [Guards -> [slot : Threads, by : Threads] \cup {None}]
  BY <1>1, <1>3 DEF TypeOK
<1>5. /\ Writes' = Writes
      /\ \A h \in Guards : Live(h)' = Live(h)
      /\ \A s \in Threads : /\ ReadsOf(s)' = ReadsOf(s)
                            /\ PinsOf(s)' = PinsOf(s) /\ Pending(s)' = Pending(s)
  BY <1>1, <1>3, <1>4, GuardType DEF Writes, ReadsOf, PinsOf, Live, Pending
<1>6. \A l \in Locs : Value(l)' = Value(l) /\ Passes(l)' = Passes(l) /\ M!Last(l)' = M!Last(l)
  BY <1>2, SameHistory
<1>7. \A h \in Guards : Live(h) => Know(guard[h].by) \subseteq Know(guard[h].by)'
  <2>1. ASSUME NEW h \in Guards, Live(h)
        PROVE  Know(guard[h].by) \subseteq Know(guard[h].by)'
    <3>1. CASE h = g
      BY <1>2, <1>4, <3>1 DEF Know
    <3>2. CASE h # g
      BY <1>2, <1>4, <2>1, <3>2, GuardType DEF Know, Grows
    <3> QED
      BY <3>1, <3>2
  <2> QED
    BY <2>1
<1>8. TypeOK'
  BY <1>2, <1>3, <1>4 DEF TypeOK
<1>9. LockInv'
  BY <1>3 DEF LockInv
<1>10. FlagInv'
  BY <1>3, <1>6, FlagIsNoCounter DEF FlagInv
<1>11. CountInv'
  BY <1>2, <1>5, CountKept DEF CountInv
<1>12. RegisteredInv'
  BY <1>3, <1>5 DEF RegisteredInv
<1>13. WritesInv'
  BY <1>2, <1>3, <1>5, <1>6, <1>7, FlagIsNoCounter DEF WritesInv, Grows
<1>14. ReadsInv'
  <2>1. \A s \in Threads : \A h \in PinsOf(s) : h \in Guards /\ Live(h)
    BY DEF PinsOf
  <2> QED
    BY <1>5, <1>6, <1>7, <2>1, FlagIsNoCounter DEF ReadsInv
<1>15. ScanInv'
  <2>1. \A u \in Threads, s \in Threads : Quiet(u, s) => Quiet(u, s)'
    BY <1>2, <1>5, QuietKept
  <2> QED
    BY <1>3, <2>1 DEF ScanInv, TypeOK
<1> QED
  BY <1>8, <1>9, <1>10, <1>11, <1>12, <1>13, <1>14, <1>15

(* DropGuard: what was read is passed on with the pin.                     *)
LEMMA DropStep ==
  ASSUME IInv, NEW g \in Guards, DropGuard(g)
  PROVE  IInv'
<1> USE DEF IInv
<1>1. PICK b \in Threads, p \in Threads :
        Live(g) /\ guard[g].by = b /\ guard[g].slot = p /\ g \in PinsOf(p)
  <2>1. Live(g) /\ guard[g].by \in Threads /\ guard[g].slot \in Threads
    BY GuardType DEF DropGuard
  <2> QED
    BY <2>1 DEF PinsOf
<1>2. /\ Value(p) = Cardinality(PinsOf(p)) + Pending(p) /\ Value(p) \in Nat
      /\ Cardinality(PinsOf(p)) \in Nat \ {0} /\ Pending(p) \in {0, 1}
  BY <1>1, PinsCounted, ValueType, FlagIsNoCounter DEF CountInv, CountOf, Pending
<1>3. /\ pc' = pc /\ done' = done /\ registry' = registry /\ todo' = todo
      /\ writer' = writer /\ scanner' = scanner /\ passed' = passed
      /\ guard' = [guard EXCEPT ![g] = None]
      /\ M!Add(b, p, "Release", -1)
  BY <1>1 DEF DropGuard, lockVars, UnpinOrder
<1>4. /\ hist' = [l \in Locs |-> hist'[l]]
      /\ hist'[p] \in Seq(M!Message(Nat)) \ {<<>>}
      /\ \A l \in Locs : l # p => hist'[l] = hist[l]
      /\ M!Latest(p)' = M!Latest(p) + 1
      /\ \A i \in 1 .. M!Latest(p) : hist'[p][i] = hist[p][i]
      /\ Value(p)' = Value(p) + (-1)
      /\ clock' \in [Threads -> M!Clock]
      /\ clock[b].know \subseteq clock'[b].know
      /\ \A u \in Threads : u # b => clock'[u] = clock[u]
      /\ Passes(p) \cup clock[b].know \subseteq Passes(p)'
  <2>1. Value(p) + (-1) \in Nat
    BY <1>2
  <2> QED
    BY <1>1, <1>3, <2>1, AddEffect
<1>5. /\ Grows /\ hist'[Flag] = hist[Flag]
      /\ \A s \in Threads : s # p => hist'[s] = hist[s]
      /\ Know(b) \subseteq Passes(p)'
  BY <1>4, FlagIsNoCounter DEF Grows, Know
<1>6. \A s \in Threads : Passes(s) \subseteq Passes(s)'
  BY <1>4, <1>5, SameHistory
<1>7. /\ \A h \in Guards : h # g => guard'[h] = guard[h]
      /\ guard'[g] = None
      /\ guard' \in [Guards -> [slot : Threads, by : Threads] \cup {None}]
  BY <1>3 DEF TypeOK
<1>8. /\ Writes' = Writes
      /\ PinsOf(p)' = PinsOf(p) \ {g}
      /\ \A s \in Threads : s # p => PinsOf(s)' = PinsOf(s)
      /\ \A s \in Threads : ReadsOf(s)' = ReadsOf(s) /\ Pending(s)' = Pending(s)
  <2>1. \A h \in Guards : Live(h)' <=> Live(h) /\ h # g
    BY <1>1, <1>7 DEF Live
  <2> QED
    BY <1>1, <1>3, <1>7, <2>1 DEF Writes, ReadsOf, PinsOf, Pending
<1>9. TypeOK'
  <2>1. \A s \in Threads : hist'[s] \in Seq(M!Message(Nat)) \ {<<>>}
    BY <1>4, <1>5 DEF TypeOK
  <2> QED
    BY <1>3, <1>4, <1>5, <1>7, <2>1 DEF TypeOK
<1>10. LockInv'
  BY <1>3 DEF LockInv
<1>11. FlagInv'
  BY <1>3, <1>5, SameHistory DEF FlagInv
<1>12. CountInv'
  <2>1. CountOf(p)'
    <3>1. Cardinality(PinsOf(p)') = Cardinality(PinsOf(p)) - 1
      BY <1>1, <1>8, PinsCounted
    <3>2. Value(p)' = Cardinality(PinsOf(p)') + Pending(p)'
      BY <1>1, <1>2, <1>4, <1>8, <3>1
    <3>3. Value(p) # 0
      BY <1>2
    <3> QED
      BY <1>1, <1>4, <3>2, <3>3, CountAdded
  <2>2. \A s \in Threads : s # p => CountOf(s)'
    BY <1>5, <1>8, CountKept
  <2> QED
    BY <2>1, <2>2 DEF CountInv
<1>13. RegisteredInv'
  BY <1>1, <1>3, <1>8 DEF RegisteredInv
<1>14. WritesInv'
  <2>1. \A h \in Guards : Live(h)' => /\ Live(h) /\ guard'[h] = guard[h]
                                      /\ guard[h].by \in Threads
    BY <1>7, GuardType DEF Live
  <2>2. Value(Flag)' = Value(Flag) /\ Passes(Flag)' = Passes(Flag)
    BY <1>5, SameHistory
  <2> QED
    BY <1>3, <1>5, <1>8, <2>1, <2>2 DEF WritesInv, Grows
<1>15. ReadsInv'
  <2> SUFFICES ASSUME NEW s \in Threads, NEW a \in ReadsOf(s)
               PROVE  a \in Passes(s)' \/ \E h \in PinsOf(s)' : a \in Know(guard[h].by)'
    BY <1>8 DEF ReadsInv
  <2>1. CASE a \in Passes(s)
    BY <1>6, <2>1
  <2>2. ASSUME NEW h \in PinsOf(s), a \in Know(guard[h].by)
        PROVE  a \in Passes(s)' \/ \E k \in PinsOf(s)' : a \in Know(guard[k].by)'
    <3>1. CASE h = g
      <4>1. s = p /\ a \in Know(b)
        BY <1>1, <2>2, <3>1 DEF PinsOf
      <4> QED
        BY <1>5, <4>1
    <3>2. CASE h # g
      <4>1. h \in PinsOf(s)' /\ guard'[h] = guard[h] /\ guard[h].by \in Threads
        BY <1>7, <1>8, <3>2, GuardType DEF PinsOf
      <4> QED
        BY <1>5, <2>2, <4>1 DEF Grows
    <3> QED
      BY <3>1, <3>2
  <2> QED
    BY <2>1, <2>2 DEF ReadsInv
<1>16. ScanInv'
  <2>1. \A s \in Threads : PinsOf(s)' \subseteq PinsOf(s) /\ ReadsOf(s)' = ReadsOf(s)
    BY <1>8
  <2>2. \A u \in Threads, s \in Threads : Quiet(u, s) => Quiet(u, s)'
    BY <1>5, <2>1, QuietKept
  <2> QED
    BY <1>3, <2>2 DEF ScanInv, TypeOK
<1> QED
  BY <1>9, <1>10, <1>11, <1>12, <1>13, <1>14, <1>15, <1>16

WriterLabels == {"user", "raise", "registry", "scan", "write", "unlock"}

(* The steps of a write leave the counters, the guards and the reads.      *)
LEMMA WriterKeeps ==
  ASSUME IInv, NEW t \in Threads, pc' = [pc EXCEPT ![t] = pc'[t]],
         pc[t] \in WriterLabels, pc'[t] \in WriterLabels,
         guard' = guard, done' = done, registry' = registry, Grows,
         \A s \in Threads : hist'[s] = hist[s]
  PROVE  /\ CountInv' /\ RegisteredInv' /\ ReadsInv'
         /\ \A u \in Threads, s \in Threads : Quiet(u, s) => Quiet(u, s)'
<1> USE DEF IInv
<1>1. \A s \in Threads : /\ PinsOf(s)' = PinsOf(s) /\ ReadsOf(s)' = ReadsOf(s)
                         /\ Pending(s)' = Pending(s)
  BY DEF PinsOf, Live, ReadsOf, Pending, WriterLabels, TypeOK
<1>2. CountInv'
  BY <1>1, CountKept DEF CountInv
<1>3. RegisteredInv'
  BY <1>1 DEF RegisteredInv, WriterLabels, TypeOK
<1>4. ReadsInv'
  BY SameHistory, ReadsKept
<1>5. \A u \in Threads, s \in Threads : Quiet(u, s) => Quiet(u, s)'
  BY <1>1, QuietKept
<1> QED
  BY <1>2, <1>3, <1>4, <1>5

(* LockWrite: the writer learns of all writes before its own.              *)
LEMMA LockWriteStep ==
  ASSUME IInv, NEW t \in Threads, LockWrite(t)
  PROVE  IInv'
<1> USE DEF IInv
<1>1. /\ pc[t] = "user" /\ pc' = [pc EXCEPT ![t] = "raise"] /\ pc'[t] = "raise"
      /\ writer = None /\ writer' = t
      /\ registry' = registry /\ todo' = todo /\ scanner' = scanner
      /\ passed' = passed /\ guard' = guard /\ done' = done
  BY DEF LockWrite, Goto, TypeOK
<1>2. /\ hist' = hist /\ clock' \in [Threads -> M!Clock] /\ Grows
      /\ Know(t)' = Know(t) \cup passed["write"].know
  <2>1. passed["write"] \in M!Clock
    BY DEF TypeOK
  <2> QED
    BY <2>1, LearnEffect DEF LockWrite, Grows, Know
<1>3. /\ CountInv' /\ RegisteredInv' /\ ReadsInv'
      /\ \A u \in Threads, s \in Threads : Quiet(u, s) => Quiet(u, s)'
  BY <1>1, <1>2, WriterKeeps DEF WriterLabels
<1>4. Value(Flag)' = Value(Flag) /\ Passes(Flag)' = Passes(Flag) /\ M!Last(Flag)' = M!Last(Flag)
  BY <1>2, SameHistory
<1>5. TypeOK'
  BY <1>1, <1>2 DEF TypeOK, Labels
<1>6. LockInv'
  BY <1>1, SlotMemoryAssumption DEF LockInv, TypeOK
<1>7. FlagInv'
  BY <1>1, <1>4 DEF FlagInv, TypeOK
<1>8. WritesInv'
  <2>1. \A h \in Guards : Live(h)' = Live(h) /\ (Live(h) => guard[h].by \in Threads)
    BY <1>1, GuardType DEF Live
  <2>2. Writes' = Writes
    BY <1>1 DEF Writes
  <2> QED
    BY <1>1, <1>2, <1>4, <2>1, <2>2, SlotMemoryAssumption DEF WritesInv, Grows
<1>9. ScanInv'
  BY <1>1, <1>3 DEF ScanInv, TypeOK
<1> QED
  BY <1>3, <1>5, <1>6, <1>7, <1>8, <1>9

(* Raise and Lower: the flag follows the phase of the write, and passes on *)
(* what the writer knows.                                                  *)
LEMMA FlagStep ==
  ASSUME IInv, NEW t \in Threads, Raise(t) \/ Lower(t)
  PROVE  IInv'
<1> USE DEF IInv
<1>1. PICK v \in BOOLEAN :
        /\ M!Store(t, Flag, "SeqCst", v)
        /\ v = TRUE  => pc[t] = "raise" /\ pc'[t] = "registry"
        /\ v = FALSE => pc[t] = "write" /\ pc'[t] = "unlock"
        /\ pc' = [pc EXCEPT ![t] = pc'[t]]
  <2>1. CASE Raise(t)
    <3>1. M!Store(t, Flag, "SeqCst", TRUE)
      BY <2>1 DEF Raise, RaiseOrder
    <3>2. pc[t] = "raise" /\ pc'[t] = "registry" /\ pc' = [pc EXCEPT ![t] = pc'[t]]
      BY <2>1 DEF Raise, Goto, TypeOK
    <3> QED
      BY <3>1, <3>2
  <2>2. CASE Lower(t)
    <3>1. M!Store(t, Flag, "SeqCst", FALSE)
      BY <2>2 DEF Lower, LowerOrder
    <3>2. pc[t] = "write" /\ pc'[t] = "unlock" /\ pc' = [pc EXCEPT ![t] = pc'[t]]
      BY <2>2 DEF Lower, Goto, TypeOK
    <3> QED
      BY <3>1, <3>2
  <2> QED
    BY <2>1, <2>2
<1>2. /\ registry' = registry /\ todo' = todo /\ scanner' = scanner /\ writer' = writer
      /\ passed' = passed /\ guard' = guard /\ done' = done
  BY DEF Raise, Lower, lockVars
<1>3. /\ hist' = [l \in Locs |-> hist'[l]]
      /\ hist'[Flag] \in Seq(M!Message(BOOLEAN)) \ {<<>>}
      /\ \A l \in Locs : l # Flag => hist'[l] = hist[l]
      /\ Value(Flag)' = v
      /\ M!Last(Flag)'.order = "SeqCst"
      /\ clock' \in [Threads -> M!Clock]
      /\ \A u \in Threads : clock'[u].know = clock[u].know
      /\ Passes(Flag)' = clock[t].know
  BY <1>1, StoreEffect
<1>4. Grows /\ \A s \in Threads : hist'[s] = hist[s]
  BY <1>3, FlagIsNoCounter DEF Grows, Know
<1>5. pc[t] \in {"raise", "write"} /\ pc'[t] \in {"registry", "unlock"} /\ writer = t
  BY <1>1 DEF LockInv
<1>6. /\ CountInv' /\ RegisteredInv' /\ ReadsInv'
      /\ \A u \in Threads, s \in Threads : Quiet(u, s) => Quiet(u, s)'
  BY <1>1, <1>2, <1>4, <1>5, WriterKeeps DEF WriterLabels
<1>7. TypeOK'
  BY <1>1, <1>2, <1>3, <1>4, <1>5 DEF TypeOK, Labels
<1>8. LockInv'
  BY <1>1, <1>2, <1>5 DEF LockInv, TypeOK
<1>9. FlagInv'
  <2>1. \A u \in Threads : u # t => pc'[u] \notin {"registry", "scan", "write"}
    BY <1>1, <1>5 DEF LockInv, TypeOK
  <2>2. CASE v = TRUE
    <3>1. Value(Flag)' = TRUE
      BY <1>3, <2>2, Zenon
    <3> QED
      BY <1>1, <1>3, <2>1, <2>2, <3>1 DEF FlagInv
  <2>3. CASE v = FALSE
    <3>1. Value(Flag)' = FALSE
      BY <1>3, <2>3, Zenon
    <3>2. pc'[t] = "unlock"
      BY <1>1, <2>3
    <3> QED
      BY <1>3, <2>1, <3>1, <3>2 DEF FlagInv
  <2> QED
    BY <2>2, <2>3
<1>10. WritesInv'
  <2>1. \A h \in Guards : Live(h)' = Live(h) /\ (Live(h) => guard[h].by \in Threads)
    BY <1>2, GuardType DEF Live
  <2>2. Writes' = Writes
    BY <1>2 DEF Writes
  <2>3. Writes \subseteq Know(t)
    BY <1>5 DEF WritesInv
  <2> QED
    BY <1>2, <1>3, <1>4, <2>1, <2>2, <2>3 DEF WritesInv, Grows, Know
<1>11. ScanInv'
  BY <1>1, <1>2, <1>5, <1>6 DEF ScanInv, TypeOK
<1> QED
  BY <1>6, <1>7, <1>8, <1>9, <1>10, <1>11

(* The steps of a scan.                                                    *)
LEMMA ScanStep ==
  ASSUME IInv, NEW t \in Threads,
         \/ LockRegistry(t) \/ EnterWrite(t)
         \/ \E s \in Threads : ScanZero(t, s) \/ ScanAgain(t, s)
  PROVE  IInv'
<1> USE DEF IInv
<1>1. /\ pc[t] \in {"registry", "scan"} /\ pc'[t] \in {"registry", "scan", "write"}
      /\ pc' = [pc EXCEPT ![t] = pc'[t]]
      /\ registry' = registry /\ writer' = writer /\ guard' = guard /\ done' = done
  BY DEF LockRegistry, EnterWrite, ScanZero, ScanAgain, UnlockRegistry, Goto, TypeOK
<1>2. hist' = hist /\ clock' \in [Threads -> M!Clock] /\ Grows
  <2>1. CASE LockRegistry(t)
    <3>1. passed["registry"] \in M!Clock
      BY DEF TypeOK
    <3> QED
      BY <2>1, <3>1, LearnEffect DEF LockRegistry, Grows, Know
  <2>2. CASE EnterWrite(t)
    BY <2>2 DEF EnterWrite, memory, TypeOK, Grows, Know
  <2>3. ASSUME NEW s \in Threads, ScanZero(t, s) \/ ScanAgain(t, s)
        PROVE  hist' = hist /\ clock' \in [Threads -> M!Clock] /\ Grows
    <3>1. PICK i \in DOMAIN hist[s] : M!Load(t, s, "SeqCst", i)
      BY <2>3 DEF ScanZero, ScanAgain, ScanOrder
    <3> QED
      BY <3>1, LoadEffect, FlagIsNoCounter DEF Grows, Know
  <2> QED
    BY <2>1, <2>2, <2>3
<1>3. /\ todo' \subseteq registry /\ scanner' \in Threads \cup {None}
      /\ passed'["write"] = passed["write"]
      /\ passed' \in [{"write", "registry"} -> M!Clock]
  <2>1. clock'[t] \in M!Clock
    BY <1>2
  <2> QED
    BY <2>1 DEF LockRegistry, EnterWrite, ScanZero, ScanAgain, UnlockRegistry, TypeOK
<1>4. /\ CountInv' /\ RegisteredInv' /\ ReadsInv'
      /\ \A u \in Threads, s \in Threads : Quiet(u, s) => Quiet(u, s)'
  BY <1>1, <1>2, WriterKeeps DEF WriterLabels
<1>5. /\ scanner' = None => todo' = {}
      /\ pc'[t] = "scan" <=> scanner' = t
      /\ \A u \in Threads : u # t => pc'[u] # "scan" /\ scanner' # u
  BY <1>1, SlotMemoryAssumption DEF LockRegistry, EnterWrite, ScanZero, ScanAgain,
     UnlockRegistry, Goto, LockInv, TypeOK
<1>6. TypeOK'
  BY <1>1, <1>2, <1>3 DEF TypeOK, Labels
<1>7. LockInv'
  BY <1>1, <1>5 DEF LockInv, TypeOK
<1>8. FlagInv'
  BY <1>1, <1>2, SameHistory DEF FlagInv, TypeOK
<1>9. WritesInv'
  <2>1. TypeOK /\ WritesInv /\ hist'[Flag] = hist[Flag]
    BY <1>2
  <2> QED
    BY <1>1, <1>2, <1>3, <2>1, WritesKept
<1>10. pc'[t] = "scan" => \A s \in registry' \ todo' : Quiet(t, s)'
  <2>1. CASE LockRegistry(t)
    BY <2>1 DEF LockRegistry
  <2>2. ASSUME NEW s \in Threads, ScanZero(t, s)
        PROVE  pc'[t] = "scan" => \A q \in registry' \ todo' : Quiet(t, q)'
    <3>1. PICK i \in DOMAIN hist[s] : hist[s][i].val = 0 /\ M!Load(t, s, "SeqCst", i)
      BY <2>2 DEF ScanZero, ScanOrder
    <3>2. /\ Know(t)' = Know(t) \cup hist[s][i].clock.know
          /\ \A j \in i + 1 .. M!Latest(s) : hist[s][j].order # "SeqCst"
      BY <3>1, LoadEffect, FlagIsNoCounter DEF Know
    <3>3. i = M!Latest(s)
      <4>1. M!Latest(s) \in Nat \ {0} /\ i \in 1 .. M!Latest(s)
        BY FlagIsNoCounter, HistoryType
      <4>2. i < M!Latest(s) => i \in 1 .. M!Latest(s) - 1 /\ i + 1 \in i + 1 .. M!Latest(s)
        BY <4>1
      <4> QED
        BY <3>1, <3>2, <4>1, <4>2 DEF CountInv, CountOf
    <3>4. Value(s) = 0 /\ Passes(s) \subseteq Know(t)'
      BY <3>1, <3>2, <3>3 DEF Value, Passes, M!Last
    <3>5. PinsOf(s) = {}
      <4>1. Value(s) = Cardinality(PinsOf(s)) + Pending(s) /\ Pending(s) \in {0, 1}
        BY DEF CountInv, CountOf, Pending
      <4> QED
        BY <3>4, <4>1, PinsCounted
    <3>6. ReadsOf(s) \subseteq Know(t)'
      BY <3>4, <3>5 DEF ReadsInv
    <3>7. Quiet(t, s)'
      BY <1>1, <3>5, <3>6 DEF Quiet, PinsOf, Live, ReadsOf
    <3>8. registry' = registry /\ todo' = todo \ {s} /\ pc[t] = "scan"
      BY <2>2 DEF ScanZero
    <3> QED
      BY <1>4, <3>7, <3>8 DEF ScanInv, TypeOK
  <2>3. CASE EnterWrite(t) \/ \E s \in Threads : ScanAgain(t, s)
    BY <2>3 DEF EnterWrite, ScanAgain, Goto, TypeOK
  <2> QED
    BY <2>1, <2>2, <2>3
<1>11. pc'[t] = "write" => \A s \in Threads : Quiet(t, s)'
  <2> SUFFICES ASSUME pc'[t] = "write", NEW s \in Threads
               PROVE  Quiet(t, s)
    BY <1>4
  <2>1. pc[t] = "scan" /\ todo = {}
    BY DEF LockRegistry, EnterWrite, ScanZero, ScanAgain, Goto, TypeOK
  <2>2. CASE s \in registry
    BY <2>1, <2>2 DEF ScanInv
  <2>3. CASE s \notin registry
    BY <2>3 DEF RegisteredInv, Quiet
  <2> QED
    BY <2>2, <2>3
<1>12. ScanInv'
  <2>1. \A u \in Threads : u # t => pc'[u] \notin {"scan", "write"}
    BY <1>1, <1>5 DEF LockInv, TypeOK
  <2> QED
    BY <1>10, <1>11, <2>1 DEF ScanInv
<1> QED
  BY <1>4, <1>6, <1>7, <1>8, <1>9, <1>12

(* Write: nobody else has a guard, or is about to get one.                 *)
LEMMA WriteStep ==
  ASSUME IInv, NEW t \in Threads, Write(t)
  PROVE  IInv'
<1> USE DEF IInv
<1>1. PICK a \in Access :
        /\ a.kind = "write"
        /\ done' = done \cup {a}
        /\ hist' = hist
        /\ clock' \in [Threads -> M!Clock]
        /\ clock'[t].know = clock[t].know \cup {a}
        /\ \A u \in Threads : u # t => clock'[u] = clock[u]
  BY TouchEffect DEF Write
<1>2. /\ pc' = pc /\ pc[t] = "write" /\ guard' = guard /\ registry' = registry /\ todo' = todo
      /\ writer' = writer /\ scanner' = scanner /\ passed' = passed
  BY DEF Write, lockVars
<1>3. Grows /\ a \in Know(t)'
  BY <1>1 DEF Grows, Know
<1>4. /\ Writes' = Writes \cup {a}
      /\ \A s \in Threads : /\ PinsOf(s)' = PinsOf(s) /\ ReadsOf(s)' = ReadsOf(s)
                            /\ Pending(s)' = Pending(s)
  BY <1>1, <1>2 DEF Writes, ReadsOf, PinsOf, Live, Pending
<1>5. \A l \in Locs : Value(l)' = Value(l) /\ Passes(l)' = Passes(l) /\ M!Last(l)' = M!Last(l)
  BY <1>1, SameHistory
<1>6. TypeOK'
  BY <1>1, <1>2, FS_AddElement DEF TypeOK
<1>7. LockInv'
  BY <1>2 DEF LockInv
<1>8. FlagInv'
  BY <1>2, <1>5, FlagIsNoCounter DEF FlagInv
<1>9. CountInv'
  BY <1>1, <1>4, CountKept DEF CountInv
<1>10. RegisteredInv'
  BY <1>2, <1>4 DEF RegisteredInv
<1>11. WritesInv'
  <2>1. writer = t /\ writer # None
    BY <1>2, SlotMemoryAssumption DEF LockInv
  <2>2. Value(Flag)' = TRUE
    BY <1>2, <1>8 DEF FlagInv
  <2>3. \A h \in Guards : ~Live(h)'
    BY <1>2, GuardType DEF ScanInv, Quiet, PinsOf, Live
  <2>4. Writes' \subseteq Know(t)'
    BY <1>3, <1>4, <2>1 DEF WritesInv, Grows
  <2> QED
    BY <1>2, <2>1, <2>2, <2>3, <2>4 DEF WritesInv
<1>12. ReadsInv'
  <2>1. \A s \in Threads : \A h \in PinsOf(s) : guard[h].by \in Threads
    BY GuardType DEF PinsOf
  <2> QED
    BY <1>2, <1>3, <1>4, <1>5, <2>1, FlagIsNoCounter DEF ReadsInv, Grows
<1>13. ScanInv'
  <2>1. \A u \in Threads, s \in Threads : Quiet(u, s) => Quiet(u, s)'
    BY <1>3, <1>4, QuietKept
  <2> QED
    BY <1>2, <2>1 DEF ScanInv, TypeOK
<1> QED
  BY <1>6, <1>7, <1>8, <1>9, <1>10, <1>11, <1>12, <1>13

(* Unlock: the next writer will know what this one knows.                  *)
LEMMA UnlockStep ==
  ASSUME IInv, NEW t \in Threads, Unlock(t)
  PROVE  IInv'
<1> USE DEF IInv
<1>1. /\ pc[t] = "unlock" /\ pc' = [pc EXCEPT ![t] = "user"] /\ pc'[t] = "user"
      /\ writer' = None /\ passed' = [passed EXCEPT !["write"] = clock[t]]
      /\ registry' = registry /\ todo' = todo /\ scanner' = scanner
      /\ guard' = guard /\ done' = done /\ hist' = hist /\ clock' = clock
  BY DEF Unlock, Goto, memory, TypeOK
<1>2. Grows /\ writer = t
  BY <1>1 DEF Grows, Know, LockInv
<1>3. /\ CountInv' /\ RegisteredInv' /\ ReadsInv'
      /\ \A u \in Threads, s \in Threads : Quiet(u, s) => Quiet(u, s)'
  BY <1>1, <1>2, WriterKeeps DEF WriterLabels
<1>4. Value(Flag)' = Value(Flag) /\ Passes(Flag)' = Passes(Flag) /\ M!Last(Flag)' = M!Last(Flag)
  BY <1>1, SameHistory
<1>5. TypeOK'
  BY <1>1 DEF TypeOK, Labels
<1>6. LockInv'
  BY <1>1, SlotMemoryAssumption DEF LockInv, TypeOK
<1>7. FlagInv'
  BY <1>1, <1>4 DEF FlagInv, TypeOK
<1>8. WritesInv'
  <2>1. \A h \in Guards : Live(h)' = Live(h)
    BY <1>1 DEF Live
  <2>2. Writes' = Writes /\ passed'["write"] = clock[t]
    BY <1>1 DEF Writes, TypeOK
  <2>3. Writes \subseteq Know(t)
    BY <1>2 DEF WritesInv
  <2>4. \A u \in Threads : u # None
    BY SlotMemoryAssumption
  <2> QED
    BY <1>1, <1>2, <1>4, <2>1, <2>2, <2>3, <2>4 DEF WritesInv, Grows, Know
<1>9. ScanInv'
  BY <1>1, <1>3 DEF ScanInv, TypeOK
<1> QED
  BY <1>3, <1>5, <1>6, <1>7, <1>8, <1>9

-----------------------------------------------------------------------------
(* The theorems.                                                           *)

LEMMA InitInv == Init => IInv
<1> SUFFICES ASSUME Init
             PROVE  IInv
  OBVIOUS
<1> DEFINE first(l) == IF l = Flag THEN FALSE ELSE 0
           message(v) == [val |-> v, order |-> "SeqCst", clock |-> M!Nothing]
<1>1. /\ hist = [l \in Locs |-> <<message(first(l))>>]
      /\ clock = [t \in Threads |-> M!Nothing]
  BY DEF Init, M!Start
<1>2. /\ pc = [t \in Threads |-> "user"]
      /\ registry = {} /\ todo = {} /\ writer = None /\ scanner = None
      /\ passed = [m \in {"write", "registry"} |-> M!Nothing]
      /\ guard = [g \in Guards |-> None] /\ done = {}
  BY DEF Init
<1>3. /\ hist[Flag] = <<message(FALSE)>>
      /\ \A s \in Threads : hist[s] = <<message(0)>>
  BY <1>1, FlagIsNoCounter
<1>4. /\ message(FALSE) \in M!Message(BOOLEAN) /\ message(0) \in M!Message(Nat)
      /\ M!Nothing \in M!Clock
  BY ClockType DEF M!Message, M!Orders
<1>5. TypeOK
  <2>1. hist[Flag] \in Seq(M!Message(BOOLEAN)) \ {<<>>}
    BY <1>3, <1>4
  <2>2. \A s \in Threads : hist[s] \in Seq(M!Message(Nat)) \ {<<>>}
    <3> DEFINE m == message(0)
    <3>1. m \in M!Message(Nat) /\ \A s \in Threads : hist[s] = <<m>>
      BY <1>3, <1>4
    <3> HIDE DEF m
    <3>2. <<m>> \in Seq(M!Message(Nat)) \ {<<>>}
      BY <3>1
    <3> QED
      BY <3>1, <3>2, Zenon
  <2>3. hist = [l \in Locs |-> hist[l]]
    BY <1>1
  <2>4. done \subseteq Access /\ IsFiniteSet(done)
    BY <1>2, FS_EmptySet
  <2> QED
    BY <1>1, <1>2, <1>4, <2>1, <2>2, <2>3, <2>4 DEF TypeOK, Labels
<1>6. LockInv
  BY <1>2, SlotMemoryAssumption DEF LockInv
<1>7. Value(Flag) = FALSE /\ M!Last(Flag).order = "SeqCst"
  BY <1>3 DEF Value, M!Last, M!Latest
<1>8. FlagInv
  BY <1>2, <1>7 DEF FlagInv
<1>9. \A s \in Threads : PinsOf(s) = {} /\ ReadsOf(s) = {} /\ Pending(s) = 0
  BY <1>2 DEF PinsOf, Live, ReadsOf, Pending
<1>10. CountInv
  <2>1. \A s \in Threads : M!Latest(s) = 1 /\ Value(s) = 0
    <3> DEFINE m == message(0)
    <3>1. m.val = 0 /\ \A s \in Threads : hist[s] = <<m>>
      BY <1>3
    <3> HIDE DEF m
    <3>2. Len(<<m>>) = 1 /\ <<m>>[1] = m
      OBVIOUS
    <3> SUFFICES ASSUME NEW s \in Threads
                 PROVE  M!Latest(s) = 1 /\ Value(s) = 0
      OBVIOUS
    <3>3. hist[s] = <<m>>
      BY <3>1
    <3>4. M!Latest(s) = 1
      BY <3>2, <3>3 DEF M!Latest
    <3>5. M!Last(s) = m
      BY <3>2, <3>3, <3>4 DEF M!Last
    <3> QED
      BY <3>1, <3>4, <3>5 DEF Value
  <2>2. Cardinality({}) = 0
    BY FS_EmptySet
  <2> QED
    BY <1>9, <2>1, <2>2 DEF CountInv, CountOf
<1>11. RegisteredInv
  BY <1>2, <1>9 DEF RegisteredInv
<1>12. WritesInv
  BY <1>2 DEF WritesInv, Writes, Live
<1>13. ReadsInv
  BY <1>9 DEF ReadsInv
<1>14. ScanInv
  BY <1>2 DEF ScanInv
<1> QED
  BY <1>5, <1>6, <1>8, <1>10, <1>11, <1>12, <1>13, <1>14 DEF IInv

LEMMA StutterStep ==
  ASSUME IInv, UNCHANGED vars
  PROVE  IInv'
<1> USE DEF IInv
<1>1. /\ pc' = pc /\ registry' = registry /\ todo' = todo /\ writer' = writer
      /\ scanner' = scanner /\ passed' = passed /\ guard' = guard /\ done' = done
      /\ hist' = hist /\ clock' = clock
  BY DEF vars
<1>2. /\ \A l \in Locs : Value(l)' = Value(l) /\ Passes(l)' = Passes(l)
                         /\ M!Last(l)' = M!Last(l) /\ M!Latest(l)' = M!Latest(l)
      /\ \A s \in Threads : /\ PinsOf(s)' = PinsOf(s) /\ ReadsOf(s)' = ReadsOf(s)
                            /\ Pending(s)' = Pending(s) /\ Know(s)' = Know(s)
      /\ \A g \in Guards : Live(g)' = Live(g) /\ (Live(g) => guard[g].by \in Threads)
      /\ Writes' = Writes
  BY <1>1, SameHistory, GuardType DEF PinsOf, ReadsOf, Pending, Know, Live, Writes
<1>3. TypeOK'
  BY <1>1 DEF TypeOK
<1>4. LockInv' /\ FlagInv' /\ RegisteredInv'
  BY <1>1, <1>2, FlagIsNoCounter DEF LockInv, FlagInv, RegisteredInv
<1>5. CountInv'
  BY <1>1, <1>2, CountKept DEF CountInv
<1>6. Grows
  BY <1>2 DEF Grows
<1>7. WritesInv' /\ ReadsInv'
  BY <1>1, <1>2, <1>6, WritesKept, ReadsKept, FlagIsNoCounter
<1>8. ScanInv'
  <2>1. \A u \in Threads, s \in Threads : Quiet(u, s) => Quiet(u, s)'
    BY <1>2, <1>6, QuietKept
  <2> QED
    BY <1>1, <2>1 DEF ScanInv, TypeOK
<1> QED
  BY <1>3, <1>4, <1>5, <1>7, <1>8

(* The invariant holds, for all threads, guards and bounds.                *)
THEOREM Invariance == Spec => []IInv
<1>1. IInv /\ [Next]_vars => IInv'
  <2> SUFFICES ASSUME IInv, [Next]_vars
               PROVE  IInv'
    OBVIOUS
  <2>1. ASSUME NEW t \in Threads,
               \/ BeginRead(t) \/ RegisterSlot(t) \/ Pin(t) \/ Refuse(t) \/ Undo(t)
               \/ \E g \in Guards : Admit(t, g) \/ Send(g, t)
        PROVE  IInv'
    BY <2>1, ReadStep, AdmitStep, SendStep
  <2>2. ASSUME NEW t \in Threads,
               \/ LockWrite(t) \/ Raise(t) \/ LockRegistry(t)
               \/ \E s \in Threads : ScanZero(t, s) \/ ScanAgain(t, s)
               \/ EnterWrite(t) \/ Write(t) \/ Lower(t) \/ Unlock(t)
        PROVE  IInv'
    BY <2>2, LockWriteStep, FlagStep, ScanStep, WriteStep, UnlockStep
  <2>3. ASSUME NEW g \in Guards, Read(g) \/ DropGuard(g)
        PROVE  IInv'
    BY <2>3, GuardReadStep, DropStep
  <2>4. CASE UNCHANGED vars
    BY <2>4, StutterStep
  <2> QED
    BY <2>1, <2>2, <2>3, <2>4 DEF Next
<1> QED
  BY InitInv, <1>1, PTL DEF Spec

(* Every variable has its type, and no counter ever falls below zero: each *)
(* decrement takes back an increment of its own.                           *)
THEOREM MemoryTypes == Spec => []TypeOK
<1>1. IInv => TypeOK
  BY DEF IInv
<1> QED
  BY <1>1, Invariance, PTL

(* The contents have no data race: by the orderings of the code, not only  *)
(* by the order in which the steps happen to be taken, every read comes    *)
(* after the writes before it, and every write after all reads and writes. *)
THEOREM NoDataRace == Spec => []RaceFree
<1>1. IInv => RaceFree
  <2> SUFFICES ASSUME IInv
               PROVE  RaceFree
    OBVIOUS
  <2>1. \A g \in Guards : Live(g) =>
          \A a \in done : a.kind = "write" => a \in clock[guard[g].by].know
    BY DEF IInv, WritesInv, Writes, Know
  <2>2. ASSUME NEW t \in Threads, pc[t] = "write", NEW a \in done
        PROVE  a \in clock[t].know
    <3>1. a.kind \in {"read", "write"} /\ a.slot \in Threads
      BY DEF IInv, TypeOK, Access
    <3>2. CASE a.kind = "write"
      BY <2>2, <3>2 DEF IInv, LockInv, WritesInv, Writes, Know
    <3>3. CASE a.kind = "read"
      <4>1. a \in ReadsOf(a.slot)
        BY <3>3 DEF ReadsOf
      <4>2. Quiet(t, a.slot)
        BY <2>2, <3>1 DEF IInv, ScanInv
      <4> QED
        BY <4>1, <4>2 DEF Quiet, Know
    <3> QED
      BY <3>1, <3>2, <3>3
  <2> QED
    BY <2>1, <2>2 DEF RaceFree
<1> QED
  BY <1>1, Invariance, PTL

-----------------------------------------------------------------------------
(* The abstract lock.                                                      *)

(* Steps that leave the guards alone and change neither who is in a write  *)
(* nor who holds the mutex.                                                *)
LEMMA LockAlone ==
  ASSUME guard' = guard, writer' = writer,
         \A u \in Threads : pc'[u] = "write" <=> pc[u] = "write",
         writer \in Threads \cup {None}
  PROVE  UNCHANGED Lock!vars
<1>1. Changing' = Changing
  BY DEF Changing
<1>2. Reading' = Reading
  BY DEF Reading, Live
<1> QED
  BY <1>1, <1>2 DEF Lock!vars

(* A thread that finds the flag down has read its last value, so nobody is *)
(* in a write.                                                             *)
LEMMA NobodyChanging ==
  ASSUME IInv, NEW t \in Threads, NEW i \in DOMAIN hist[Flag],
         hist[Flag][i].val = FALSE, M!Load(t, Flag, "SeqCst", i)
  PROVE  Changing = None
<1>1. TypeOK /\ FlagInv /\ writer \in Threads \cup {None}
  BY DEF IInv, TypeOK
<1>2. \A j \in i + 1 .. M!Latest(Flag) : hist[Flag][j].order # "SeqCst"
  BY <1>1, LoadEffect, FlagIsNoCounter
<1>3. i = M!Latest(Flag)
  <2>1. M!Latest(Flag) \in Nat \ {0} /\ i \in 1 .. M!Latest(Flag)
    BY <1>1, HistoryType, FlagIsNoCounter
  <2>2. hist[Flag][M!Latest(Flag)].order = "SeqCst"
    BY <1>1 DEF FlagInv, M!Last
  <2> QED
    BY <1>2, <2>1, <2>2
<1>4. Value(Flag) = FALSE
  BY <1>3 DEF Value, M!Last
<1> QED
  BY <1>1, <1>4 DEF FlagInv, Changing

(* A step of the protocol is one of the abstract lock, or none of it.      *)
LEMMA LockStep ==
  ASSUME IInv, Next
  PROVE  Lock!Next \/ UNCHANGED Lock!vars
<1> DEFINE Goal == Lock!Next \/ UNCHANGED Lock!vars
<1> USE DEF Goto
<1>0. /\ pc \in [Threads -> Labels] /\ writer \in Threads \cup {None}
      /\ None \notin Threads
      /\ \A t \in Threads : pc[t] \in {"raise", "registry", "scan", "write", "unlock"} <=> writer = t
      /\ guard \in [Guards -> [slot : Threads, by : Threads] \cup {None}]
  BY SlotMemoryAssumption DEF IInv, TypeOK, LockInv
<1>1. ASSUME NEW t \in Threads,
             \/ BeginRead(t) \/ RegisterSlot(t) \/ Pin(t) \/ Refuse(t) \/ Undo(t)
             \/ Raise(t) \/ LockRegistry(t) \/ Write(t)
             \/ \E s \in Threads : ScanZero(t, s) \/ ScanAgain(t, s)
      PROVE  Goal
  <2>1. guard' = guard /\ writer' = writer
    BY <1>1 DEF BeginRead, RegisterSlot, Pin, Refuse, Undo, Raise, LockRegistry,
       Write, ScanZero, ScanAgain, UnlockRegistry, lockVars
  <2>2. \/ pc' = pc
        \/ \E to \in Labels \ {"write"} : pc[t] # "write" /\ pc' = [pc EXCEPT ![t] = to]
    BY <1>1 DEF BeginRead, RegisterSlot, Pin, Refuse, Undo, Raise, LockRegistry,
       Write, ScanZero, ScanAgain, Labels
  <2>3. \A u \in Threads : pc'[u] = "write" <=> pc[u] = "write"
    BY <1>0, <2>2
  <2> QED
    BY <1>0, <2>1, <2>3, LockAlone
<1>2. ASSUME NEW t \in Threads, LockWrite(t)
      PROVE  Goal
  <2>1. Changing = None /\ pc'[t] = "raise" /\ writer' = t
    BY <1>0, <1>2 DEF LockWrite, Changing
  <2>2. Changing' = None
    BY <2>1 DEF Changing
  <2>3. Reading' = Reading
    BY <1>2 DEF LockWrite, Reading, Live
  <2> QED
    BY <2>1, <2>2, <2>3 DEF Lock!vars
<1>3. ASSUME NEW t \in Threads, EnterWrite(t)
      PROVE  Goal
  <2>1. writer = t /\ writer' = t /\ pc[t] = "scan" /\ pc'[t] = "write"
    BY <1>0, <1>3 DEF EnterWrite, UnlockRegistry
  <2>2. Changing = None /\ Changing' = t
    BY <1>0, <2>1 DEF Changing
  <2>3. \A s \in Threads : PinsOf(s) = {}
    <3>1. ASSUME NEW s \in registry
          PROVE  Quiet(t, s)
      BY <1>3, <2>1, <3>1 DEF EnterWrite, IInv, ScanInv
    <3> QED
      BY <3>1 DEF IInv, RegisteredInv, Quiet
  <2>4. Reading = {}
    BY <1>0, <2>3 DEF Reading, PinsOf, Live
  <2>5. Reading' = Reading
    BY <1>3 DEF EnterWrite, Reading, Live
  <2>6. Lock!StartWrite(t)
    BY <2>2, <2>4, <2>5 DEF Lock!StartWrite
  <2> QED
    BY <2>6 DEF Lock!Next
<1>4. ASSUME NEW t \in Threads, Lower(t)
      PROVE  Goal
  <2>1. writer = t /\ writer' = t /\ pc[t] = "write" /\ pc'[t] = "unlock"
    BY <1>0, <1>4 DEF Lower, lockVars
  <2>2. Changing = t /\ Changing' = None
    BY <1>0, <2>1 DEF Changing
  <2>3. Reading' = Reading
    BY <1>4 DEF Lower, Reading, Live
  <2>4. Lock!EndWrite
    BY <1>0, <2>2, <2>3 DEF Lock!EndWrite
  <2> QED
    BY <2>4 DEF Lock!Next
<1>5. ASSUME NEW t \in Threads, Unlock(t)
      PROVE  Goal
  <2>1. writer = t /\ writer' = None /\ pc[t] = "unlock"
    BY <1>0, <1>5 DEF Unlock
  <2>2. Changing = None /\ Changing' = None
    BY <2>1 DEF Changing
  <2>3. Reading' = Reading
    BY <1>5 DEF Unlock, Reading, Live
  <2> QED
    BY <2>2, <2>3 DEF Lock!vars
<1>6. ASSUME NEW t \in Threads, NEW g \in Guards, Admit(t, g)
      PROVE  Goal
  <2>1. Changing = None
    BY <1>6, NobodyChanging DEF Admit, LookOrder
  <2>2. writer' = writer /\ \A u \in Threads : pc'[u] = "write" <=> pc[u] = "write"
    BY <1>0, <1>6 DEF Admit, lockVars
  <2>3. Changing' = None
    BY <1>0, <2>1, <2>2 DEF Changing
  <2>4. g \notin Reading /\ Reading' = Reading \cup {g}
    <3>1. [slot |-> t, by |-> t] # None
      BY SlotMemoryAssumption
    <3> QED
      BY <1>0, <1>6, <3>1 DEF Admit, Reading, Live
  <2>5. Lock!StartRead(g)
    BY <2>1, <2>3, <2>4 DEF Lock!StartRead
  <2> QED
    BY <2>5 DEF Lock!Next
<1>7. ASSUME NEW t \in Threads, NEW g \in Guards, Send(g, t)
      PROVE  Goal
  <2>1. Reading' = Reading
    <3>1. [guard[g] EXCEPT !.by = t] \in [slot : Threads, by : Threads]
      BY <1>0, <1>7 DEF Send, Live
    <3>2. [guard[g] EXCEPT !.by = t] # None
      BY <3>1, SlotMemoryAssumption
    <3>3. guard' = [guard EXCEPT ![g] = [guard[g] EXCEPT !.by = t]] /\ Live(g)
      BY <1>7 DEF Send
    <3> QED
      BY <1>0, <3>2, <3>3 DEF Reading, Live
  <2>2. Changing' = Changing
    BY <1>7 DEF Send, lockVars, Changing
  <2> QED
    BY <2>1, <2>2 DEF Lock!vars
<1>8. ASSUME NEW g \in Guards, Read(g)
      PROVE  Goal
  BY <1>8 DEF Read, lockVars, Reading, Live, Changing, Lock!vars
<1>9. ASSUME NEW g \in Guards, DropGuard(g)
      PROVE  Goal
  <2>1. g \in Reading /\ Reading' = Reading \ {g}
    BY <1>0, <1>9 DEF DropGuard, Reading, Live
  <2>2. Changing' = Changing
    BY <1>9 DEF DropGuard, lockVars, Changing
  <2>3. Lock!EndRead(g)
    BY <2>1, <2>2 DEF Lock!EndRead
  <2> QED
    BY <2>3 DEF Lock!Next
<1> QED
  BY <1>1, <1>2, <1>3, <1>4, <1>5, <1>6, <1>7, <1>8, <1>9 DEF Next

(* With the orderings of the code the protocol is a reader-writer lock,    *)
(* also where loads return old values (map_hash.rs:144-157).               *)
THEOREM MemoryRefinement == Spec => ImplementsRwLock
<1>1. Init => Lock!Init
  BY DEF Init, Lock!Init, Reading, Live, Changing
<1>2. IInv /\ [Next]_vars => [Lock!Next]_(Lock!vars)
  <2> SUFFICES ASSUME IInv, [Next]_vars
               PROVE  Lock!Next \/ UNCHANGED Lock!vars
    OBVIOUS
  <2>1. CASE Next
    BY <2>1, LockStep
  <2>2. CASE UNCHANGED vars
    BY <2>2 DEF vars, lockVars, Lock!vars, Reading, Live, Changing
  <2> QED
    BY <2>1, <2>2
<1> QED
  BY <1>1, <1>2, Invariance, PTL DEF Spec, ImplementsRwLock, Lock!Spec

=============================================================================
