----------------------------- MODULE SlotMemory -----------------------------
(***************************************************************************)
(* The same protocol as SlotLock, with the memory orderings of its         *)
(* atomics: "SeqCst closes the store-buffering window with the writer's    *)
(* all-zero scan" (map_hash.rs:157), and a read guard is given back with a *)
(* Release.  The questions are whether every access to the contents        *)
(* happens after those it conflicts with (no data race), and whether who   *)
(* is admitted is so by a reader-writer lock, though loads may return old  *)
(* values.                                                                 *)
(*                                                                         *)
(* A read method is a guard that is dropped before the method returns.     *)
(***************************************************************************)
EXTENDS Integers, Sequences, FiniteSets

CONSTANTS
  Threads,
  Readers, Writers,  (* the threads that call read methods, write methods  *)
  Guards,        (* names for the read guards that may be alive at once    *)
  None,
  Flag,          (* the location of `writing`; a thread is the location of *)
                 (*   its counter                                          *)
  MaxCounts,     (* bounds of a run: pins wait while a counter has had so  *)
  MaxFlags,      (*   many values, writers while the flag has,             *)
  MaxAccesses    (*   and so many accesses to the contents are made        *)

ASSUME SlotMemoryAssumption ==
  /\ Flag \notin Threads
  /\ None \notin Threads
  /\ \A g \in [slot : Threads, by : Threads] : g # None
  /\ IsFiniteSet(Guards)
  /\ Readers \cup Writers \subseteq Threads
  /\ {MaxCounts, MaxFlags, MaxAccesses} \subseteq Nat

VARIABLES
  pc,
  registry,      (* the threads whose counters are in the registry         *)
  todo,          (* the counters that the scan has not loaded yet          *)
  writer,        (* holder of the `write` mutex                            *)
  scanner,       (* holder of the registry mutex, while it scans           *)
  passed,        (* what each of the two mutexes passes on                 *)
  guard,         (* the slot each guard pins, and the thread it is with    *)
  done,          (* the accesses to the contents so far                    *)
  hist, clock    (* the atomics                                            *)

vars == <<pc, registry, todo, writer, scanner, passed, guard, done, hist, clock>>
lockVars == <<registry, todo, writer, scanner, passed>>
memory == <<hist, clock>>

Locs   == Threads \cup {Flag}
Access == [kind : {"read", "write"}, slot : Threads, n : Nat]

M == INSTANCE AtomicMemory WITH Events <- Access

(* Slips that the properties below would not survive: an increment that is *)
(* not ordered before the load of the flag; a guard whose reads have not   *)
(* happened before the write that finds it gone; a scan that may read old  *)
(* counters.                                                               *)
PinReleased  == "Release"
UnpinRelaxed == "Relaxed"
ScanAcquired == "Acquire"

(* The orderings of the code.                                              *)
PinOrder   == "SeqCst"
LookOrder  == "SeqCst"
UndoOrder  == "SeqCst"
UnpinOrder == "Release"
RaiseOrder == "SeqCst"
ScanOrder  == "SeqCst"
LowerOrder == "SeqCst"

Labels == {"user", "slot", "pin", "look", "undo",
           "raise", "registry", "scan", "write", "unlock"}

Goto(t, from, to) ==
  /\ pc[t] = from
  /\ pc' = [pc EXCEPT ![t] = to]

Live(g) == guard[g] # None

Init ==
  /\ pc = [t \in Threads |-> "user"]
  /\ registry = {}
  /\ todo = {}
  /\ writer = None
  /\ scanner = None
  /\ passed = [m \in {"write", "registry"} |-> M!Nothing]
  /\ guard = [g \in Guards |-> None]
  /\ done = {}
  /\ M!Start([l \in Locs |-> IF l = Flag THEN FALSE ELSE 0])

-----------------------------------------------------------------------------
(* A slip: a refused reader gives its pin back twice.                      *)
UndoTwice(t) ==
  /\ Goto(t, "undo", "pin")
  /\ M!Add(t, t, UndoOrder, -2)
  /\ UNCHANGED <<lockVars, guard, done>>

-----------------------------------------------------------------------------
(* begin_read, the guards, and what is read through them.                  *)

BeginRead(t) ==
  /\ t \in Readers
  /\ Goto(t, "user", IF t \in registry THEN "pin" ELSE "slot")
  /\ UNCHANGED <<lockVars, guard, done, memory>>

(* The counter is pushed under the registry mutex.                         *)
RegisterSlot(t) ==
  /\ Goto(t, "slot", "pin")
  /\ scanner = None
  /\ registry' = registry \cup {t}
  /\ M!Learn(t, passed["registry"])
  /\ passed' = [passed EXCEPT !["registry"] = M!Join(clock[t], @)]
  /\ UNCHANGED <<todo, writer, scanner, guard, done>>

Pin(t) ==
  /\ Goto(t, "pin", "look")
  /\ M!Latest(t) < MaxCounts
  /\ M!Add(t, t, PinOrder, 1)
  /\ UNCHANGED <<lockVars, guard, done>>

Admit(t, g) ==
  /\ Goto(t, "look", "user")
  /\ ~Live(g)
  /\ \E i \in DOMAIN hist[Flag] :
       hist[Flag][i].val = FALSE /\ M!Load(t, Flag, LookOrder, i)
  /\ guard' = [guard EXCEPT ![g] = [slot |-> t, by |-> t]]
  /\ UNCHANGED <<lockVars, done>>

Refuse(t) ==
  /\ Goto(t, "look", "undo")
  /\ \E i \in DOMAIN hist[Flag] :
       hist[Flag][i].val = TRUE /\ M!Load(t, Flag, LookOrder, i)
  /\ UNCHANGED <<lockVars, guard, done>>

Undo(t) ==
  /\ Goto(t, "undo", "pin")
  /\ M!Add(t, t, UndoOrder, -1)
  /\ UNCHANGED <<lockVars, guard, done>>

Touch(t, kind, slot) ==
  LET a == [kind |-> kind, slot |-> slot, n |-> Cardinality(done)]
  IN  /\ Cardinality(done) < MaxAccesses
      /\ done' = done \cup {a}
      /\ M!Happen(t, a)

Read(g) ==
  /\ Live(g)
  /\ Touch(guard[g].by, "read", guard[g].slot)
  /\ UNCHANGED <<pc, lockVars, guard>>

(* A VecIter is Send; whatever hands it over synchronises.                 *)
Send(g, t) ==
  /\ Live(g)
  /\ M!Learn(t, clock[guard[g].by])
  /\ guard' = [guard EXCEPT ![g].by = t]
  /\ UNCHANGED <<pc, lockVars, done>>

DropGuard(g) ==
  /\ Live(g)
  /\ M!Add(guard[g].by, guard[g].slot, UnpinOrder, -1)
  /\ guard' = [guard EXCEPT ![g] = None]
  /\ UNCHANGED <<pc, lockVars, done>>

-----------------------------------------------------------------------------
(* begin_write, the write, and WriteLock::drop.                            *)

LockWrite(t) ==
  /\ t \in Writers
  /\ Goto(t, "user", "raise")
  /\ writer = None
  /\ writer' = t
  /\ M!Learn(t, passed["write"])
  /\ UNCHANGED <<registry, todo, scanner, passed, guard, done>>

Raise(t) ==
  /\ Goto(t, "raise", "registry")
  /\ M!Latest(Flag) < MaxFlags
  /\ M!Store(t, Flag, RaiseOrder, TRUE)
  /\ UNCHANGED <<lockVars, guard, done>>

LockRegistry(t) ==
  /\ Goto(t, "registry", "scan")
  /\ scanner = None
  /\ scanner' = t
  /\ todo' = registry
  /\ M!Learn(t, passed["registry"])
  /\ UNCHANGED <<registry, writer, passed, guard, done>>

UnlockRegistry(t) ==
  /\ scanner' = None
  /\ todo' = {}
  /\ passed' = [passed EXCEPT !["registry"] = clock'[t]]
  /\ UNCHANGED <<registry, writer>>

(* The order in which the counters are loaded is left open.                *)
ScanZero(t, s) ==
  /\ pc[t] = "scan"
  /\ s \in todo
  /\ \E i \in DOMAIN hist[s] : hist[s][i].val = 0 /\ M!Load(t, s, ScanOrder, i)
  /\ todo' = todo \ {s}
  /\ UNCHANGED <<pc, registry, writer, scanner, passed, guard, done>>

ScanAgain(t, s) ==
  /\ Goto(t, "scan", "registry")
  /\ s \in todo
  /\ \E i \in DOMAIN hist[s] : hist[s][i].val # 0 /\ M!Load(t, s, ScanOrder, i)
  /\ UnlockRegistry(t)
  /\ UNCHANGED <<guard, done>>

EnterWrite(t) ==
  /\ Goto(t, "scan", "write")
  /\ todo = {}
  /\ UNCHANGED memory
  /\ UnlockRegistry(t)
  /\ UNCHANGED <<guard, done>>

Write(t) ==
  /\ pc[t] = "write"
  /\ Touch(t, "write", t)
  /\ UNCHANGED <<pc, lockVars, guard>>

Lower(t) ==
  /\ Goto(t, "write", "unlock")
  /\ M!Store(t, Flag, LowerOrder, FALSE)
  /\ UNCHANGED <<lockVars, guard, done>>

Unlock(t) ==
  /\ Goto(t, "unlock", "user")
  /\ writer' = None
  /\ passed' = [passed EXCEPT !["write"] = clock[t]]
  /\ UNCHANGED <<registry, todo, scanner, guard, done, memory>>

-----------------------------------------------------------------------------

Next ==
  \/ \E t \in Threads :
       \/ BeginRead(t) \/ RegisterSlot(t) \/ Pin(t) \/ Refuse(t) \/ Undo(t)
       \/ LockWrite(t) \/ Raise(t) \/ LockRegistry(t)
       \/ \E s \in Threads : ScanZero(t, s) \/ ScanAgain(t, s)
       \/ EnterWrite(t) \/ Write(t) \/ Lower(t) \/ Unlock(t)
       \/ \E g \in Guards : Admit(t, g) \/ Send(g, t)
  \/ \E g \in Guards : Read(g) \/ DropGuard(g)

Spec == Init /\ [][Next]_vars

-----------------------------------------------------------------------------
(* Properties.                                                             *)

(* Every variable has its type; no counter falls below zero.               *)
TypeOK ==
  /\ pc \in [Threads -> Labels]
  /\ registry \subseteq Threads
  /\ todo \subseteq registry
  /\ writer \in Threads \cup {None}
  /\ scanner \in Threads \cup {None}
  /\ passed \in [{"write", "registry"} -> M!Clock]
  /\ guard \in [Guards -> [slot : Threads, by : Threads] \cup {None}]
  /\ done \subseteq Access /\ IsFiniteSet(done)
  /\ clock \in [Threads -> M!Clock]
  /\ hist = [l \in Locs |-> hist[l]]
  /\ \A t \in Threads : hist[t] \in Seq(M!Message(Nat)) \ {<<>>}
  /\ hist[Flag] \in Seq(M!Message(BOOLEAN)) \ {<<>>}

(* No data race on the contents ("so concurrent access to dirty is         *)
(* race-free", vec.rs:93-95): whoever may read has all writes behind it in *)
(* the order of happens-before, whoever may write has all accesses.        *)
RaceFree ==
  /\ \A g \in Guards : Live(g) =>
       \A a \in done : a.kind = "write" => a \in clock[guard[g].by].know
  /\ \A t \in Threads : pc[t] = "write" => done \subseteq clock[t].know

(* Who has guards, and who may change the contents.                       *)
Reading  == {g \in Guards : Live(g)}
Changing == IF writer # None /\ pc[writer] = "write" THEN writer ELSE None

Lock == INSTANCE RwLock WITH
  Accesses <- Guards,
  reading  <- Reading,
  writer   <- Changing

(* The orderings are enough for the lock as well: though a load may return *)
(* an old value, no reader is admitted past a writer that has entered, and *)
(* no writer past a guard (map_hash.rs:144-152, :157).                     *)
ImplementsRwLock == Lock!Spec

=============================================================================
