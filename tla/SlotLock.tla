------------------------------ MODULE SlotLock ------------------------------
(***************************************************************************)
(* The read-write separation that the four containers of dark_std::sync    *)
(* share: begin_read, begin_write, and the guards that end a read or a     *)
(* write.  The same lines occur in map_hash.rs, map_btree.rs, map_index.rs *)
(* and vec.rs; the guards are in sync/mod.rs.                              *)
(*                                                                         *)
(* One action is one access to shared memory (an atomic, a mutex) or one   *)
(* call or return of a method.  The contents are left out: what a thread   *)
(* does between Admit and the end of its read, and between EnterWrite and  *)
(* LowerWriting, is the access the protocol has to keep apart from others. *)
(* Interleavings are sequentially consistent, as the SeqCst orderings of   *)
(* begin_read, begin_write and WriteLock::drop make them.                  *)
(***************************************************************************)
EXTENDS Integers, Sequences, FiniteSets

CONSTANTS
  Threads,     (* threads that share one container                         *)
  Guards,      (* names for the read guards that may be alive at once      *)
  Iters,       (* the guards that are VecIter: the only ones that are Send *)
  None,        (* "nobody"                                                 *)
  MaxPanics,   (* how often a thread's K or V code may panic inside a read *)
  Discipline   (* which calls a thread makes while it holds a guard        *)

(* "any":        every call, also those that block on the caller itself.   *)
(* "documented": the deadlock note is followed: no write method while a    *)
(*               guard is alive, no method at all under a write guard.     *)
(* "one_guard":  no method at all while a guard is alive.                  *)
Disciplines == {"any", "documented", "one_guard"}

ASSUME SlotLockAssumption ==
  /\ None \notin Threads
  /\ None \notin Guards
  /\ Threads \cap Guards = {}
  /\ IsFiniteSet(Guards)
  /\ Iters \subseteq Guards
  /\ MaxPanics \in Nat
  /\ Discipline \in Disciplines

VARIABLES
  pc,        (* where each thread is, see Labels                           *)
  registry,  (* the container's registry: slots in order of registration,  *)
             (*   each named by the thread that pushed it                  *)
  count,     (* the reader counter in each thread's slot                   *)
  writing,   (* the container's `writing` flag                             *)
  writer,    (* holder of the `write` mutex                                *)
  regLock,   (* holder of the registry mutex, while it scans               *)
  pos,       (* the registry position the scan is at                       *)
  slotOf,    (* the slot a live guard pins                                 *)
  heldBy,    (* the thread that owns a live guard                          *)
  wguard,    (* the thread that owns the live write guard                  *)
  leaked     (* pins that no guard and no method will ever give back       *)

vars == <<pc, registry, count, writing, writer, regLock, pos,
          slotOf, heldBy, wguard, leaked>>

(* What the write side, the guards and the registry are made of.           *)
writeVars == <<writing, writer, regLock, pos, wguard>>
guardVars == <<slotOf, heldBy, leaked>>

Labels == {"user",                               \* outside the container
           "slot", "inc", "check", "undo",       \* in begin_read
           "reading",                            \* reading the contents
           "wlock", "raise", "rlock", "scan",    \* in begin_write
           "writing",                            \* changing the contents
           "lower", "unlock"}                    \* in WriteLock::drop

Pinning == {"check", "undo", "reading"}

Goto(t, from, to) ==
  /\ pc[t] = from
  /\ pc' = [pc EXCEPT ![t] = to]

Registered(t) == \E i \in DOMAIN registry : registry[i] = t
HoldsRead(t)  == \E g \in Guards : heldBy[g] = t
Pinned(s)     == {g \in Guards : slotOf[g] = s}

MayRead(t) ==
  \/ Discipline = "any"
  \/ Discipline = "documented" /\ wguard # t
  \/ Discipline = "one_guard" /\ wguard # t /\ ~HoldsRead(t)

MayWrite(t) ==
  \/ Discipline = "any"
  \/ wguard # t /\ ~HoldsRead(t)

Init ==
  /\ pc = [t \in Threads |-> "user"]
  /\ registry = <<>>
  /\ count = [t \in Threads |-> 0]
  /\ writing = FALSE
  /\ writer = None
  /\ regLock = None
  /\ pos = 1
  /\ slotOf = [g \in Guards |-> None]
  /\ heldBy = [g \in Guards |-> None]
  /\ wguard = None
  /\ leaked = [t \in Threads |-> 0]

-----------------------------------------------------------------------------
(* Slips this protocol would not survive: each is a changed form of the    *)
(* action its name is derived from, and breaks a property below.           *)

(* The refused path and the None path of get release the slot; so does a   *)
(* get that has already put the pin into the guard.                        *)
KeepGuardReleased(t, g) ==
  /\ Goto(t, "reading", "user")
  /\ slotOf[g] = None
  /\ slotOf' = [slotOf EXCEPT ![g] = t]
  /\ heldBy' = [heldBy EXCEPT ![g] = t]
  /\ count' = [count EXCEPT ![t] = @ - 1]
  /\ UNCHANGED <<registry, writeVars, leaked>>

(* A get of a missing key returns None without its fetch_sub.              *)
EndReadUnreleased(t) ==
  /\ Goto(t, "reading", "user")
  /\ UNCHANGED <<registry, count, writeVars, guardVars>>

(* The reader looks at the flag and goes on whatever it sees.              *)
AdmitAnyway(t) ==
  /\ Goto(t, "check", "reading")
  /\ UNCHANGED <<registry, count, writeVars, guardVars>>

(* The scan stops one counter too early.                                   *)
EnterWriteEarly(t) ==
  /\ Goto(t, "scan", "writing")
  /\ pos >= Len(registry)
  /\ regLock' = None
  /\ UNCHANGED <<registry, count, writing, writer, pos, wguard, guardVars>>

(* The scan starts over without `drop(registry)`.                          *)
RetryScanLocked(t) ==
  /\ Goto(t, "scan", "rlock")
  /\ pos <= Len(registry)
  /\ count[registry[pos]] # 0
  /\ UNCHANGED <<registry, count, writeVars, guardVars>>

(* WriteLock::drop releases the mutex only.                                *)
LowerWritingNot(t) ==
  /\ Goto(t, "lower", "unlock")
  /\ UNCHANGED <<registry, count, writeVars, guardVars>>

-----------------------------------------------------------------------------
(* Reading.                                                                *)

(* A read method is called; the thread-local slot is looked up.            *)
BeginRead(t) ==
  /\ MayRead(t)
  /\ Goto(t, "user", IF Registered(t) THEN "inc" ELSE "slot")
  /\ UNCHANGED <<registry, count, writeVars, guardVars>>

(* The first read of a thread pushes its counter under the registry lock.  *)
RegisterSlot(t) ==
  /\ Goto(t, "slot", "inc")
  /\ regLock = None
  /\ registry' = Append(registry, t)
  /\ count' = [count EXCEPT ![t] = 0]
  /\ UNCHANGED <<writeVars, guardVars>>

PinSlot(t) ==
  /\ Goto(t, "inc", "check")
  /\ count' = [count EXCEPT ![t] = @ + 1]
  /\ UNCHANGED <<registry, writeVars, guardVars>>

Admit(t) ==
  /\ Goto(t, "check", "reading")
  /\ ~writing
  /\ UNCHANGED <<registry, count, writeVars, guardVars>>

Refuse(t) ==
  /\ Goto(t, "check", "undo")
  /\ writing
  /\ UNCHANGED <<registry, count, writeVars, guardVars>>

UnpinAndYield(t) ==
  /\ Goto(t, "undo", "inc")
  /\ count' = [count EXCEPT ![t] = @ - 1]
  /\ UNCHANGED <<registry, writeVars, guardVars>>

(* len, is_empty, contains, contains_key, and get of a missing key.        *)
EndRead(t) ==
  /\ Goto(t, "reading", "user")
  /\ count' = [count EXCEPT ![t] = @ - 1]
  /\ UNCHANGED <<registry, writeVars, guardVars>>

(* get of a present key, iter, dirty_ref: the pin goes into the guard.     *)
KeepGuard(t, g) ==
  /\ Goto(t, "reading", "user")
  /\ slotOf[g] = None
  /\ slotOf' = [slotOf EXCEPT ![g] = t]
  /\ heldBy' = [heldBy EXCEPT ![g] = t]
  /\ UNCHANGED <<registry, count, writeVars, leaked>>

(* Hash, Eq, Ord or PartialEq of K or V panics inside get, contains_key or *)
(* contains: no guard exists yet and the fetch_sub is not reached.         *)
PanicInRead(t) ==
  /\ Goto(t, "reading", "user")
  /\ leaked[t] < MaxPanics
  /\ leaked' = [leaked EXCEPT ![t] = @ + 1]
  /\ UNCHANGED <<registry, count, writeVars, slotOf, heldBy>>

DropGuard(t, g) ==
  /\ pc[t] = "user"
  /\ heldBy[g] = t
  /\ count' = [count EXCEPT ![slotOf[g]] = @ - 1]
  /\ slotOf' = [slotOf EXCEPT ![g] = None]
  /\ heldBy' = [heldBy EXCEPT ![g] = None]
  /\ UNCHANGED <<pc, registry, writeVars, leaked>>

(* A VecIter is sent to another thread, which drops it there.              *)
MoveIter(t, u, g) ==
  /\ g \in Iters
  /\ heldBy[g] = t
  /\ pc[t] = "user" /\ pc[u] = "user"
  /\ heldBy' = [heldBy EXCEPT ![g] = u]
  /\ UNCHANGED <<pc, registry, count, writeVars, slotOf, leaked>>

-----------------------------------------------------------------------------
(* Writing.                                                                *)

BeginWrite(t) ==
  /\ MayWrite(t)
  /\ Goto(t, "user", "wlock")
  /\ UNCHANGED <<registry, count, writeVars, guardVars>>

LockWrite(t) ==
  /\ Goto(t, "wlock", "raise")
  /\ writer = None
  /\ writer' = t
  /\ UNCHANGED <<registry, count, writing, regLock, pos, wguard, guardVars>>

RaiseWriting(t) ==
  /\ Goto(t, "raise", "rlock")
  /\ writing' = TRUE
  /\ UNCHANGED <<registry, count, writer, regLock, pos, wguard, guardVars>>

LockRegistry(t) ==
  /\ Goto(t, "rlock", "scan")
  /\ regLock = None
  /\ regLock' = t
  /\ pos' = 1
  /\ UNCHANGED <<registry, count, writing, writer, wguard, guardVars>>

(* The scan loads one counter after the other ...                          *)
PassSlot(t) ==
  /\ pc[t] = "scan"
  /\ pos <= Len(registry)
  /\ count[registry[pos]] = 0
  /\ pos' = pos + 1
  /\ UNCHANGED <<pc, registry, count, writing, writer, regLock, wguard, guardVars>>

(* ... and starts over, without the registry lock, when one is not zero.   *)
RetryScan(t) ==
  /\ Goto(t, "scan", "rlock")
  /\ pos <= Len(registry)
  /\ count[registry[pos]] # 0
  /\ regLock' = None
  /\ UNCHANGED <<registry, count, writing, writer, pos, wguard, guardVars>>

EnterWrite(t) ==
  /\ Goto(t, "scan", "writing")
  /\ pos > Len(registry)
  /\ regLock' = None
  /\ UNCHANGED <<registry, count, writing, writer, pos, wguard, guardVars>>

(* insert, remove, push, clear, ..., get_mut of a missing key, or a panic  *)
(* in one of them: the WriteLock is dropped when the method is left.       *)
EndWrite(t) ==
  /\ Goto(t, "writing", "lower")
  /\ UNCHANGED <<registry, count, writeVars, guardVars>>

(* get_mut of a present key, iter_mut: the WriteLock goes into the guard.  *)
KeepWriteGuard(t) ==
  /\ Goto(t, "writing", "user")
  /\ wguard' = t
  /\ UNCHANGED <<registry, count, writing, writer, regLock, pos, guardVars>>

DropWriteGuard(t) ==
  /\ Goto(t, "user", "lower")
  /\ wguard = t
  /\ wguard' = None
  /\ UNCHANGED <<registry, count, writing, writer, regLock, pos, guardVars>>

(* WriteLock::drop lowers the flag; its mutex guard is dropped after that. *)
LowerWriting(t) ==
  /\ Goto(t, "lower", "unlock")
  /\ writing' = FALSE
  /\ UNCHANGED <<registry, count, writer, regLock, pos, wguard, guardVars>>

UnlockWrite(t) ==
  /\ Goto(t, "unlock", "user")
  /\ writer' = None
  /\ UNCHANGED <<registry, count, writing, regLock, pos, wguard, guardVars>>

-----------------------------------------------------------------------------

(* What a thread does without waiting for a mutex and without its user.    *)
Run(t) ==
  \/ PinSlot(t) \/ Admit(t) \/ Refuse(t) \/ UnpinAndYield(t)
  \/ EndRead(t) \/ (\E g \in Guards : KeepGuard(t, g)) \/ PanicInRead(t)
  \/ RaiseWriting(t) \/ PassSlot(t) \/ RetryScan(t) \/ EnterWrite(t)
  \/ EndWrite(t) \/ KeepWriteGuard(t) \/ LowerWriting(t) \/ UnlockWrite(t)

(* What a thread does when it gets a mutex.                                *)
Acquire(t) == RegisterSlot(t) \/ LockWrite(t) \/ LockRegistry(t)

(* What the user of the container decides.                                 *)
Call(t) == BeginRead(t) \/ BeginWrite(t)
Drop(t) == (\E g \in Guards : DropGuard(t, g)) \/ DropWriteGuard(t)
Move(t) == \E u \in Threads \ {t}, g \in Guards : MoveIter(t, u, g)

Next == \E t \in Threads : Run(t) \/ Acquire(t) \/ Call(t) \/ Drop(t) \/ Move(t)

Spec == Init /\ [][Next]_vars

(***************************************************************************)
(* Fairness.  A running thread keeps running (WF of Run): that is all the  *)
(* spin loops rely on.  parking_lot mutexes are eventually fair, so a      *)
(* thread that waits for one that is freed again and again gets it (SF).   *)
(* The user drops every guard some day, wherever it was sent; nothing says *)
(* that the user makes another call.                                       *)
(***************************************************************************)
Fairness ==
  /\ \A t \in Threads : WF_vars(Run(t))
  /\ \A t \in Threads : SF_vars(Acquire(t))
  /\ \A g \in Guards : WF_vars(\E t \in Threads : DropGuard(t, g))
  /\ \A t \in Threads : WF_vars(DropWriteGuard(t))

FairSpec == Spec /\ Fairness

-----------------------------------------------------------------------------
(* Properties.                                                             *)

(* Every variable has its type; in particular a counter never goes below   *)
(* zero, where the AtomicUsize of the code would wrap around.              *)
TypeOK ==
  /\ pc \in [Threads -> Labels]
  /\ registry \in Seq(Threads)
  /\ count \in [Threads -> Nat]
  /\ writing \in BOOLEAN
  /\ writer \in Threads \cup {None}
  /\ regLock \in Threads \cup {None}
  /\ pos \in Nat \ {0}
  /\ slotOf \in [Guards -> Threads \cup {None}]
  /\ heldBy \in [Guards -> Threads \cup {None}]
  /\ wguard \in Threads \cup {None}
  /\ leaked \in [Threads -> 0 .. MaxPanics]

(* A thread reads the contents, in a method or through guards on its slot. *)
ReadsThrough(s) == pc[s] = "reading" \/ Pinned(s) # {}
Writes(t)       == pc[t] = "writing" \/ wguard = t

(* The SAFETY comment (map_hash.rs:144-146): whoever may change the        *)
(* contents is the only one who looks at them.  The scan reads the         *)
(* counters one by one, so this needs the flag and the scan together.      *)
Exclusion ==
  \A t \in Threads : Writes(t) =>
    /\ \A s \in Threads : ~ReadsThrough(s)
    /\ \A u \in Threads \ {t} : ~Writes(u)

(* A slot's counter is the number of the pins on it: one for each live     *)
(* guard, whichever thread holds it, one for the read in progress, and one *)
(* for each read that a panic left without giving its pin back             *)
(* (mod.rs:23-24: writers scan the registry to know when all readers are   *)
(* gone).                                                                  *)
CountersExact ==
  \A s \in Threads :
    count[s] = Cardinality(Pinned(s)) + leaked[s]
                 + (IF pc[s] \in Pinning THEN 1 ELSE 0)

(* Who cannot take its next step until somebody else has taken one.        *)
Refused(t) == pc[t] \in {"inc", "check", "undo"} /\ writing

WaitsFor(t, u) ==
  \/ pc[t] = "wlock" /\ writer = u
  \/ pc[t] \in {"slot", "rlock"} /\ regLock = u
  \/ Refused(t) /\ writer = u
  \/ /\ pc[t] \in {"rlock", "scan"}
     /\ \E g \in Guards : slotOf[g] # None /\ heldBy[g] = u

(* Threads that all wait for one another never move again.  The deadlock   *)
(* note (map_hash.rs:131-135) says how a caller avoids that.               *)
NoCircularWait ==
  \A S \in (SUBSET Threads) \ {{}} :
    \E t \in S : \A u \in S : ~WaitsFor(t, u)

(* A scan meets the counter of a reader that is only there to be refused.  *)
ScanDisturbed ==
  \E t \in Threads :
    /\ RetryScan(t)
    /\ Pinned(registry[pos]) = {}
    /\ pc[registry[pos]] \in {"check", "undo"}

(* README:43-46: a writer waits for the readers it finds and then writes.  *)
(* It waits for ever only if new attempts of spinning readers disturb one  *)
(* scan after the other for ever.                                          *)
WriterEnters ==
  \/ []<><<ScanDisturbed>>_vars
  \/ \A t \in Threads : (pc[t] = "wlock") ~> (pc[t] = "writing")

(* README:44-45: a reader that finds a writer spins until the writer is    *)
(* done, and then reads, unless writers keep coming for ever.              *)
ReaderAdmitted ==
  \/ []<><<ScanDisturbed>>_vars
  \/ []<><<\E t \in Threads : RaiseWriting(t)>>_vars
  \/ \A t \in Threads : (pc[t] \in {"slot", "inc"}) ~> (pc[t] = "reading")

(* README:6-7: writes wait for active readers.  A scan that does not get   *)
(* past a slot has met somebody who reads, or tries to.                    *)
WaitsForReaders ==
  \A t \in Threads :
    LET s == registry[pos] IN
    pc[t] = "scan" /\ pos <= Len(registry) /\ count[s] # 0
      => Pinned(s) # {} \/ pc[s] \in Pinning

(* The abstract reader-writer lock, and how this module implements it: a   *)
(* read access is a thread inside a read method or a guard.                *)
Abstract == INSTANCE RwLock WITH
  Accesses <- Threads \cup Guards,
  reading  <- {t \in Threads : pc[t] = "reading"}
                \cup {g \in Guards : slotOf[g] # None},
  writer   <- IF writer # None /\ (pc[writer] = "writing" \/ wguard = writer)
                THEN writer ELSE None

ImplementsRwLock == Abstract!Spec

=============================================================================
