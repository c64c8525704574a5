--------------------------- MODULE SlotLockProofs ---------------------------
(***************************************************************************)
(* Theorems about SlotLock for every set of threads, every number of       *)
(* guards and every call discipline.                                       *)
(*                                                                         *)
(* Exclusion is not inductive: that the scan may stop looking at a counter *)
(* it has passed rests on the flag being up for the whole scan (FlagInv),  *)
(* on the mutexes (LockInv, RegInv), on the counters being exact, and on   *)
(* slots that are not registered yet being unused (RegisteredInv).         *)
(***************************************************************************)
EXTENDS SlotLock, FiniteSetTheorems, TLAPS

(* Between LockWrite and UnlockWrite, and while a write guard is alive, a  *)
(* thread holds the mutex, and never both ways at once.                    *)
WritePhase == {"raise", "rlock", "scan", "writing", "lower", "unlock"}

LockInv ==
  /\ \A t \in Threads : pc[t] \in WritePhase \/ wguard = t => writer = t
  /\ \A t \in Threads : wguard = t => pc[t] \notin WritePhase

(* The flag is up from RaiseWriting to LowerWriting.                       *)
FlagInv ==
  \A t \in Threads :
    pc[t] \in {"rlock", "scan", "writing", "lower"} \/ wguard = t => writing

(* The registry mutex is held exactly during a scan.                       *)
RegInv == \A t \in Threads : regLock = t <=> pc[t] = "scan"

HeldInv == \A g \in Guards : slotOf[g] = None <=> heldBy[g] = None

(* A slot that is not in the registry is not in use.                       *)
RegisteredInv ==
  \A s \in Threads :
    /\ pc[s] = "slot" => ~Registered(s)
    /\ ~Registered(s) => /\ pc[s] \notin {"inc", "check", "undo", "reading"}
                         /\ Pinned(s) = {}
                         /\ leaked[s] = 0

(* Nobody reads through a slot that the scan has passed.                   *)
ScanInv ==
  \A t \in Threads : pc[t] = "scan" =>
    /\ pos <= Len(registry) + 1
    /\ \A i \in 1 .. pos - 1 : ~ReadsThrough(registry[i])

IInv ==
  /\ TypeOK
  /\ LockInv
  /\ FlagInv
  /\ RegInv
  /\ HeldInv
  /\ RegisteredInv
  /\ CountersExact
  /\ ScanInv
  /\ Exclusion

-----------------------------------------------------------------------------
(* Counting pins.                                                          *)

(* The guards that a table of slots assigns to slot s: Pinned(s) is        *)
(* PinsIn(slotOf, s).                                                      *)
PinsIn(table, s) == {g \in Guards : table[g] = s}

(* Pins are natural numbers of guards, and none is the empty set.          *)
LEMMA PinsCounted ==
  ASSUME NEW table, NEW s
  PROVE  /\ IsFiniteSet(PinsIn(table, s))
         /\ Cardinality(PinsIn(table, s)) \in Nat
         /\ Cardinality(PinsIn(table, s)) = 0 <=> PinsIn(table, s) = {}
<1>1. IsFiniteSet(PinsIn(table, s))
  BY SlotLockAssumption, FS_Subset DEF PinsIn
<1> QED
  BY <1>1, FS_CardinalityType, FS_EmptySet

(* A guard that takes over a pin of slot t is one more guard on t, and on  *)
(* no other slot.                                                          *)
LEMMA PinAdded ==
  ASSUME NEW table \in [Guards -> Threads \cup {None}],
         NEW g \in Guards, NEW t \in Threads, table[g] = None,
         NEW s \in Threads
  PROVE  Cardinality(PinsIn([table EXCEPT ![g] = t], s))
           = Cardinality(PinsIn(table, s)) + (IF s = t THEN 1 ELSE 0)
<1> DEFINE new == [table EXCEPT ![g] = t]
<1>1. CASE s = t
  <2>1. PinsIn(new, s) = PinsIn(table, s) \cup {g} /\ g \notin PinsIn(table, s)
    BY <1>1, SlotLockAssumption DEF PinsIn
  <2> QED
    BY <1>1, <2>1, PinsCounted, FS_AddElement
<1>2. CASE s # t
  <2>1. PinsIn(new, s) = PinsIn(table, s)
    BY <1>2, SlotLockAssumption DEF PinsIn
  <2> QED
    BY <1>2, <2>1, PinsCounted
<1> QED
  BY <1>1, <1>2

(* A guard that is dropped is one guard less on its slot only.             *)
LEMMA PinRemoved ==
  ASSUME NEW table \in [Guards -> Threads \cup {None}],
         NEW g \in Guards, table[g] \in Threads,
         NEW s \in Threads
  PROVE  Cardinality(PinsIn([table EXCEPT ![g] = None], s))
           = Cardinality(PinsIn(table, s)) - (IF s = table[g] THEN 1 ELSE 0)
<1> DEFINE new == [table EXCEPT ![g] = None]
<1>1. CASE s = table[g]
  <2>1. PinsIn(new, s) = PinsIn(table, s) \ {g} /\ g \in PinsIn(table, s)
    BY <1>1, SlotLockAssumption DEF PinsIn
  <2>2. /\ IsFiniteSet(PinsIn(table, s))
        /\ Cardinality(PinsIn(table, s)) \in Nat
    BY PinsCounted
  <2>3. Cardinality(PinsIn(table, s) \ {g}) = Cardinality(PinsIn(table, s)) - 1
    BY <2>1, <2>2, FS_RemoveElement
  <2> QED
    BY <1>1, <2>1, <2>3
<1>2. CASE s # table[g]
  <2>1. PinsIn(new, s) = PinsIn(table, s)
    BY <1>2, SlotLockAssumption DEF PinsIn
  <2> QED
    BY <1>2, <2>1, PinsCounted
<1> QED
  BY <1>1, <1>2(* A step that moves no guard keeps the counters exact if it changes each   *)
(* counter by as much as the pins of that slot that are not guards.         *)
LEMMA CountersKept ==
  ASSUME TypeOK, TypeOK', CountersExact, slotOf' = slotOf,
         \A s \in Threads :
           count'[s] - leaked'[s] - (IF pc'[s] \in Pinning THEN 1 ELSE 0)
             = count[s] - leaked[s] - (IF pc[s] \in Pinning THEN 1 ELSE 0)
  PROVE  CountersExact'
<1> SUFFICES ASSUME NEW s \in Threads
             PROVE  count'[s] = Cardinality(Pinned(s)') + leaked'[s]
                                  + (IF pc'[s] \in Pinning THEN 1 ELSE 0)
  BY DEF CountersExact
<1>1. Pinned(s)' = Pinned(s) /\ Pinned(s) = PinsIn(slotOf, s)
  BY DEF Pinned, PinsIn
<1>2. Cardinality(Pinned(s)) \in Nat
  BY <1>1, PinsCounted
<1>3. /\ count[s] \in Nat /\ leaked[s] \in Nat
      /\ count'[s] \in Nat /\ leaked'[s] \in Nat
  BY SlotLockAssumption DEF TypeOK
<1>4. count[s] = Cardinality(Pinned(s)) + leaked[s]
                   + (IF pc[s] \in Pinning THEN 1 ELSE 0)
  BY DEF CountersExact
<1> QED
  BY <1>1, <1>2, <1>3, <1>4

(* A counter is above zero while a guard or a reading thread pins the slot. *)
LEMMA UsedSlots ==
  ASSUME TypeOK, CountersExact, NEW s \in Threads,
         Pinned(s) # {} \/ pc[s] \in Pinning
  PROVE  count[s] >= 1
<1>1. Pinned(s) = PinsIn(slotOf, s)
  BY DEF Pinned, PinsIn
<1>2. Cardinality(Pinned(s)) \in Nat /\ (Pinned(s) # {} => Cardinality(Pinned(s)) # 0)
  BY <1>1, PinsCounted
<1>3. leaked[s] \in Nat
  BY SlotLockAssumption DEF TypeOK
<1> QED
  BY <1>2, <1>3 DEF CountersExact

(* A counter at zero, and that of a slot outside the registry, is unused.   *)
LEMMA UnusedSlots ==
  ASSUME TypeOK, CountersExact, RegisteredInv, NEW s \in Threads
  PROVE  /\ count[s] = 0 => Pinned(s) = {} /\ pc[s] \notin Pinning
         /\ ~Registered(s) => count[s] = 0
<1>1. count[s] = 0 => Pinned(s) = {} /\ pc[s] \notin Pinning
  BY UsedSlots
<1>2. ~Registered(s) => count[s] = 0
  <2>1. Cardinality({}) = 0
    BY FS_EmptySet
  <2> QED
    BY <2>1 DEF RegisteredInv, CountersExact, Pinning
<1> QED
  BY <1>1, <1>2

(* A slot the scan has passed is a registered one that nobody reads through. *)
LEMMA ScannedSlots ==
  ASSUME TypeOK, ScanInv, NEW v \in Threads, pc[v] = "scan",
         NEW i \in 1 .. pos - 1
  PROVE  registry[i] \in Threads /\ ~ReadsThrough(registry[i])
<1>1. i \in 1 .. Len(registry)
  BY DEF TypeOK, ScanInv
<1> QED
  BY <1>1 DEF TypeOK, ScanInv

(* A step that lets nobody start to read, to write or to scan disturbs     *)
(* neither the scan nor the exclusion.                                      *)
LEMMA AccessKept ==
  ASSUME TypeOK, ScanInv, Exclusion, registry' = registry, pos' = pos,
         \A s \in Threads : /\ ReadsThrough(s)' => ReadsThrough(s)
                            /\ Writes(s)' => Writes(s)
                            /\ pc'[s] = "scan" => pc[s] = "scan"
  PROVE  ScanInv' /\ Exclusion'
<1>1. ASSUME NEW v \in Threads, pc'[v] = "scan", NEW i \in 1 .. pos - 1
      PROVE  ~ReadsThrough(registry[i])'
  <2>1. PICK s \in Threads : s = registry[i] /\ ~ReadsThrough(s)
    BY <1>1, ScannedSlots
  <2>2. ~ReadsThrough(s)'
    BY <2>1
  <2> QED
    BY <2>1, <2>2 DEF ReadsThrough, Pinned
<1>2. ScanInv'
  BY <1>1 DEF ScanInv
<1>3. Exclusion'
  BY DEF Exclusion
<1> QED
  BY <1>2, <1>3

-----------------------------------------------------------------------------
(* The invariant, step by step.                                             *)

(* A step of a thread that reads, or that begins or ends to.               *)
LEMMA ReadStep ==
  ASSUME IInv, NEW t \in Threads,
         \/ BeginRead(t) \/ RegisterSlot(t) \/ PinSlot(t) \/ Admit(t)
         \/ Refuse(t) \/ UnpinAndYield(t) \/ EndRead(t)
         \/ PanicInRead(t)
  PROVE  IInv'
<1> USE DEF IInv
<1>1. CASE BeginRead(t)
  <2>1. TypeOK'
    BY <1>1, SlotLockAssumption
    DEF TypeOK, Labels, BeginRead, Goto, writeVars, guardVars
  <2>2. LockInv' /\ FlagInv' /\ RegInv'
    BY <1>1, SlotLockAssumption
    DEF TypeOK, LockInv, FlagInv, RegInv, WritePhase, BeginRead, Goto,
        writeVars, guardVars
  <2>3. HeldInv' /\ RegisteredInv'
    BY <1>1
    DEF TypeOK, HeldInv, RegisteredInv, Registered, Pinned, BeginRead, Goto,
        writeVars, guardVars
  <2>4. CountersExact'
    BY <1>1, <2>1, SlotLockAssumption, CountersKept
    DEF TypeOK, Pinning, BeginRead, Goto, writeVars, guardVars
  <2>5. ScanInv' /\ Exclusion'
    BY <1>1, SlotLockAssumption, AccessKept
    DEF TypeOK, ReadsThrough, Pinned, Writes, BeginRead, Goto, writeVars,
        guardVars
  <2> QED
    BY <2>1, <2>2, <2>3, <2>4, <2>5
<1>2. CASE RegisterSlot(t)
  <2>1. TypeOK'
    BY <1>2, SlotLockAssumption
    DEF TypeOK, Labels, RegisterSlot, Goto, writeVars, guardVars
  <2>2. LockInv' /\ FlagInv' /\ RegInv'
    BY <1>2, SlotLockAssumption
    DEF TypeOK, LockInv, FlagInv, RegInv, WritePhase, RegisterSlot, Goto,
        writeVars, guardVars
  <2>3. HeldInv' /\ RegisteredInv'
    <3>1. \A s \in Threads : Registered(s)' <=> Registered(s) \/ s = t
      <4>1. /\ DOMAIN registry = 1 .. Len(registry) /\ Len(registry) \in Nat
            /\ DOMAIN registry' = 1 .. Len(registry) + 1
            /\ \A i \in 1 .. Len(registry) : registry'[i] = registry[i]
            /\ registry'[Len(registry) + 1] = t
        BY <1>2 DEF TypeOK, RegisterSlot
      <4>2. ASSUME NEW s \in Threads, Registered(s)' PROVE Registered(s) \/ s = t
        BY <4>1, <4>2 DEF Registered
      <4>3. ASSUME NEW s \in Threads, Registered(s) PROVE Registered(s)'
        BY <4>1, <4>3 DEF Registered
      <4>4. Registered(t)'
        BY <4>1 DEF Registered
      <4> QED
        BY <4>2, <4>3, <4>4
    <3> QED
      BY <1>2, <3>1
      DEF TypeOK, HeldInv, RegisteredInv, Pinned, RegisterSlot, Goto, guardVars
  <2>4. CountersExact'
    <3>1. ~Registered(t) /\ pc[t] \notin Pinning
      BY <1>2 DEF RegisteredInv, RegisterSlot, Goto, Pinning
    <3>2. count[t] = 0
      BY <3>1, UnusedSlots
    <3>3. count' = count
      BY <1>2, <3>2 DEF TypeOK, RegisterSlot
    <3> QED
      BY <1>2, <2>1, <3>3, CountersKept
      DEF TypeOK, Pinning, RegisterSlot, Goto, guardVars
  <2>5. ScanInv' /\ Exclusion'
    <3>1. \A s \in Threads : pc'[s] # "scan"
      BY <1>2, SlotLockAssumption DEF TypeOK, RegInv, RegisterSlot, Goto
    <3>2. ScanInv'
      BY <3>1 DEF ScanInv
    <3>3. Exclusion'
      BY <1>2
      DEF TypeOK, Exclusion, ReadsThrough, Pinned, Writes, RegisterSlot, Goto,
          writeVars, guardVars
    <3> QED
      BY <3>2, <3>3
  <2> QED
    BY <2>1, <2>2, <2>3, <2>4, <2>5
<1>3. CASE PinSlot(t)
  <2>1. TypeOK'
    <3>1. count' \in [Threads -> Nat]
      BY <1>3 DEF TypeOK, PinSlot
    <3> QED
      BY <1>3, <3>1 DEF TypeOK, Labels, PinSlot, Goto, writeVars, guardVars
  <2>2. LockInv' /\ FlagInv' /\ RegInv'
    BY <1>3, SlotLockAssumption
    DEF TypeOK, LockInv, FlagInv, RegInv, WritePhase, PinSlot, Goto,
        writeVars, guardVars
  <2>3. HeldInv' /\ RegisteredInv'
    BY <1>3
    DEF TypeOK, HeldInv, RegisteredInv, Registered, Pinned, PinSlot, Goto,
        writeVars, guardVars
  <2>4. CountersExact'
    <3>1. ASSUME NEW s \in Threads
          PROVE  count'[s] - leaked'[s] - (IF pc'[s] \in Pinning THEN 1 ELSE 0)
                   = count[s] - leaked[s] - (IF pc[s] \in Pinning THEN 1 ELSE 0)
      <4>1. count[s] \in Nat /\ leaked[s] \in Nat /\ leaked'[s] = leaked[s]
        BY <1>3, SlotLockAssumption DEF TypeOK, PinSlot, guardVars
      <4>2. count'[s] - (IF pc'[s] \in Pinning THEN 1 ELSE 0)
              = count[s] - (IF pc[s] \in Pinning THEN 1 ELSE 0)
        BY <1>3, <4>1 DEF TypeOK, Pinning, PinSlot, Goto
      <4>3. count'[s] \in Nat
        BY <2>1 DEF TypeOK
      <4> QED
        BY <4>1, <4>2, <4>3
    <3>2. slotOf' = slotOf
      BY <1>3 DEF PinSlot, guardVars
    <3> QED
      BY <2>1, <3>1, <3>2, CountersKept
  <2>5. ScanInv' /\ Exclusion'
    BY <1>3, SlotLockAssumption, AccessKept
    DEF TypeOK, ReadsThrough, Pinned, Writes, PinSlot, Goto, writeVars,
        guardVars
  <2> QED
    BY <2>1, <2>2, <2>3, <2>4, <2>5
<1>4. CASE Admit(t)
  <2>1. TypeOK'
    BY <1>4, SlotLockAssumption
    DEF TypeOK, Labels, Admit, Goto, writeVars, guardVars
  <2>2. LockInv' /\ FlagInv' /\ RegInv'
    BY <1>4, SlotLockAssumption
    DEF TypeOK, LockInv, FlagInv, RegInv, WritePhase, Admit, Goto,
        writeVars, guardVars
  <2>3. HeldInv' /\ RegisteredInv'
    BY <1>4
    DEF TypeOK, HeldInv, RegisteredInv, Registered, Pinned, Admit, Goto,
        writeVars, guardVars
  <2>4. CountersExact'
    BY <1>4, <2>1, SlotLockAssumption, CountersKept
    DEF TypeOK, Pinning, Admit, Goto, writeVars, guardVars
  <2>5. ScanInv' /\ Exclusion'
    BY <1>4, SlotLockAssumption
    DEF TypeOK, LockInv, FlagInv, WritePhase, ScanInv, Exclusion,
        ReadsThrough, Writes, Pinned, Admit, Goto, writeVars, guardVars
  <2> QED
    BY <2>1, <2>2, <2>3, <2>4, <2>5
<1>5. CASE Refuse(t)
  <2>1. TypeOK'
    BY <1>5, SlotLockAssumption
    DEF TypeOK, Labels, Refuse, Goto, writeVars, guardVars
  <2>2. LockInv' /\ FlagInv' /\ RegInv'
    BY <1>5, SlotLockAssumption
    DEF TypeOK, LockInv, FlagInv, RegInv, WritePhase, Refuse, Goto,
        writeVars, guardVars
  <2>3. HeldInv' /\ RegisteredInv'
    BY <1>5
    DEF TypeOK, HeldInv, RegisteredInv, Registered, Pinned, Refuse, Goto,
        writeVars, guardVars
  <2>4. CountersExact'
    BY <1>5, <2>1, SlotLockAssumption, CountersKept
    DEF TypeOK, Pinning, Refuse, Goto, writeVars, guardVars
  <2>5. ScanInv' /\ Exclusion'
    BY <1>5, SlotLockAssumption, AccessKept
    DEF TypeOK, ReadsThrough, Pinned, Writes, Refuse, Goto, writeVars,
        guardVars
  <2> QED
    BY <2>1, <2>2, <2>3, <2>4, <2>5
<1>6. CASE UnpinAndYield(t)
  <2>1. TypeOK'
    <3>1. count[t] >= 1
      BY <1>6, UsedSlots DEF UnpinAndYield, Goto, Pinning
    <3> QED
      BY <1>6, <3>1 DEF TypeOK, Labels, UnpinAndYield, Goto, writeVars, guardVars
  <2>2. LockInv' /\ FlagInv' /\ RegInv'
    BY <1>6, SlotLockAssumption
    DEF TypeOK, LockInv, FlagInv, RegInv, WritePhase, UnpinAndYield, Goto,
        writeVars, guardVars
  <2>3. HeldInv' /\ RegisteredInv'
    BY <1>6
    DEF TypeOK, HeldInv, RegisteredInv, Registered, Pinned, UnpinAndYield,
        Goto, writeVars, guardVars
  <2>4. CountersExact'
    <3>1. ASSUME NEW s \in Threads
          PROVE  count'[s] - leaked'[s] - (IF pc'[s] \in Pinning THEN 1 ELSE 0)
                   = count[s] - leaked[s] - (IF pc[s] \in Pinning THEN 1 ELSE 0)
      <4>1. count[s] \in Nat /\ leaked[s] \in Nat /\ leaked'[s] = leaked[s]
        BY <1>6, SlotLockAssumption DEF TypeOK, UnpinAndYield, guardVars
      <4>2. count'[s] - (IF pc'[s] \in Pinning THEN 1 ELSE 0)
              = count[s] - (IF pc[s] \in Pinning THEN 1 ELSE 0)
        BY <1>6, <4>1 DEF TypeOK, Pinning, UnpinAndYield, Goto
      <4>3. count'[s] \in Nat
        BY <2>1 DEF TypeOK
      <4> QED
        BY <4>1, <4>2, <4>3
    <3>2. slotOf' = slotOf
      BY <1>6 DEF UnpinAndYield, guardVars
    <3> QED
      BY <2>1, <3>1, <3>2, CountersKept
  <2>5. ScanInv' /\ Exclusion'
    BY <1>6, SlotLockAssumption, AccessKept
    DEF TypeOK, ReadsThrough, Pinned, Writes, UnpinAndYield, Goto,
        writeVars, guardVars
  <2> QED
    BY <2>1, <2>2, <2>3, <2>4, <2>5
<1>7. CASE EndRead(t)
  <2>1. TypeOK'
    <3>1. count[t] >= 1
      BY <1>7, UsedSlots DEF EndRead, Goto, Pinning
    <3> QED
      BY <1>7, <3>1 DEF TypeOK, Labels, EndRead, Goto, writeVars, guardVars
  <2>2. LockInv' /\ FlagInv' /\ RegInv'
    BY <1>7, SlotLockAssumption
    DEF TypeOK, LockInv, FlagInv, RegInv, WritePhase, EndRead, Goto,
        writeVars, guardVars
  <2>3. HeldInv' /\ RegisteredInv'
    BY <1>7
    DEF TypeOK, HeldInv, RegisteredInv, Registered, Pinned, EndRead, Goto,
        writeVars, guardVars
  <2>4. CountersExact'
    <3>1. ASSUME NEW s \in Threads
          PROVE  count'[s] - leaked'[s] - (IF pc'[s] \in Pinning THEN 1 ELSE 0)
                   = count[s] - leaked[s] - (IF pc[s] \in Pinning THEN 1 ELSE 0)
      <4>1. count[s] \in Nat /\ leaked[s] \in Nat /\ leaked'[s] = leaked[s]
        BY <1>7, SlotLockAssumption DEF TypeOK, EndRead, guardVars
      <4>2. count'[s] - (IF pc'[s] \in Pinning THEN 1 ELSE 0)
              = count[s] - (IF pc[s] \in Pinning THEN 1 ELSE 0)
        BY <1>7, <4>1 DEF TypeOK, Pinning, EndRead, Goto
      <4>3. count'[s] \in Nat
        BY <2>1 DEF TypeOK
      <4> QED
        BY <4>1, <4>2, <4>3
    <3>2. slotOf' = slotOf
      BY <1>7 DEF EndRead, guardVars
    <3> QED
      BY <2>1, <3>1, <3>2, CountersKept
  <2>5. ScanInv' /\ Exclusion'
    BY <1>7, SlotLockAssumption, AccessKept
    DEF TypeOK, ReadsThrough, Pinned, Writes, EndRead, Goto, writeVars,
        guardVars
  <2> QED
    BY <2>1, <2>2, <2>3, <2>4, <2>5
<1>8. CASE PanicInRead(t)
  <2>1. TypeOK'
    BY <1>8, SlotLockAssumption
    DEF TypeOK, Labels, PanicInRead, Goto, writeVars, guardVars
  <2>2. LockInv' /\ FlagInv' /\ RegInv'
    BY <1>8, SlotLockAssumption
    DEF TypeOK, LockInv, FlagInv, RegInv, WritePhase, PanicInRead, Goto,
        writeVars, guardVars
  <2>3. HeldInv' /\ RegisteredInv'
    <3>1. Registered(t) /\ \A s \in Threads : Registered(s)' <=> Registered(s)
      BY <1>8 DEF RegisteredInv, PanicInRead, Goto, Registered
    <3> QED
      BY <1>8, <3>1
      DEF TypeOK, HeldInv, RegisteredInv, Pinned, PanicInRead, Goto, guardVars
  <2>4. CountersExact'
    <3>1. \A s \in Threads : count[s] \in Nat /\ leaked[s] \in Nat /\ count'[s] = count[s]
      BY <1>8, SlotLockAssumption DEF TypeOK, PanicInRead
    <3>2. \A s \in Threads :
            leaked'[s] + (IF pc'[s] \in Pinning THEN 1 ELSE 0)
              = leaked[s] + (IF pc[s] \in Pinning THEN 1 ELSE 0)
      BY <1>8, <3>1 DEF TypeOK, Pinning, PanicInRead, Goto
    <3>3. \A s \in Threads : leaked'[s] \in Nat
      BY <2>1, SlotLockAssumption DEF TypeOK
    <3> QED
      BY <1>8, <2>1, <3>1, <3>2, <3>3, CountersKept DEF TypeOK, PanicInRead
  <2>5. ScanInv' /\ Exclusion'
    BY <1>8, SlotLockAssumption, AccessKept
    DEF TypeOK, ReadsThrough, Pinned, Writes, PanicInRead, Goto, writeVars,
        guardVars
  <2> QED
    BY <2>1, <2>2, <2>3, <2>4, <2>5
<1> QED
  BY <1>1, <1>2, <1>3, <1>4, <1>5, <1>6, <1>7, <1>8

(* A step of a thread that writes, or that begins or ends to.              *)
LEMMA WriteStep ==
  ASSUME IInv, NEW t \in Threads,
         \/ BeginWrite(t) \/ LockWrite(t) \/ RaiseWriting(t)
         \/ LockRegistry(t) \/ PassSlot(t) \/ RetryScan(t)
         \/ EnterWrite(t) \/ EndWrite(t) \/ KeepWriteGuard(t)
         \/ DropWriteGuard(t) \/ LowerWriting(t) \/ UnlockWrite(t)
  PROVE  IInv'
<1> USE DEF IInv
<1>1. CASE BeginWrite(t)
  <2>1. TypeOK'
    BY <1>1, SlotLockAssumption
    DEF TypeOK, Labels, BeginWrite, Goto, writeVars, guardVars
  <2>2. LockInv' /\ FlagInv' /\ RegInv'
    BY <1>1, SlotLockAssumption
    DEF TypeOK, LockInv, FlagInv, RegInv, WritePhase, BeginWrite, Goto,
        writeVars, guardVars
  <2>3. HeldInv' /\ RegisteredInv'
    BY <1>1
    DEF TypeOK, HeldInv, RegisteredInv, Registered, Pinned, BeginWrite,
        Goto, writeVars, guardVars
  <2>4. CountersExact'
    BY <1>1, <2>1, SlotLockAssumption, CountersKept
    DEF TypeOK, Pinning, BeginWrite, Goto, writeVars, guardVars
  <2>5. ScanInv' /\ Exclusion'
    BY <1>1, SlotLockAssumption, AccessKept
    DEF TypeOK, ReadsThrough, Pinned, Writes, BeginWrite, Goto, writeVars,
        guardVars
  <2> QED
    BY <2>1, <2>2, <2>3, <2>4, <2>5
<1>2. CASE LockWrite(t)
  <2>1. TypeOK'
    BY <1>2, SlotLockAssumption
    DEF TypeOK, Labels, LockWrite, Goto, writeVars, guardVars
  <2>2. LockInv' /\ FlagInv' /\ RegInv'
    BY <1>2, SlotLockAssumption
    DEF TypeOK, LockInv, FlagInv, RegInv, WritePhase, LockWrite, Goto,
        writeVars, guardVars
  <2>3. HeldInv' /\ RegisteredInv'
    BY <1>2
    DEF TypeOK, HeldInv, RegisteredInv, Registered, Pinned, LockWrite, Goto,
        writeVars, guardVars
  <2>4. CountersExact'
    BY <1>2, <2>1, SlotLockAssumption, CountersKept
    DEF TypeOK, Pinning, LockWrite, Goto, writeVars, guardVars
  <2>5. ScanInv' /\ Exclusion'
    BY <1>2, SlotLockAssumption, AccessKept
    DEF TypeOK, ReadsThrough, Pinned, Writes, LockWrite, Goto, writeVars,
        guardVars
  <2> QED
    BY <2>1, <2>2, <2>3, <2>4, <2>5
<1>3. CASE RaiseWriting(t)
  <2>1. TypeOK'
    BY <1>3, SlotLockAssumption
    DEF TypeOK, Labels, RaiseWriting, Goto, writeVars, guardVars
  <2>2. LockInv' /\ FlagInv' /\ RegInv'
    BY <1>3, SlotLockAssumption
    DEF TypeOK, LockInv, FlagInv, RegInv, WritePhase, RaiseWriting, Goto,
        writeVars, guardVars
  <2>3. HeldInv' /\ RegisteredInv'
    BY <1>3
    DEF TypeOK, HeldInv, RegisteredInv, Registered, Pinned, RaiseWriting,
        Goto, writeVars, guardVars
  <2>4. CountersExact'
    BY <1>3, <2>1, SlotLockAssumption, CountersKept
    DEF TypeOK, Pinning, RaiseWriting, Goto, writeVars, guardVars
  <2>5. ScanInv' /\ Exclusion'
    BY <1>3, SlotLockAssumption, AccessKept
    DEF TypeOK, ReadsThrough, Pinned, Writes, RaiseWriting, Goto, writeVars,
        guardVars
  <2> QED
    BY <2>1, <2>2, <2>3, <2>4, <2>5
<1>4. CASE LockRegistry(t)
  <2>1. TypeOK'
    BY <1>4, SlotLockAssumption
    DEF TypeOK, Labels, LockRegistry, Goto, writeVars, guardVars
  <2>2. LockInv' /\ FlagInv' /\ RegInv'
    BY <1>4, SlotLockAssumption
    DEF TypeOK, LockInv, FlagInv, RegInv, WritePhase, LockRegistry, Goto,
        writeVars, guardVars
  <2>3. HeldInv' /\ RegisteredInv'
    BY <1>4
    DEF TypeOK, HeldInv, RegisteredInv, Registered, Pinned, LockRegistry,
        Goto, writeVars, guardVars
  <2>4. CountersExact'
    BY <1>4, <2>1, SlotLockAssumption, CountersKept
    DEF TypeOK, Pinning, LockRegistry, Goto, writeVars, guardVars
  <2>5. ScanInv' /\ Exclusion'
    BY <1>4, SlotLockAssumption
    DEF TypeOK, LockInv, FlagInv, WritePhase, ScanInv, Exclusion,
        ReadsThrough, Writes, Pinned, LockRegistry, Goto, writeVars,
        guardVars
  <2> QED
    BY <2>1, <2>2, <2>3, <2>4, <2>5
<1>5. CASE PassSlot(t)
  <2>1. TypeOK'
    <3>1. pos' \in Nat \ {0}
      BY <1>5 DEF TypeOK, PassSlot
    <3> QED
      BY <1>5, <3>1 DEF TypeOK, PassSlot, guardVars
  <2>2. LockInv' /\ FlagInv' /\ RegInv'
    BY <1>5, SlotLockAssumption
    DEF TypeOK, LockInv, FlagInv, RegInv, WritePhase, PassSlot, Goto,
        writeVars, guardVars
  <2>3. HeldInv' /\ RegisteredInv'
    BY <1>5
    DEF TypeOK, HeldInv, RegisteredInv, Registered, Pinned, PassSlot, Goto,
        writeVars, guardVars
  <2>4. CountersExact'
    BY <1>5, <2>1, SlotLockAssumption, CountersKept
    DEF TypeOK, Pinning, PassSlot, Goto, writeVars, guardVars
  <2>5. ScanInv' /\ Exclusion'
    <3>1. registry[pos] \in Threads /\ ~ReadsThrough(registry[pos])
      BY <1>5, UnusedSlots DEF TypeOK, PassSlot, ReadsThrough, Pinning
    <3>2. \A i \in 1 .. pos : i = pos \/ i \in 1 .. pos - 1
      BY DEF TypeOK
    <3>3. \A i \in 1 .. pos : ~ReadsThrough(registry[i])
      BY <1>5, <3>1, <3>2 DEF PassSlot, ScanInv
    <3>4. /\ pos' <= Len(registry) + 1 /\ pos' - 1 = pos
          /\ UNCHANGED <<pc, registry, slotOf, wguard>>
      BY <1>5 DEF TypeOK, PassSlot, guardVars
    <3>5. ScanInv'
      BY <3>3, <3>4 DEF ScanInv, ReadsThrough, Pinned
    <3>6. Exclusion'
      BY <3>4 DEF Exclusion, ReadsThrough, Pinned, Writes
    <3> QED
      BY <3>5, <3>6
  <2> QED
    BY <2>1, <2>2, <2>3, <2>4, <2>5
<1>6. CASE RetryScan(t)
  <2>1. TypeOK'
    BY <1>6, SlotLockAssumption
    DEF TypeOK, Labels, RetryScan, Goto, writeVars, guardVars
  <2>2. LockInv' /\ FlagInv' /\ RegInv'
    BY <1>6, SlotLockAssumption
    DEF TypeOK, LockInv, FlagInv, RegInv, WritePhase, RetryScan, Goto,
        writeVars, guardVars
  <2>3. HeldInv' /\ RegisteredInv'
    BY <1>6
    DEF TypeOK, HeldInv, RegisteredInv, Registered, Pinned, RetryScan, Goto,
        writeVars, guardVars
  <2>4. CountersExact'
    BY <1>6, <2>1, SlotLockAssumption, CountersKept
    DEF TypeOK, Pinning, RetryScan, Goto, writeVars, guardVars
  <2>5. ScanInv' /\ Exclusion'
    BY <1>6, SlotLockAssumption, AccessKept
    DEF TypeOK, ReadsThrough, Pinned, Writes, RetryScan, Goto, writeVars,
        guardVars
  <2> QED
    BY <2>1, <2>2, <2>3, <2>4, <2>5
<1>7. CASE EnterWrite(t)
  <2>1. TypeOK'
    BY <1>7, SlotLockAssumption
    DEF TypeOK, Labels, EnterWrite, Goto, writeVars, guardVars
  <2>2. LockInv' /\ FlagInv' /\ RegInv'
    BY <1>7, SlotLockAssumption
    DEF TypeOK, LockInv, FlagInv, RegInv, WritePhase, EnterWrite, Goto,
        writeVars, guardVars
  <2>3. HeldInv' /\ RegisteredInv'
    BY <1>7
    DEF TypeOK, HeldInv, RegisteredInv, Registered, Pinned, EnterWrite,
        Goto, writeVars, guardVars
  <2>4. CountersExact'
    BY <1>7, <2>1, SlotLockAssumption, CountersKept
    DEF TypeOK, Pinning, EnterWrite, Goto, writeVars, guardVars
  <2>5. ScanInv' /\ Exclusion'
    <3>1. \A s \in Threads : ~ReadsThrough(s)
      <4>1. \A s \in Threads : Registered(s) => ~ReadsThrough(s)
        BY <1>7 DEF TypeOK, ScanInv, EnterWrite, Goto, Registered
      <4> QED
        BY <4>1 DEF RegisteredInv, ReadsThrough
    <3>2. \A s \in Threads : ~ReadsThrough(s)'
      BY <1>7, <3>1
      DEF TypeOK, ReadsThrough, Pinned, EnterWrite, Goto, guardVars
    <3>3. \A u \in Threads \ {t} : ~Writes(u)'
      BY <1>7 DEF TypeOK, LockInv, WritePhase, Writes, EnterWrite, Goto
    <3>4. \A u \in Threads : pc'[u] # "scan"
      BY <1>7 DEF TypeOK, RegInv, EnterWrite, Goto
    <3> QED
      BY <3>2, <3>3, <3>4 DEF ScanInv, Exclusion
  <2> QED
    BY <2>1, <2>2, <2>3, <2>4, <2>5
<1>8. CASE EndWrite(t)
  <2>1. TypeOK'
    BY <1>8, SlotLockAssumption
    DEF TypeOK, Labels, EndWrite, Goto, writeVars, guardVars
  <2>2. LockInv' /\ FlagInv' /\ RegInv'
    BY <1>8, SlotLockAssumption
    DEF TypeOK, LockInv, FlagInv, RegInv, WritePhase, EndWrite, Goto,
        writeVars, guardVars
  <2>3. HeldInv' /\ RegisteredInv'
    BY <1>8
    DEF TypeOK, HeldInv, RegisteredInv, Registered, Pinned, EndWrite, Goto,
        writeVars, guardVars
  <2>4. CountersExact'
    BY <1>8, <2>1, SlotLockAssumption, CountersKept
    DEF TypeOK, Pinning, EndWrite, Goto, writeVars, guardVars
  <2>5. ScanInv' /\ Exclusion'
    BY <1>8, SlotLockAssumption, AccessKept
    DEF TypeOK, ReadsThrough, Pinned, Writes, EndWrite, Goto, writeVars,
        guardVars
  <2> QED
    BY <2>1, <2>2, <2>3, <2>4, <2>5
<1>9. CASE KeepWriteGuard(t)
  <2>1. TypeOK'
    BY <1>9, SlotLockAssumption
    DEF TypeOK, Labels, KeepWriteGuard, Goto, writeVars, guardVars
  <2>2. LockInv' /\ FlagInv' /\ RegInv'
    BY <1>9, SlotLockAssumption
    DEF TypeOK, LockInv, FlagInv, RegInv, WritePhase, KeepWriteGuard, Goto,
        writeVars, guardVars
  <2>3. HeldInv' /\ RegisteredInv'
    BY <1>9
    DEF TypeOK, HeldInv, RegisteredInv, Registered, Pinned, KeepWriteGuard,
        Goto, writeVars, guardVars
  <2>4. CountersExact'
    BY <1>9, <2>1, SlotLockAssumption, CountersKept
    DEF TypeOK, Pinning, KeepWriteGuard, Goto, writeVars, guardVars
  <2>5. ScanInv' /\ Exclusion'
    BY <1>9, SlotLockAssumption, AccessKept
    DEF TypeOK, ReadsThrough, Pinned, Writes, KeepWriteGuard, Goto,
        writeVars, guardVars
  <2> QED
    BY <2>1, <2>2, <2>3, <2>4, <2>5
<1>10. CASE DropWriteGuard(t)
  <2>1. TypeOK'
    BY <1>10, SlotLockAssumption
    DEF TypeOK, Labels, DropWriteGuard, Goto, writeVars, guardVars
  <2>2. LockInv' /\ FlagInv' /\ RegInv'
    BY <1>10, SlotLockAssumption
    DEF TypeOK, LockInv, FlagInv, RegInv, WritePhase, DropWriteGuard, Goto,
        writeVars, guardVars
  <2>3. HeldInv' /\ RegisteredInv'
    BY <1>10
    DEF TypeOK, HeldInv, RegisteredInv, Registered, Pinned, DropWriteGuard,
        Goto, writeVars, guardVars
  <2>4. CountersExact'
    BY <1>10, <2>1, SlotLockAssumption, CountersKept
    DEF TypeOK, Pinning, DropWriteGuard, Goto, writeVars, guardVars
  <2>5. ScanInv' /\ Exclusion'
    BY <1>10, SlotLockAssumption, AccessKept
    DEF TypeOK, ReadsThrough, Pinned, Writes, DropWriteGuard, Goto,
        writeVars, guardVars
  <2> QED
    BY <2>1, <2>2, <2>3, <2>4, <2>5
<1>11. CASE LowerWriting(t)
  <2>1. TypeOK'
    BY <1>11, SlotLockAssumption
    DEF TypeOK, Labels, LowerWriting, Goto, writeVars, guardVars
  <2>2. LockInv' /\ FlagInv' /\ RegInv'
    BY <1>11, SlotLockAssumption
    DEF TypeOK, LockInv, FlagInv, RegInv, WritePhase, LowerWriting, Goto,
        writeVars, guardVars
  <2>3. HeldInv' /\ RegisteredInv'
    BY <1>11
    DEF TypeOK, HeldInv, RegisteredInv, Registered, Pinned, LowerWriting,
        Goto, writeVars, guardVars
  <2>4. CountersExact'
    BY <1>11, <2>1, SlotLockAssumption, CountersKept
    DEF TypeOK, Pinning, LowerWriting, Goto, writeVars, guardVars
  <2>5. ScanInv' /\ Exclusion'
    BY <1>11, SlotLockAssumption, AccessKept
    DEF TypeOK, ReadsThrough, Pinned, Writes, LowerWriting, Goto, writeVars,
        guardVars
  <2> QED
    BY <2>1, <2>2, <2>3, <2>4, <2>5
<1>12. CASE UnlockWrite(t)
  <2>1. TypeOK'
    BY <1>12, SlotLockAssumption
    DEF TypeOK, Labels, UnlockWrite, Goto, writeVars, guardVars
  <2>2. LockInv' /\ FlagInv' /\ RegInv'
    BY <1>12, SlotLockAssumption
    DEF TypeOK, LockInv, FlagInv, RegInv, WritePhase, UnlockWrite, Goto,
        writeVars, guardVars
  <2>3. HeldInv' /\ RegisteredInv'
    BY <1>12
    DEF TypeOK, HeldInv, RegisteredInv, Registered, Pinned, UnlockWrite,
        Goto, writeVars, guardVars
  <2>4. CountersExact'
    BY <1>12, <2>1, SlotLockAssumption, CountersKept
    DEF TypeOK, Pinning, UnlockWrite, Goto, writeVars, guardVars
  <2>5. ScanInv' /\ Exclusion'
    BY <1>12, SlotLockAssumption, AccessKept
    DEF TypeOK, ReadsThrough, Pinned, Writes, UnlockWrite, Goto, writeVars,
        guardVars
  <2> QED
    BY <2>1, <2>2, <2>3, <2>4, <2>5
<1> QED
  BY <1>1, <1>2, <1>3, <1>4, <1>5, <1>6, <1>7, <1>8, <1>9, <1>10, <1>11,
     <1>12

(* A step that hands a pin to a guard, drops a guard or sends one.         *)
LEMMA GuardStep ==
  ASSUME IInv, NEW t \in Threads, NEW u \in Threads, NEW g \in Guards,
         KeepGuard(t, g) \/ DropGuard(t, g) \/ MoveIter(t, u, g)
  PROVE  IInv'
<1> USE DEF IInv
<1>1. CASE KeepGuard(t, g)
  <2>1. TypeOK'
    BY <1>1 DEF TypeOK, Labels, KeepGuard, Goto, writeVars
  <2>2. LockInv' /\ FlagInv' /\ RegInv'
    BY <1>1, SlotLockAssumption
    DEF TypeOK, LockInv, FlagInv, RegInv, WritePhase, KeepGuard, Goto, writeVars
  <2>3. HeldInv' /\ RegisteredInv'
    <3>1. HeldInv'
      BY <1>1, SlotLockAssumption DEF TypeOK, HeldInv, KeepGuard
    <3>2. \A s \in Threads : s # t => Pinned(s)' = Pinned(s)
      BY <1>1, SlotLockAssumption DEF TypeOK, Pinned, KeepGuard
    <3>3. Registered(t) /\ \A s \in Threads : Registered(s)' <=> Registered(s)
      BY <1>1 DEF RegisteredInv, KeepGuard, Goto, Registered
    <3> QED
      BY <1>1, <3>1, <3>2, <3>3 DEF TypeOK, RegisteredInv, KeepGuard, Goto
  <2>4. CountersExact'
    <3> SUFFICES ASSUME NEW s \in Threads
                 PROVE  count'[s] = Cardinality(Pinned(s)') + leaked'[s]
                                      + (IF pc'[s] \in Pinning THEN 1 ELSE 0)
      BY DEF CountersExact
    <3>1. /\ Pinned(s) = PinsIn(slotOf, s)
          /\ Pinned(s)' = PinsIn([slotOf EXCEPT ![g] = t], s)
      BY <1>1 DEF Pinned, PinsIn, KeepGuard
    <3>2. Cardinality(PinsIn([slotOf EXCEPT ![g] = t], s))
            = Cardinality(PinsIn(slotOf, s)) + (IF s = t THEN 1 ELSE 0)
      <4>1. slotOf \in [Guards -> Threads \cup {None}] /\ slotOf[g] = None
        BY <1>1 DEF TypeOK, KeepGuard
      <4> QED
        BY <4>1, PinAdded
    <3>3. Cardinality(Pinned(s)) \in Nat /\ leaked[s] \in Nat
      BY <3>1, PinsCounted, SlotLockAssumption DEF TypeOK
    <3> QED
      BY <1>1, <3>1, <3>2, <3>3
      DEF TypeOK, CountersExact, Pinning, KeepGuard, Goto
  <2>5. ScanInv' /\ Exclusion'
    BY <1>1, SlotLockAssumption, AccessKept
    DEF TypeOK, ReadsThrough, Pinned, Writes, KeepGuard, Goto, writeVars
  <2> QED
    BY <2>1, <2>2, <2>3, <2>4, <2>5
<1>2. CASE DropGuard(t, g)
  <2>0. slotOf[g] \in Threads /\ g \in Pinned(slotOf[g])
    BY <1>2, SlotLockAssumption DEF TypeOK, HeldInv, DropGuard, Pinned
  <2>1. TypeOK'
    <3>1. count[slotOf[g]] >= 1
      BY <2>0, UsedSlots
    <3> QED
      BY <1>2, <2>0, <3>1 DEF TypeOK, DropGuard, writeVars
  <2>2. LockInv' /\ FlagInv' /\ RegInv'
    BY <1>2 DEF LockInv, FlagInv, RegInv, DropGuard, writeVars
  <2>3. HeldInv' /\ RegisteredInv'
    <3>1. HeldInv'
      BY <1>2 DEF TypeOK, HeldInv, DropGuard
    <3>2. \A s \in Threads : Pinned(s) = {} => Pinned(s)' = {}
      BY <1>2, SlotLockAssumption DEF TypeOK, Pinned, DropGuard
    <3>3. \A s \in Threads : Registered(s)' <=> Registered(s)
      BY <1>2 DEF Registered, DropGuard
    <3> QED
      BY <1>2, <3>1, <3>2, <3>3 DEF RegisteredInv, DropGuard
  <2>4. CountersExact'
    <3> SUFFICES ASSUME NEW s \in Threads
                 PROVE  count'[s] = Cardinality(Pinned(s)') + leaked'[s]
                                      + (IF pc'[s] \in Pinning THEN 1 ELSE 0)
      BY DEF CountersExact
    <3>1. /\ Pinned(s) = PinsIn(slotOf, s)
          /\ Pinned(s)' = PinsIn([slotOf EXCEPT ![g] = None], s)
      BY <1>2 DEF Pinned, PinsIn, DropGuard
    <3>2. Cardinality(PinsIn([slotOf EXCEPT ![g] = None], s))
            = Cardinality(PinsIn(slotOf, s)) - (IF s = slotOf[g] THEN 1 ELSE 0)
      <4>1. slotOf \in [Guards -> Threads \cup {None}]
        BY DEF TypeOK
      <4> QED
        BY <2>0, <4>1, PinRemoved
    <3>3. Cardinality(Pinned(s)) \in Nat /\ leaked[s] \in Nat
      BY <3>1, PinsCounted, SlotLockAssumption DEF TypeOK
    <3> QED
      <4>1. count[s] = Cardinality(Pinned(s)) + leaked[s]
                         + (IF pc[s] \in Pinning THEN 1 ELSE 0)
        BY DEF CountersExact
      <4>2. /\ count[s] \in Nat /\ pc' = pc /\ leaked' = leaked
            /\ count'[s] = count[s] - (IF s = slotOf[g] THEN 1 ELSE 0)
        BY <1>2, <2>0 DEF TypeOK, DropGuard
      <4> QED
        BY <3>1, <3>2, <3>3, <4>1, <4>2
  <2>5. ScanInv' /\ Exclusion'
    BY <1>2, SlotLockAssumption, AccessKept
    DEF TypeOK, ReadsThrough, Pinned, Writes, DropGuard, writeVars
  <2> QED
    BY <2>1, <2>2, <2>3, <2>4, <2>5
<1>3. CASE MoveIter(t, u, g)
  <2>1. TypeOK'
    BY <1>3 DEF TypeOK, MoveIter, writeVars
  <2>2. LockInv' /\ FlagInv' /\ RegInv'
    BY <1>3 DEF LockInv, FlagInv, RegInv, MoveIter, writeVars
  <2>3. HeldInv' /\ RegisteredInv'
    BY <1>3, SlotLockAssumption
    DEF TypeOK, HeldInv, RegisteredInv, Registered, Pinned, MoveIter
  <2>4. CountersExact'
    BY <1>3, <2>1, SlotLockAssumption, CountersKept DEF TypeOK, MoveIter
  <2>5. ScanInv' /\ Exclusion'
    BY <1>3, AccessKept DEF ReadsThrough, Pinned, Writes, MoveIter, writeVars
  <2> QED
    BY <2>1, <2>2, <2>3, <2>4, <2>5
<1> QED
  BY <1>1, <1>2, <1>3

-----------------------------------------------------------------------------
(* The theorems.                                                            *)

(* The inductive invariant holds in every reachable state of begin_read,   *)
(* begin_write and the guards.                                             *)
THEOREM Invariance == Spec => []IInv
<1>1. Init => IInv
  <2> SUFFICES ASSUME Init PROVE IInv
    OBVIOUS
  <2>1. TypeOK
    <3>1. registry \in Seq(Threads)
      BY DEF Init
    <3>2. leaked \in [Threads -> 0 .. MaxPanics]
      BY SlotLockAssumption DEF Init
    <3>3. /\ writer \in Threads \cup {None} /\ regLock \in Threads \cup {None}
          /\ wguard \in Threads \cup {None} /\ writing \in BOOLEAN
      BY DEF Init
    <3>5. pos \in Nat \ {0}
      BY DEF Init
    <3>4. /\ pc \in [Threads -> Labels] /\ count \in [Threads -> Nat]
          /\ slotOf \in [Guards -> Threads \cup {None}]
          /\ heldBy \in [Guards -> Threads \cup {None}]
      BY DEF Init, Labels
    <3> QED
      BY <3>1, <3>2, <3>3, <3>4, <3>5 DEF TypeOK
  <2>2. LockInv /\ FlagInv /\ RegInv /\ HeldInv /\ RegisteredInv
    BY SlotLockAssumption
    DEF Init, LockInv, FlagInv, RegInv, HeldInv, RegisteredInv, WritePhase,
        Registered, Pinned
  <2>3. CountersExact
    <3>1. \A s \in Threads : Pinned(s) = {}
      BY SlotLockAssumption DEF Init, Pinned
    <3>2. Cardinality({}) = 0
      BY FS_EmptySet
    <3>3. \A s \in Threads : count[s] = 0 /\ leaked[s] = 0 /\ pc[s] \notin Pinning
      BY DEF Init, Pinning
    <3> QED
      BY <3>1, <3>2, <3>3 DEF CountersExact
  <2>4. ScanInv /\ Exclusion
    BY SlotLockAssumption DEF Init, ScanInv, Exclusion, Writes
  <2> QED
    BY <2>1, <2>2, <2>3, <2>4 DEF IInv
<1>2. IInv /\ [Next]_vars => IInv'
  <2> SUFFICES ASSUME IInv, [Next]_vars PROVE IInv'
    OBVIOUS
  <2>1. CASE Next
    <3>1. PICK t \in Threads :
            Run(t) \/ Acquire(t) \/ Call(t) \/ Drop(t) \/ Move(t)
      BY <2>1 DEF Next
    <3>2. CASE Run(t)
      BY <3>2, ReadStep, WriteStep, GuardStep DEF Run
    <3>3. CASE Acquire(t)
      BY <3>3, ReadStep, WriteStep DEF Acquire
    <3>4. CASE Call(t)
      BY <3>4, ReadStep, WriteStep DEF Call
    <3>5. CASE Drop(t)
      BY <3>5, WriteStep, GuardStep DEF Drop
    <3>6. CASE Move(t)
      BY <3>6, GuardStep DEF Move
    <3> QED
      BY <3>1, <3>2, <3>3, <3>4, <3>5, <3>6
  <2>2. CASE UNCHANGED vars
    BY <2>2
    DEF vars, IInv, TypeOK, LockInv, FlagInv, RegInv, HeldInv, RegisteredInv,
        Registered, Pinned, CountersExact, ScanInv, Exclusion, ReadsThrough,
        Writes
  <2> QED
    BY <2>1, <2>2
<1> QED
  BY <1>1, <1>2, PTL DEF Spec

(* Every variable keeps its type: in particular no fetch_sub ever takes a  *)
(* reader counter below zero.                                              *)
THEOREM TypeCorrect == Spec => []TypeOK
<1>1. IInv => TypeOK
  BY DEF IInv
<1> QED
  BY <1>1, Invariance, PTL

(* The SAFETY comment of the containers: nobody reads the contents while a *)
(* thread may change them, and only one thread at a time may.              *)
THEOREM MutualExclusion == Spec => []Exclusion
<1>1. IInv => Exclusion
  BY DEF IInv
<1> QED
  BY <1>1, Invariance, PTL

(* A reader counter is the number of guards on its slot, plus the read in  *)
(* progress, plus what panics have left behind.                            *)
THEOREM ExactCounters == Spec => []CountersExact
<1>1. IInv => CountersExact
  BY DEF IInv
<1> QED
  BY <1>1, Invariance, PTL

-----------------------------------------------------------------------------
(* The protocol implements the abstract lock.                              *)

(* The two sides of the refinement mapping.                                *)
AbsReading == {t \in Threads : pc[t] = "reading"}
                \cup {g \in Guards : slotOf[g] # None}
AbsWriter  == IF writer # None /\ (pc[writer] = "writing" \/ wguard = writer)
                THEN writer ELSE None

(* A thread that reads, or hands its pin on, keeps the contents readable.  *)
LEMMA ReadRefines ==
  ASSUME IInv, NEW t \in Threads,
         \/ BeginRead(t) \/ RegisterSlot(t) \/ PinSlot(t) \/ Admit(t)
         \/ Refuse(t) \/ UnpinAndYield(t) \/ EndRead(t) \/ PanicInRead(t)
  PROVE  Abstract!Next \/ UNCHANGED <<AbsReading, AbsWriter>>
<1> USE DEF IInv
<1>1. UNCHANGED AbsWriter
  BY SlotLockAssumption
  DEF TypeOK, AbsWriter, BeginRead, RegisterSlot, PinSlot, Admit, Refuse,
      UnpinAndYield, EndRead, PanicInRead, Goto, writeVars
<1>2. CASE Admit(t)
  <2>1. AbsWriter = None
    BY <1>2 DEF TypeOK, FlagInv, AbsWriter, Admit
  <2>2. t \notin AbsReading /\ AbsReading' = AbsReading \cup {t}
    BY <1>2, SlotLockAssumption
    DEF TypeOK, AbsReading, Admit, Goto, guardVars
  <2>3. Abstract!StartRead(t)
    BY <1>1, <2>1, <2>2 DEF Abstract!StartRead, AbsReading, AbsWriter
  <2> QED
    BY <2>3 DEF Abstract!Next
<1>3. CASE EndRead(t) \/ PanicInRead(t)
  <2>1. t \in AbsReading /\ AbsReading' = AbsReading \ {t}
    BY <1>3, SlotLockAssumption
    DEF TypeOK, AbsReading, EndRead, PanicInRead, Goto, guardVars
  <2>2. Abstract!EndRead(t)
    BY <1>1, <2>1 DEF Abstract!EndRead, AbsReading, AbsWriter
  <2> QED
    BY <2>2 DEF Abstract!Next
<1>4. CASE \/ BeginRead(t) \/ RegisterSlot(t) \/ PinSlot(t) \/ Refuse(t)
           \/ UnpinAndYield(t)
  <2>1. UNCHANGED AbsReading
    BY <1>4
    DEF TypeOK, AbsReading, BeginRead, RegisterSlot, PinSlot, Refuse,
        UnpinAndYield, Goto, guardVars
  <2> QED
    BY <1>1, <2>1
<1> QED
  BY <1>2, <1>3, <1>4

(* A guard goes on with a read, ends it, or takes it to another thread.    *)
LEMMA GuardRefines ==
  ASSUME IInv, NEW t \in Threads, NEW u \in Threads, NEW g \in Guards,
         KeepGuard(t, g) \/ DropGuard(t, g) \/ MoveIter(t, u, g)
  PROVE  Abstract!Next \/ UNCHANGED <<AbsReading, AbsWriter>>
<1> USE DEF IInv
<1>1. UNCHANGED AbsWriter
  BY SlotLockAssumption
  DEF TypeOK, AbsWriter, KeepGuard, DropGuard, MoveIter, Goto, writeVars
<1>2. CASE KeepGuard(t, g)
  <2>1. /\ t \in AbsReading /\ g \notin AbsReading
        /\ AbsReading' = (AbsReading \ {t}) \cup {g}
    BY <1>2, SlotLockAssumption DEF TypeOK, AbsReading, KeepGuard, Goto
  <2>2. Abstract!HandOver(t, g)
    BY <1>1, <2>1 DEF Abstract!HandOver, AbsReading, AbsWriter
  <2> QED
    BY <2>2 DEF Abstract!Next
<1>3. CASE DropGuard(t, g)
  <2>1. g \in AbsReading /\ AbsReading' = AbsReading \ {g}
    BY <1>3, SlotLockAssumption DEF TypeOK, HeldInv, AbsReading, DropGuard
  <2>2. Abstract!EndRead(g)
    BY <1>1, <2>1 DEF Abstract!EndRead, AbsReading, AbsWriter
  <2> QED
    BY <2>2 DEF Abstract!Next
<1>4. CASE MoveIter(t, u, g)
  BY <1>1, <1>4 DEF AbsReading, MoveIter
<1> QED
  BY <1>2, <1>3, <1>4

(* A writer gets the contents when its scan is complete, and gives them    *)
(* back when it lowers the flag or drops its guard.                        *)
LEMMA WriteRefines ==
  ASSUME IInv, IInv', NEW t \in Threads,
         \/ BeginWrite(t) \/ LockWrite(t) \/ RaiseWriting(t)
         \/ LockRegistry(t) \/ PassSlot(t) \/ RetryScan(t) \/ EnterWrite(t)
         \/ EndWrite(t) \/ KeepWriteGuard(t) \/ DropWriteGuard(t)
         \/ LowerWriting(t) \/ UnlockWrite(t)
  PROVE  Abstract!Next \/ UNCHANGED <<AbsReading, AbsWriter>>
<1> USE DEF IInv
<1>1. UNCHANGED AbsReading
  BY DEF TypeOK, AbsReading, BeginWrite, LockWrite, RaiseWriting, LockRegistry,
         PassSlot, RetryScan, EnterWrite, EndWrite, KeepWriteGuard,
         DropWriteGuard, LowerWriting, UnlockWrite, Goto, guardVars
<1>2. CASE EnterWrite(t)
  <2>1. AbsReading' = {}
    <3>1. Writes(t)'
      BY <1>2 DEF TypeOK, Writes, EnterWrite, Goto
    <3>2. \A s \in Threads : pc'[s] # "reading" /\ Pinned(s)' = {}
      BY <3>1 DEF Exclusion, ReadsThrough
    <3> QED
      BY <3>2 DEF TypeOK, AbsReading, Pinned
  <2>2. AbsWriter = None /\ AbsWriter' = t
    BY <1>2, SlotLockAssumption
    DEF TypeOK, LockInv, WritePhase, AbsWriter, EnterWrite, Goto
  <2>3. Abstract!StartWrite(t)
    BY <1>1, <2>1, <2>2 DEF Abstract!StartWrite, AbsReading, AbsWriter
  <2> QED
    BY <2>3 DEF Abstract!Next
<1>3. CASE EndWrite(t) \/ DropWriteGuard(t)
  <2>1. AbsWriter = t /\ AbsWriter' = None
    BY <1>3, SlotLockAssumption
    DEF TypeOK, LockInv, WritePhase, AbsWriter, EndWrite, DropWriteGuard, Goto,
        writeVars
  <2>2. Abstract!EndWrite
    BY <1>1, <2>1, SlotLockAssumption DEF Abstract!EndWrite, AbsReading, AbsWriter
  <2> QED
    BY <2>2 DEF Abstract!Next
<1>4. CASE LockWrite(t) \/ UnlockWrite(t)
  BY <1>1, <1>4, SlotLockAssumption
  DEF TypeOK, LockInv, WritePhase, AbsWriter, LockWrite, UnlockWrite, Goto
<1>5. CASE \/ BeginWrite(t) \/ RaiseWriting(t) \/ LockRegistry(t)
           \/ PassSlot(t) \/ RetryScan(t) \/ KeepWriteGuard(t)
           \/ LowerWriting(t)
  <2>1. UNCHANGED AbsWriter
    BY <1>5, SlotLockAssumption
    DEF TypeOK, LockInv, WritePhase, AbsWriter, BeginWrite, RaiseWriting,
        LockRegistry, PassSlot, RetryScan, KeepWriteGuard, LowerWriting, Goto,
        writeVars
  <2> QED
    BY <1>1, <2>1
<1> QED
  BY <1>2, <1>3, <1>4, <1>5

(* begin_read, begin_write and the guards are a reader-writer lock: every  *)
(* step is one of the abstract lock's, or changes nothing it can see.      *)
THEOREM Refinement == Spec => ImplementsRwLock
<1>1. Init => Abstract!Init
  BY SlotLockAssumption DEF Init, Abstract!Init
<1>2. IInv /\ IInv' /\ [Next]_vars => [Abstract!Next]_(Abstract!vars)
  <2> SUFFICES ASSUME IInv, IInv', [Next]_vars
               PROVE  Abstract!Next \/ UNCHANGED <<AbsReading, AbsWriter>>
    BY DEF Abstract!vars, AbsReading, AbsWriter
  <2>1. CASE Next
    <3>1. PICK t \in Threads :
            Run(t) \/ Acquire(t) \/ Call(t) \/ Drop(t) \/ Move(t)
      BY <2>1 DEF Next
    <3>2. CASE Run(t)
      BY <3>2, ReadRefines, WriteRefines, GuardRefines DEF Run
    <3>3. CASE Acquire(t)
      BY <3>3, ReadRefines, WriteRefines DEF Acquire
    <3>4. CASE Call(t)
      BY <3>4, ReadRefines, WriteRefines DEF Call
    <3>5. CASE Drop(t)
      BY <3>5, WriteRefines, GuardRefines DEF Drop
    <3>6. CASE Move(t)
      BY <3>6, GuardRefines DEF Move
    <3> QED
      BY <3>1, <3>2, <3>3, <3>4, <3>5, <3>6
  <2>2. CASE UNCHANGED vars
    BY <2>2 DEF vars, AbsReading, AbsWriter
  <2> QED
    BY <2>1, <2>2
<1> QED
  BY <1>1, <1>2, Invariance, PTL DEF Spec, ImplementsRwLock, Abstract!Spec

-----------------------------------------------------------------------------
(* No thread waits in a circle, if every thread drops one guard before it  *)
(* calls the next method.                                                  *)

(* Who owns a guard, or the mutex through a guard, is outside the methods  *)
(* of the container; who owns the mutex without a guard is in one.         *)
IdleInv ==
  /\ \A t \in Threads : HoldsRead(t) \/ wguard = t => pc[t] = "user"
  /\ \A t \in Threads : writer = t => pc[t] \in WritePhase \/ wguard = t

(* IdleInv is kept by every step of a caller that follows the discipline.  *)
LEMMA IdleStep ==
  ASSUME Discipline = "one_guard", IInv, IdleInv, Next
  PROVE  IdleInv'
<1> USE SlotLockAssumption DEF IInv
<1> PICK t \in Threads : Run(t) \/ Acquire(t) \/ Call(t) \/ Drop(t) \/ Move(t)
  BY DEF Next
<1>1. CASE Run(t)
  <2>1. CASE \E g \in Guards : KeepGuard(t, g)
    BY <2>1
    DEF TypeOK, LockInv, IdleInv, WritePhase, HoldsRead, KeepGuard, Goto,
        writeVars
  <2>2. CASE \/ PinSlot(t) \/ Admit(t) \/ Refuse(t) \/ UnpinAndYield(t)
             \/ EndRead(t) \/ PanicInRead(t)
    BY <2>2
    DEF TypeOK, IdleInv, WritePhase, HoldsRead, PinSlot, Admit, Refuse,
        UnpinAndYield, EndRead, PanicInRead, Goto, writeVars, guardVars
  <2>3. CASE \/ RaiseWriting(t) \/ PassSlot(t) \/ RetryScan(t)
             \/ EnterWrite(t) \/ EndWrite(t) \/ LowerWriting(t)
    <3>1. /\ pc[t] \in WritePhase /\ pc'[t] \in WritePhase
          /\ \A u \in Threads \ {t} : pc'[u] = pc[u]
      BY <2>3
      DEF TypeOK, WritePhase, RaiseWriting, PassSlot, RetryScan, EnterWrite,
          EndWrite, LowerWriting, Goto
    <3>2. UNCHANGED <<heldBy, writer, wguard>>
      BY <2>3
      DEF RaiseWriting, PassSlot, RetryScan, EnterWrite, EndWrite,
          LowerWriting, writeVars, guardVars
    <3> QED
      BY <3>1, <3>2 DEF IdleInv, WritePhase, HoldsRead
  <2>4. CASE KeepWriteGuard(t) \/ UnlockWrite(t)
    BY <2>4
    DEF TypeOK, LockInv, IdleInv, WritePhase, HoldsRead, KeepWriteGuard,
        UnlockWrite, Goto, guardVars
  <2> QED
    BY <1>1, <2>1, <2>2, <2>3, <2>4 DEF Run
<1>2. CASE Acquire(t)
  <2>1. CASE RegisterSlot(t)
    BY <2>1
    DEF TypeOK, IdleInv, WritePhase, HoldsRead, RegisterSlot, Goto, writeVars,
        guardVars
  <2>2. CASE LockWrite(t)
    BY <2>2
    DEF TypeOK, IdleInv, WritePhase, HoldsRead, LockWrite, Goto, guardVars
  <2>3. CASE LockRegistry(t)
    BY <2>3
    DEF TypeOK, IdleInv, WritePhase, HoldsRead, LockRegistry, Goto, guardVars
  <2> QED
    BY <1>2, <2>1, <2>2, <2>3 DEF Acquire
<1>3. CASE Call(t)
  BY <1>3
  DEF TypeOK, IdleInv, WritePhase, HoldsRead, Call, BeginRead, BeginWrite,
      MayRead, MayWrite, Goto, writeVars, guardVars
<1>4. CASE Drop(t)
  <2>1. CASE \E g \in Guards : DropGuard(t, g)
    BY <2>1 DEF TypeOK, IdleInv, HoldsRead, DropGuard, writeVars
  <2>2. CASE DropWriteGuard(t)
    <3>1. \A g \in Guards : heldBy[g] = None
      <4>1. \A s \in Threads : Pinned(s) = {}
        BY <2>2 DEF Exclusion, Writes, ReadsThrough, DropWriteGuard
      <4> QED
        BY <4>1 DEF TypeOK, HeldInv, Pinned
    <3> QED
      BY <2>2, <3>1
      DEF TypeOK, LockInv, IdleInv, WritePhase, HoldsRead, DropWriteGuard,
          Goto, guardVars
  <2> QED
    BY <1>4, <2>1, <2>2 DEF Drop
<1>5. CASE Move(t)
  BY <1>5 DEF TypeOK, IdleInv, HoldsRead, Move, MoveIter, writeVars
<1> QED
  BY <1>1, <1>2, <1>3, <1>4, <1>5

(* A thread waits only for a thread of lower rank: first come those that   *)
(* own a guard, which wait for nobody, then a scan, then whoever waits for *)
(* the registry, then whoever waits for the writer.                        *)
LEMMA WaitingIsRanked ==
  ASSUME IInv, IdleInv
  PROVE  NoCircularWait
<1> USE SlotLockAssumption DEF IInv
<1> SUFFICES ASSUME NEW S \in (SUBSET Threads) \ {{}}
             PROVE  \E t \in S : \A u \in S : ~WaitsFor(t, u)
  BY DEF NoCircularWait
<1>1. CASE \E t \in S : pc[t] \notin {"wlock", "slot", "inc", "check", "undo",
                                      "rlock", "scan"}
  BY <1>1 DEF WaitsFor, Refused
<1>2. CASE \A t \in S : pc[t] \in {"wlock", "slot", "inc", "check", "undo",
                                   "rlock", "scan"}
  <2>1. \A u \in S, g \in Guards : heldBy[g] # u
    BY <1>2 DEF IdleInv, HoldsRead
  <2>2. CASE \E t \in S : pc[t] = "scan"
    BY <2>1, <2>2 DEF WaitsFor, Refused
  <2>3. CASE \A t \in S : pc[t] # "scan"
    <3>1. \A u \in S : regLock # u
      BY <2>3 DEF RegInv
    <3>2. CASE \E t \in S : pc[t] \in {"slot", "rlock"}
      <4>1. PICK t \in S : pc[t] \in {"slot", "rlock"}
        BY <3>2
      <4>2. \A u \in S : ~WaitsFor(t, u)
        BY <2>1, <3>1, <4>1 DEF WaitsFor, Refused
      <4> QED
        BY <4>2
    <3>3. CASE \A t \in S : pc[t] \notin {"slot", "rlock"}
      <4>1. \A u \in S : writer # u
        BY <1>2, <2>3, <3>3 DEF IdleInv, WritePhase
      <4>2. \A t \in S, u \in S : ~WaitsFor(t, u)
        BY <2>3, <3>3, <4>1 DEF WaitsFor
      <4>3. \E t \in S : TRUE
        OBVIOUS
      <4> QED
        BY <4>2, <4>3
    <3> QED
      BY <3>2, <3>3
  <2> QED
    BY <2>2, <2>3
<1> QED
  BY <1>1, <1>2

(* The deadlock note, with "no method while a guard is alive" for "no      *)
(* write method while a guard is alive": then no set of threads, however   *)
(* large, waits in a circle for the writer mutex, the registry mutex, the  *)
(* flag and each other's guards.                                           *)
THEOREM NoDeadlock ==
  ASSUME Discipline = "one_guard"
  PROVE  Spec => []NoCircularWait
<1>1. Init => IdleInv
  BY SlotLockAssumption DEF Init, IdleInv, HoldsRead
<1>2. IInv /\ IdleInv /\ [Next]_vars => IdleInv'
  <2>1. UNCHANGED vars /\ IdleInv => IdleInv'
    BY DEF vars, IdleInv, HoldsRead
  <2> QED
    BY <2>1, IdleStep
<1>3. IInv /\ IdleInv => NoCircularWait
  BY WaitingIsRanked
<1> QED
  BY <1>1, <1>2, <1>3, Invariance, PTL DEF Spec

=============================================================================
