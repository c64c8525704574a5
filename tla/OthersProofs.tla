---------------------------- MODULE OthersProofs ----------------------------
(***************************************************************************)
(* Theorems about the components that share nothing with the rest, for     *)
(* every value of their constants.                                         *)
(*                                                                         *)
(* AtomicDuration: the rounding, whatever a second and a millisecond are   *)
(* made of and however wide usize is.                                      *)
(*                                                                         *)
(* defer!: no closure is forgotten and the youngest runs first.  Guards    *)
(* are dropped from the end of a stack on which they lie in the order of   *)
(* their making (Stacked); a closure is in one guard, has run, or is       *)
(* disarmed (Accounted), and the last scope is left when nothing lies on   *)
(* the stack any more (Nested).                                            *)
(*                                                                         *)
(* eq of any number of vectors and threads.  The answer is that of one     *)
(* moment because what was seen of the first vector stays while the thread *)
(* has a guard of it (SeenInv): a write has found no guards (PinInv,       *)
(* DrainedInv), and none are made while the lock is held (LockInv).  A     *)
(* circle of waiting threads has, in it, somebody who holds a guard of one *)
(* vector and waits for the other.  The holder of that lock is in the      *)
(* circle; it drains, and waits for somebody who again holds a guard of    *)
(* this vector and waits for another: these make a ring.  If each compares *)
(* with a vector of lower rank there would be no lowest.                   *)
(***************************************************************************)
EXTENDS AtomicDuration, DeferGuard, VecEq, WellFoundedInduction, TLAPS

-----------------------------------------------------------------------------
(* AtomicDuration.                                                         *)

(* The type, and how the two variables belong together.                    *)
Stored ==
  /\ kept \in Duration \cup {NoDuration}
  /\ cell = Cell(kept)

(* Division with remainder.                                                *)
LEMMA Division ==
  ASSUME NEW x \in Nat, NEW n \in Nat \ {0}
  PROVE  /\ x \div n \in Nat /\ x % n \in 0 .. n - 1
         /\ x = (x \div n) * n + (x % n)
  BY SMT

(* Rounding up.                                                            *)
LEMMA Ceiling ==
  ASSUME NEW x \in Nat, NEW n \in Nat \ {0}
  PROVE  LET q == (x + n - 1) \div n
         IN  q \in Nat /\ x <= q * n /\ q * n < x + n
<1> DEFINE q == (x + n - 1) \div n
           r == (x + n - 1) % n
<1> DEFINE y == x + n - 1
<1>0. y \in Nat /\ q = y \div n /\ r = y % n
  OBVIOUS
<1> HIDE DEF q, r
<1>1. q \in Nat /\ r \in 0 .. n - 1 /\ y = q * n + r
  BY <1>0, Division
<1>2. q * n \in Nat
  BY <1>1
<1>3. x <= q * n /\ q * n < x + n
  BY <1>1, <1>2
<1> QED
  BY <1>1, <1>3 DEF q

(* A duration that fits is stored as the number of its milliseconds,       *)
(* rounded up.                                                             *)
LEMMA Milliseconds ==
  ASSUME NEW d \in Duration, Nanos(d) <= UsizeMax * NanosPerMilli
  PROVE  /\ dur_to_ms(d) \in 0 .. UsizeMax
         /\ Nanos(d) <= dur_to_ms(d) * NanosPerMilli
         /\ dur_to_ms(d) * NanosPerMilli < Nanos(d) + NanosPerMilli
<1> DEFINE N == NanosPerMilli
           q == (d.nanos + N - 1) \div N
           s == d.secs * MsPerSec
<1>1. /\ N \in Nat \ {0} /\ MsPerSec \in Nat \ {0}
      /\ U64Max \in Nat /\ UsizeMax \in Nat /\ UsizeMax <= U64Max
      /\ d.secs \in Nat /\ d.nanos \in Nat
  BY AtomicDurationAssumption DEF Duration
<1>2. q \in Nat /\ d.nanos <= q * N /\ q * N < d.nanos + N
  BY <1>1, Ceiling
<1>3. s \in Nat /\ Nanos(d) = s * N + d.nanos
  BY <1>1 DEF Nanos
<1>4. dur_to_ms(d) = Saturated(Saturated(s) + q)
  BY DEF dur_to_ms
<1> HIDE DEF N, q, s
<1>5. (s + q) * N = s * N + q * N /\ s * N \in Nat /\ q * N \in Nat
  BY <1>1, <1>2, <1>3
<1>6. Nanos(d) <= (s + q) * N /\ (s + q) * N < Nanos(d) + N
  BY <1>1, <1>2, <1>3, <1>5
<1>7. s + q <= UsizeMax
  <2>1. (s + q) * N < UsizeMax * N + N
    BY <1>1, <1>3, <1>5, <1>6 DEF N
  <2>2. (s + q) * N < (UsizeMax + 1) * N
    BY <1>1, <2>1
  <2>3. s + q < UsizeMax + 1
    BY <1>1, <1>2, <1>3, <2>2
  <2> QED
    BY <1>1, <1>2, <1>3, <2>3
<1>8. dur_to_ms(d) = s + q
  BY <1>1, <1>2, <1>3, <1>4, <1>7 DEF Saturated
<1> QED
  BY <1>2, <1>3, <1>6, <1>7, <1>8 DEF N

(* Reading a number of milliseconds back.                                  *)
LEMMA FromMillis ==
  ASSUME NEW m \in Nat \ {0}, cell = m
  PROVE  Nanos(Get) = m * NanosPerMilli /\ Get # NoDuration
<1> DEFINE s == m \div MsPerSec
           r == m % MsPerSec
<1>1. NanosPerMilli \in Nat \ {0} /\ MsPerSec \in Nat \ {0}
  BY AtomicDurationAssumption
<1>2. s \in Nat /\ r \in Nat /\ m = s * MsPerSec + r
  BY <1>1, Division
<1>3. Nanos(Get) = s * (MsPerSec * NanosPerMilli) + r * NanosPerMilli
  BY DEF Get, Nanos
<1> HIDE DEF s, r
<1>4. s * (MsPerSec * NanosPerMilli) = (s * MsPerSec) * NanosPerMilli
  BY <1>1, <1>2
<1>5. (s * MsPerSec + r) * NanosPerMilli = (s * MsPerSec) * NanosPerMilli + r * NanosPerMilli
  BY <1>1, <1>2
<1>6. Get # NoDuration
  <2>1. s \in Nat /\ r * NanosPerMilli \in Nat
    BY <1>1, <1>2
  <2>2. Get = [secs |-> s, nanos |-> r * NanosPerMilli]
    BY DEF Get, s, r
  <2> QED
    BY <2>1, <2>2, AtomicDurationAssumption
<1> QED
  BY <1>2, <1>3, <1>4, <1>5, <1>6

(* What can be read is what is kept, rounded up, also between any stores   *)
(* and takes.                                                              *)
THEOREM RoundedUp == DurationSpec => []NeverShorter
<1>1. DurationInit => Stored
  BY DEF DurationInit, Stored
<1>2. Stored /\ [DurationNext]_durationVars => Stored'
  BY DEF Stored, DurationNext, Take, Store, durationVars, Cell
<1>3. Stored => NeverShorter
  <2> SUFFICES ASSUME Stored
               PROVE  NeverShorter
    OBVIOUS
  <2>1. CASE kept = NoDuration
    BY <2>1 DEF Stored, Cell, Get, NeverShorter
  <2>2. ASSUME kept # NoDuration, Nanos(kept) <= UsizeMax * NanosPerMilli
        PROVE  /\ Get = NoDuration <=> Nanos(kept) = 0
               /\ Get # NoDuration =>
                    Nanos(kept) <= Nanos(Get) /\ Nanos(Get) < Nanos(kept) + NanosPerMilli
    <3>1. kept \in Duration /\ cell = dur_to_ms(kept) % (UsizeMax + 1)
      BY <2>2 DEF Stored, Cell
    <3>2. /\ dur_to_ms(kept) \in 0 .. UsizeMax
          /\ Nanos(kept) <= dur_to_ms(kept) * NanosPerMilli
          /\ dur_to_ms(kept) * NanosPerMilli < Nanos(kept) + NanosPerMilli
      BY <2>2, <3>1, Milliseconds
    <3>3. PICK m \in Nat : m = dur_to_ms(kept) /\ cell = m
      BY <3>1, <3>2, AtomicDurationAssumption
    <3>4. NanosPerMilli \in Nat \ {0} /\ Nanos(kept) \in Nat
      <4>1. kept.secs \in Nat /\ kept.nanos \in Nat
        BY <3>1 DEF Duration
      <4> QED
        BY <4>1, AtomicDurationAssumption DEF Nanos
    <3>5. CASE m = 0
      <4>1. Nanos(kept) = 0
        BY <3>2, <3>3, <3>4, <3>5
      <4> QED
        BY <3>3, <3>5, <4>1 DEF Get
    <3>6. CASE m # 0
      <4>1. Nanos(Get) = m * NanosPerMilli /\ Get # NoDuration
        BY <3>3, <3>6, FromMillis
      <4>2. m * NanosPerMilli >= NanosPerMilli
        BY <3>4, <3>6
      <4>3. Nanos(kept) # 0
        BY <3>2, <3>3, <3>4, <4>2
      <4> QED
        BY <3>2, <3>3, <4>1, <4>3
    <3> QED
      BY <3>5, <3>6
  <2> QED
    BY <2>1, <2>2 DEF NeverShorter
<1> QED
  BY <1>1, <1>2, <1>3, PTL DEF DurationSpec

-----------------------------------------------------------------------------
(* defer! and Guard.                                                       *)

(* What a sequence of closures is with one more element ...                *)
LEMMA OneMore ==
  ASSUME NEW s \in Seq(Closures), NEW c \in Closures
  PROVE  LET t == Append(s, c)
         IN  /\ t \in Seq(Closures) /\ Len(t) = Len(s) + 1 /\ t # s
             /\ DOMAIN s = 1 .. Len(s) /\ DOMAIN t = 1 .. Len(s) + 1
             /\ \A i \in DOMAIN s : t[i] = s[i]
             /\ t[Len(s) + 1] = c
             /\ ToSet(t) = ToSet(s) \cup {c}
<1> DEFINE t == Append(s, c)
<1>1. /\ t \in Seq(Closures) /\ Len(t) = Len(s) + 1 /\ Len(s) \in Nat
      /\ DOMAIN s = 1 .. Len(s) /\ DOMAIN t = 1 .. Len(s) + 1
      /\ \A i \in DOMAIN s : t[i] = s[i]
      /\ t[Len(s) + 1] = c
  OBVIOUS
<1> HIDE DEF t
<1>2. ToSet(t) = ToSet(s) \cup {c}
  <2>1. \A i \in DOMAIN t : i \in DOMAIN s \/ i = Len(s) + 1
    BY <1>1
  <2>2. DOMAIN s \subseteq DOMAIN t /\ Len(s) + 1 \in DOMAIN t
    BY <1>1
  <2> QED
    BY <1>1, <2>1, <2>2 DEF ToSet
<1>3. t # s
  BY <1>1
<1> QED
  BY <1>1, <1>2, <1>3 DEF t

(* ... and one fewer.                                                      *)
LEMMA OneFewer ==
  ASSUME NEW s \in Seq(Closures), Len(s) > 0
  PROVE  LET t == Front(s)
         IN  /\ t \in Seq(Closures) /\ Len(t) = Len(s) - 1 /\ Last(s) \in Closures
             /\ DOMAIN s = 1 .. Len(s) /\ DOMAIN t = 1 .. Len(s) - 1
             /\ \A i \in DOMAIN t : t[i] = s[i]
             /\ ToSet(s) = ToSet(t) \cup {Last(s)}
             /\ IsInjective(s) => IsInjective(t) /\ Last(s) \notin ToSet(t)
<1> DEFINE t == Front(s)
<1>0. t = SubSeq(s, 1, Len(s) - 1) /\ Last(s) = s[Len(s)] /\ Len(s) \in Nat
  BY DEF Front, Last
<1> HIDE DEF t
<1>1. /\ t \in Seq(Closures) /\ Len(t) = Len(s) - 1 /\ Len(s) \in Nat
      /\ DOMAIN s = 1 .. Len(s) /\ DOMAIN t = 1 .. Len(s) - 1
      /\ \A i \in DOMAIN t : t[i] = s[i]
      /\ Last(s) = s[Len(s)]
  <2>1. Len(s) - 1 \in 0 .. Len(s)
    BY <1>0
  <2>2. \A i \in 1 .. Len(s) - 1 : SubSeq(s, 1, Len(s) - 1)[i] = s[i]
    BY <1>0
  <2>3. t \in Seq(Closures) /\ Len(t) = Len(s) - 1
    <3>1. \A n \in 0 .. Len(s) : SubSeq(s, 1, n) \in Seq(Closures) /\ Len(SubSeq(s, 1, n)) = n
      BY <1>0
    <3> QED
      BY <1>0, <2>1, <3>1
  <2> QED
    BY <1>0, <2>2, <2>3
<1>2. Len(s) \in DOMAIN s /\ DOMAIN t \subseteq DOMAIN s /\ Len(s) \notin DOMAIN t
  BY <1>1
<1>3. \A i \in DOMAIN s : i \in DOMAIN t \/ i = Len(s)
  BY <1>1
<1>4. ToSet(s) = ToSet(t) \cup {Last(s)}
  BY <1>1, <1>2, <1>3 DEF ToSet
<1>5. IsInjective(s) => IsInjective(t) /\ Last(s) \notin ToSet(t)
  BY <1>1, <1>2 DEF ToSet, IsInjective
<1> QED
  BY <1>1, <1>2, <1>4, <1>5 DEF t

(* What the variables hold.                                                *)
Modes == {"running", "leaving", "unwinding", "ended", "aborted"}

DeferType ==
  /\ mode \in Modes
  /\ guards \in Seq(Closures) /\ deferred \in Seq(Closures) /\ ran \in Seq(Closures)
  /\ disarmed \subseteq Closures
  /\ floors \in Seq(Nat)

(* Scopes lie one in the other, all within the guards.                     *)
Nested ==
  /\ \A i, j \in DOMAIN floors : i <= j => floors[i] <= floors[j]
  /\ floors # <<>> => floors[1] = 0 /\ Last(floors) <= Len(guards)
  /\ floors = <<>> <=> mode = "ended"
  /\ mode = "ended" => guards = <<>>

(* Where each closure is: in one guard, or run once, or disarmed.          *)
Accounted ==
  /\ ToSet(deferred) = Armed \cup ToSet(ran) \cup disarmed
  /\ IsInjective(ran) /\ IsInjective(guards)
  /\ ToSet(ran) \cap (ToSet(guards) \cup disarmed) = {}

(* d comes before c; and the guards are in the order in which they were    *)
(* made (defer! is a let, mod.rs:33-44).                                   *)
Before(s, d, c) == \E i, j \in DOMAIN s : i < j /\ s[i] = d /\ s[j] = c

Stacked ==
  \A i, j \in DOMAIN guards : i < j => Before(deferred, guards[i], guards[j])

(* The inductive invariant.                                                *)
DeferInv == DeferType /\ Nested /\ Accounted /\ Stacked

(* It holds when the function begins.                                      *)
LEMMA DeferStart == DeferInit => DeferInv
<1> SUFFICES ASSUME DeferInit
             PROVE  DeferInv
  OBVIOUS
<1>1. /\ mode = "running" /\ guards = <<>> /\ deferred = <<>> /\ ran = <<>>
      /\ floors = <<0>> /\ disarmed = {}
  BY DEF DeferInit
<1>2. DeferType
  BY <1>1 DEF DeferType, Modes
<1>3. Nested
  <2>1. DOMAIN floors = {1} /\ floors[1] = 0 /\ Len(floors) = 1 /\ Len(guards) = 0
    BY <1>1
  <2>2. floors # <<>>
    BY <1>1
  <2> QED
    BY <1>1, <2>1, <2>2 DEF Nested, Last
<1>4. Accounted /\ Stacked
  BY <1>1 DEF Accounted, Stacked, ToSet, IsInjective, Armed
<1> QED
  BY <1>2, <1>3, <1>4 DEF DeferInv

(* An older closure stays older when others are deferred.                  *)
LEMMA StaysBefore ==
  ASSUME NEW s \in Seq(Closures), NEW c \in Closures
  PROVE  /\ \A d, e : Before(s, d, e) => Before(Append(s, c), d, e)
         /\ \A d \in ToSet(s) : Before(Append(s, c), d, c)
<1> DEFINE t == Append(s, c)
<1>1. /\ DOMAIN s = 1 .. Len(s) /\ DOMAIN t = 1 .. Len(s) + 1 /\ Len(s) \in Nat
      /\ \A i \in DOMAIN s : t[i] = s[i]
      /\ t[Len(s) + 1] = c
  BY OneMore
<1> HIDE DEF t
<1>2. DOMAIN s \subseteq DOMAIN t
  BY <1>1
<1>3. \A d, e : Before(s, d, e) => Before(t, d, e)
  BY <1>1, <1>2 DEF Before
<1>4. ASSUME NEW d \in ToSet(s)
      PROVE  Before(t, d, c)
  <2>1. PICK i \in DOMAIN s : s[i] = d
    BY <1>4 DEF ToSet
  <2>2. i \in DOMAIN t /\ Len(s) + 1 \in DOMAIN t /\ i < Len(s) + 1
    BY <1>1
  <2> QED
    BY <1>1, <2>1, <2>2 DEF Before
<1> QED
  BY <1>3, <1>4 DEF t

(* The next values of sets made of sequences.                              *)
LEMMA Primes ==
  /\ ToSet(deferred)' = ToSet(deferred') /\ ToSet(ran)' = ToSet(ran')
  /\ ToSet(guards)' = ToSet(guards')
  /\ IsInjective(ran)' <=> IsInjective(ran')
  /\ IsInjective(guards)' <=> IsInjective(guards')
  BY DEF ToSet, IsInjective

(* Every step keeps it, and what it runs is the youngest that is still to  *)
(* be called.                                                              *)
LEMMA DeferStep ==
  ASSUME DeferInv, DeferNext
  PROVE  /\ DeferInv'
         /\ \A c \in Closures : ran' = Append(ran, c) => \A d \in Armed' : Older(d, c)
<1> DEFINE Youngest ==
      \A c \in Closures : ran' = Append(ran, c) => \A d \in Armed' : Older(d, c)
<1>0. /\ mode \in Modes /\ floors \in Seq(Nat) /\ disarmed \subseteq Closures
      /\ guards \in Seq(Closures) /\ deferred \in Seq(Closures) /\ ran \in Seq(Closures)
  BY DEF DeferInv, DeferType
<1>01. ran' = ran => Youngest
  BY <1>0, OneMore
<1> HIDE DEF Youngest
<1>1. CASE Enter
  <2>1. /\ mode = "running" /\ floors' = Append(floors, Len(guards))
        /\ UNCHANGED <<mode, guards, deferred, disarmed, ran>>
    BY <1>1 DEF Enter
  <2>2. DeferType'
    BY <1>0, <2>1 DEF DeferType
  <2>3. Nested'
    <3> DEFINE n == Len(floors)
    <3>1. /\ n \in Nat /\ Len(guards) \in Nat /\ DOMAIN floors = 1 .. n
          /\ DOMAIN floors' = 1 .. n + 1 /\ Len(floors') = n + 1
          /\ \A i \in 1 .. n : floors'[i] = floors[i] /\ floors[i] \in Nat
          /\ floors'[n + 1] = Len(guards)
      BY <1>0, <2>1
    <3>2. floors # <<>> /\ n > 0
      BY <1>0, <2>1 DEF DeferInv, Nested
    <3>3. \A i \in 1 .. n : floors[i] <= Len(guards)
      <4>1. \A i \in 1 .. n : floors[i] <= floors[n] /\ floors[n] <= Len(guards)
        BY <3>1, <3>2 DEF DeferInv, Nested, Last
      <4> QED
        BY <3>1, <3>2, <4>1
    <3>4. \A i, j \in DOMAIN floors' : i <= j => floors'[i] <= floors'[j]
      <4> SUFFICES ASSUME NEW i \in 1 .. n + 1, NEW j \in 1 .. n + 1, i <= j
                   PROVE  floors'[i] <= floors'[j]
        BY <3>1
      <4>1. CASE j \in 1 .. n
        <5>1. i \in 1 .. n
          BY <3>1, <4>1
        <5> QED
          BY <3>1, <4>1, <5>1 DEF DeferInv, Nested
      <4>2. CASE j = n + 1
        BY <3>1, <3>3, <4>2
      <4> QED
        BY <3>1, <4>1, <4>2
    <3>5. floors' # <<>> /\ floors'[1] = 0 /\ Last(floors)' = Len(guards)
      BY <3>1, <3>2 DEF DeferInv, Nested, Last
    <3> QED
      BY <2>1, <3>1, <3>4, <3>5 DEF Nested
  <2>4. Accounted' /\ Stacked'
    BY <2>1 DEF DeferInv, Accounted, Stacked, Armed
  <2> QED
    BY <1>01, <2>1, <2>2, <2>3, <2>4 DEF DeferInv, Youngest
<1>2. ASSUME NEW c \in Closures, Defer(c)
      PROVE  DeferInv' /\ Youngest
  <2>1. /\ mode = "running" /\ c \notin ToSet(deferred)
        /\ guards' = Append(guards, c) /\ deferred' = Append(deferred, c)
        /\ UNCHANGED <<mode, floors, disarmed, ran>>
    BY <1>2 DEF Defer
  <2>2. /\ guards' \in Seq(Closures) /\ Len(guards') = Len(guards) + 1
        /\ DOMAIN guards = 1 .. Len(guards) /\ DOMAIN guards' = 1 .. Len(guards) + 1
        /\ \A i \in DOMAIN guards : guards'[i] = guards[i]
        /\ guards'[Len(guards) + 1] = c /\ Len(guards) \in Nat
        /\ ToSet(guards') = ToSet(guards) \cup {c}
    BY <1>0, <2>1, OneMore
  <2>3. deferred' \in Seq(Closures) /\ ToSet(deferred') = ToSet(deferred) \cup {c}
    BY <1>0, <2>1, OneMore
  <2>4. DeferType'
    BY <1>0, <2>1, <2>2, <2>3 DEF DeferType
  <2>5. Nested'
    <3>1. floors # <<>> => Last(floors) \in Nat
      BY <1>0 DEF Last
    <3>2. floors # <<>> => Last(floors) <= Len(guards')
      BY <2>2, <3>1 DEF DeferInv, Nested
    <3> QED
      BY <2>1, <3>2 DEF DeferInv, Nested, Last
  <2>6. ToSet(guards) \subseteq ToSet(deferred) /\ c \notin ToSet(guards)
    BY <2>1 DEF DeferInv, Accounted, Armed
  <2>7. Accounted'
    <3>1. c \notin ToSet(ran) /\ c \notin disarmed
      BY <2>1 DEF DeferInv, Accounted
    <3>2. Armed' = Armed \cup {c}
      BY <2>1, <2>2, <3>1 DEF Armed, ToSet
    <3>3. ToSet(deferred') = Armed' \cup ToSet(ran') \cup disarmed'
      BY <2>1, <2>3, <3>2 DEF DeferInv, Accounted
    <3>4. IsInjective(guards)'
      <4>1. \A i \in DOMAIN guards : guards[i] # c
        BY <2>6 DEF ToSet
      <4>2. \A i \in DOMAIN guards' : i \in DOMAIN guards \/ i = Len(guards) + 1
        BY <2>2
      <4> QED
        BY <2>2, <4>1, <4>2 DEF DeferInv, Accounted, IsInjective
    <3> QED
      BY <2>1, <2>2, <3>1, <3>3, <3>4, Primes DEF DeferInv, Accounted
  <2>8. Stacked'
    <3> SUFFICES ASSUME NEW i \in DOMAIN guards', NEW j \in DOMAIN guards', i < j
                 PROVE  Before(deferred', guards'[i], guards'[j])
      BY DEF Stacked
    <3>1. i \in DOMAIN guards
      BY <2>2
    <3>2. CASE j \in DOMAIN guards
      <4>1. Before(deferred, guards[i], guards[j])
        BY <3>1, <3>2 DEF DeferInv, Stacked
      <4> QED
        BY <1>0, <2>1, <2>2, <3>1, <3>2, <4>1, StaysBefore
    <3>3. CASE j = Len(guards) + 1
      <4>1. guards[i] \in ToSet(deferred)
        BY <2>6, <3>1 DEF ToSet
      <4> QED
        BY <1>0, <2>1, <2>2, <3>1, <3>3, <4>1, StaysBefore
    <3> QED
      BY <2>2, <3>2, <3>3
  <2> QED
    BY <1>01, <2>1, <2>4, <2>5, <2>7, <2>8 DEF DeferInv
<1>3. ASSUME NEW c \in Closures, Disarm(c)
      PROVE  DeferInv' /\ Youngest
  <2>1. /\ mode = "running" /\ c \in Armed /\ disarmed' = disarmed \cup {c}
        /\ UNCHANGED <<mode, guards, floors, deferred, ran>>
    BY <1>3 DEF Disarm
  <2>2. DeferType' /\ Nested' /\ Stacked'
    BY <2>1 DEF DeferInv, DeferType, Nested, Stacked
  <2>3. Accounted'
    BY <2>1 DEF DeferInv, Accounted, Armed
  <2> QED
    BY <1>01, <2>1, <2>2, <2>3 DEF DeferInv
<1>4. CASE Leave
  <2>1. /\ mode = "running" /\ mode' \in {"leaving", "unwinding"}
        /\ UNCHANGED <<guards, floors, deferred, disarmed, ran>>
    BY <1>4 DEF Leave
  <2>2. DeferType' /\ Nested' /\ Stacked' /\ Accounted'
    BY <2>1 DEF DeferInv, DeferType, Modes, Nested, Stacked, Accounted, Armed
  <2> QED
    BY <1>01, <2>1, <2>2 DEF DeferInv, Youngest
<1>5. CASE DeferDrop
  <2> DEFINE c == Last(guards)
  <2>1. /\ mode \in {"leaving", "unwinding"} /\ Guarded
        /\ guards' = Front(guards)
        /\ UNCHANGED <<floors, deferred, disarmed>>
        /\ \/ c \in disarmed /\ UNCHANGED <<ran, mode>>
           \/ c \notin disarmed /\ ran' = Append(ran, c) /\ mode' \in {mode, Panicked}
    BY <1>5 DEF DeferDrop
  <2>2. floors # <<>> /\ Last(floors) \in Nat /\ Len(guards) \in Nat /\ Len(guards) > 0
    <3>1. floors # <<>>
      BY <2>1 DEF DeferInv, Nested
    <3>2. Last(floors) \in Nat /\ Len(guards) \in Nat
      BY <1>0, <3>1 DEF Last
    <3> QED
      BY <2>1, <3>1, <3>2 DEF Guarded
  <2>3. /\ guards' \in Seq(Closures) /\ Len(guards') = Len(guards) - 1 /\ c \in Closures
        /\ DOMAIN guards = 1 .. Len(guards) /\ DOMAIN guards' = 1 .. Len(guards) - 1
        /\ \A i \in DOMAIN guards' : guards'[i] = guards[i]
        /\ ToSet(guards) = ToSet(guards') \cup {c}
        /\ IsInjective(guards') /\ c \notin ToSet(guards')
    <3>1. IsInjective(guards)
      BY DEF DeferInv, Accounted
    <3> QED
      BY <1>0, <2>1, <2>2, <3>1, OneFewer
  <2>4. c = guards[Len(guards)] /\ Len(guards) \in DOMAIN guards
    BY <2>2, <2>3 DEF Last
  <2> HIDE DEF c
  <2>5. mode' \in Modes \ {"ended"}
    BY <1>0, <2>1 DEF Panicked, Modes
  <2>6. ran' \in {ran, Append(ran, c)} /\ ran' \in Seq(Closures)
    BY <1>0, <2>1, <2>3, OneMore
  <2>7. DeferType'
    BY <1>0, <2>1, <2>3, <2>5, <2>6 DEF DeferType
  <2>8. Nested'
    <3>1. Last(floors) <= Len(guards')
      BY <2>1, <2>2, <2>3 DEF Guarded
    <3> QED
      BY <2>1, <2>2, <2>5, <3>1 DEF DeferInv, Nested, Last
  <2>9. Stacked'
    <3>1. DOMAIN guards' \subseteq DOMAIN guards
      BY <2>2, <2>3
    <3> QED
      BY <2>1, <2>3, <3>1 DEF DeferInv, Stacked
  <2>10. Accounted' /\ Youngest
    <3>1. CASE c \in disarmed /\ ran' = ran
      <4>1. Armed' = Armed
        BY <2>1, <2>3, <3>1 DEF Armed, ToSet
      <4> QED
        BY <1>01, <2>1, <2>3, <3>1, <4>1, Primes DEF DeferInv, Accounted
    <3>2. CASE c \notin disarmed /\ ran' = Append(ran, c)
      <4>1. /\ DOMAIN ran = 1 .. Len(ran) /\ DOMAIN ran' = 1 .. Len(ran) + 1
            /\ \A i \in DOMAIN ran : ran'[i] = ran[i]
            /\ ran'[Len(ran) + 1] = c /\ Len(ran) \in Nat
            /\ ToSet(ran') = ToSet(ran) \cup {c}
        BY <1>0, <2>3, <3>2, OneMore
      <4>2. Armed' = Armed \ {c} /\ c \in Armed
        BY <2>1, <2>3, <3>2 DEF Armed, ToSet
      <4>3. c \notin ToSet(ran)
        BY <2>3 DEF DeferInv, Accounted
      <4>4. IsInjective(ran)'
        <5>1. \A i \in DOMAIN ran : ran[i] # c
          BY <4>3 DEF ToSet
        <5>2. \A i \in DOMAIN ran' : i \in DOMAIN ran \/ i = Len(ran) + 1
          BY <4>1
        <5> QED
          BY <4>1, <5>1, <5>2 DEF DeferInv, Accounted, IsInjective
      <4>5. Accounted'
        <5>1. ToSet(deferred') = Armed' \cup ToSet(ran') \cup disarmed'
          BY <2>1, <4>1, <4>2 DEF DeferInv, Accounted
        <5>2. ToSet(ran') \cap (ToSet(guards') \cup disarmed) = {}
          BY <2>3, <3>2, <4>1, <4>3 DEF DeferInv, Accounted
        <5> QED
          BY <2>1, <2>3, <4>4, <5>1, <5>2, Primes DEF Accounted
      <4>6. \A d \in Armed' : Older(d, c)
        <5> SUFFICES ASSUME NEW d \in Armed'
                     PROVE  Older(d, c)
          OBVIOUS
        <5>1. PICK i \in DOMAIN guards' : guards'[i] = d
          BY DEF Armed, ToSet
        <5>2. i \in DOMAIN guards /\ i < Len(guards) /\ guards[i] = d
          BY <2>2, <2>3, <5>1
        <5> QED
          BY <2>4, <5>2 DEF DeferInv, Stacked, Before, Older
      <4>7. \A e \in Closures : ran' = Append(ran, e) => e = c
        BY <1>0, <3>2, <4>1, OneMore
      <4> QED
        BY <4>5, <4>6, <4>7 DEF Youngest
    <3> QED
      BY <2>1, <3>1, <3>2
  <2> QED
    BY <2>7, <2>8, <2>9, <2>10 DEF DeferInv, Youngest
<1>6. CASE Left
  <2>1. /\ mode \in {"leaving", "unwinding"} /\ ~Guarded /\ floors' = Front(floors)
        /\ UNCHANGED <<guards, deferred, disarmed, ran>>
        /\ IF Len(floors) = 1 THEN mode' = "ended"
           ELSE mode' \in {"running", "unwinding"}
    BY <1>6 DEF Left
  <2> DEFINE n == Len(floors)
  <2>2. /\ floors # <<>> /\ n \in Nat /\ n > 0 /\ DOMAIN floors = 1 .. n
        /\ Last(floors) = floors[n] /\ Len(guards) \in Nat
        /\ \A i \in 1 .. n : floors[i] \in Nat
    <3>1. floors # <<>>
      BY <2>1 DEF DeferInv, Nested
    <3> QED
      BY <1>0, <3>1 DEF Last
  <2>3. /\ floors' \in Seq(Nat) /\ Len(floors') = n - 1 /\ DOMAIN floors' = 1 .. n - 1
        /\ \A i \in 1 .. n - 1 : floors'[i] = floors[i]
    BY <1>0, <2>1, <2>2 DEF Front
  <2>4. DeferType'
    BY <1>0, <2>1, <2>3 DEF DeferType, Modes
  <2>5. Accounted' /\ Stacked'
    BY <2>1 DEF DeferInv, Accounted, Stacked, Armed
  <2>6. Len(guards) = floors[n] /\ floors[1] = 0
    BY <2>1, <2>2 DEF DeferInv, Nested, Guarded
  <2>7. \A i, j \in 1 .. n : i <= j => floors[i] <= floors[j]
    BY <2>2 DEF DeferInv, Nested
  <2> HIDE DEF n
  <2>8. Nested'
    <3>1. CASE n = 1
      <4>1. floors' = <<>> /\ mode' = "ended" /\ guards' = <<>>
        <5>1. Len(guards) = 0
          BY <2>6, <3>1
        <5>2. Len(floors') = 0
          BY <2>3, <3>1
        <5> QED
          BY <1>0, <2>1, <2>3, <3>1, <5>1, <5>2 DEF n
      <4>2. DOMAIN floors' = {}
        BY <2>3, <3>1
      <4> QED
        BY <4>1, <4>2 DEF Nested
    <3>2. CASE n # 1
      <4>1. n - 1 \in 1 .. n /\ n - 1 \in Nat /\ n - 1 > 0 /\ 1 \in 1 .. n - 1 /\ n \in 1 .. n
            /\ \A i \in 1 .. n - 1 : i \in 1 .. n
        BY <2>2, <3>2
      <4>2. Last(floors)' = floors[n - 1] /\ floors'[1] = 0 /\ floors' # <<>>
        BY <2>3, <2>6, <4>1 DEF Last
      <4>3. floors[n - 1] <= Len(guards')
        BY <2>1, <2>6, <2>7, <2>2, <4>1
      <4>4. \A i, j \in DOMAIN floors' : i <= j => floors'[i] <= floors'[j]
        BY <2>3, <2>7, <4>1
      <4>5. mode' # "ended"
        BY <2>1, <3>2 DEF n
      <4> QED
        BY <4>2, <4>3, <4>4, <4>5 DEF Nested
    <3> QED
      BY <3>1, <3>2
  <2> QED
    BY <1>01, <2>1, <2>4, <2>5, <2>8 DEF DeferInv, Youngest
<1> QED
  BY <1>1, <1>2, <1>3, <1>4, <1>5, <1>6 DEF DeferNext, Youngest

(* The same of a step that may change nothing.                             *)
LEMMA DeferAlways ==
  /\ DeferInv /\ [DeferNext]_deferVars => DeferInv'
  /\ DeferInv /\ [DeferNext]_deferVars =>
       [\A c \in Closures : ran' = Append(ran, c) => \A d \in Armed' : Older(d, c)]_deferVars
<1>1. ASSUME DeferInv, UNCHANGED deferVars
      PROVE  DeferInv'
  BY <1>1 DEF deferVars, DeferInv, DeferType, Nested, Accounted, Stacked, Armed
<1> QED
  BY <1>1, DeferStep

(* The guards are stacked, the scopes nested and the closures accounted    *)
(* for, whatever panics.                                                   *)
THEOREM DeferInvariance == DeferSpec => []DeferInv
  BY DeferStart, DeferAlways, PTL DEF DeferSpec

(* Every deferred closure runs once, or is disarmed, or has its guard in a *)
(* scope that is still to be left (Guard::drop, defer/mod.rs:3-9),         *)
(* whatever panics and however many closures and scopes there are.         *)
THEOREM NoneForgotten == DeferSpec => []NothingForgotten
<1>1. DeferInv => NothingForgotten
  BY DEF DeferInv, Accounted, Nested, NothingForgotten, Armed
<1> QED
  BY <1>1, DeferInvariance, PTL

(* defer! is last in, first out (mod.rs:12), in a scope and from scope to  *)
(* scope.                                                                  *)
THEOREM YoungestFirst == DeferSpec => LastInFirstOut
  BY DeferInvariance, DeferAlways, PTL DEF DeferSpec, LastInFirstOut

-----------------------------------------------------------------------------
(* eq of two vectors.                                                      *)

Calls == [self : Vecs, other : Vecs]

InCompare == {"self", "other", "compare", "half", "answered"}

(* Who compares has two vectors that somebody compares.                    *)
CallInv ==
  \A t \in Callers :
    /\ pc[t] \in InCompare =>
         args[t] \in Calls /\ <<args[t].self, args[t].other>> \in Compared
    /\ pc[t] \in {"mutex", "drain", "write"} => target[t] \in Vecs

(* Who holds the lock of a vector drains it or writes it.                  *)
LockInv ==
  /\ \A t \in Callers : pc[t] \in {"drain", "write"} => writer[target[t]] = t
  /\ \A v \in Vecs, t \in Callers :
       writer[v] = t => pc[t] \in {"drain", "write"} /\ target[t] = v

(* The guards of a vector are those of the comparisons under way.          *)
PinsRight(v, t) ==
  /\ <<t, "self">> \in pinned[v] <=>
       pc[t] \in {"other", "compare", "half", "answered"} /\ args[t].self = v
  /\ <<t, "other">> \in pinned[v] <=>
       pc[t] \in {"compare", "half"} /\ args[t].other = v

PinInv == \A v \in Vecs, t \in Callers : PinsRight(v, t)

DrainedInv == \A t \in Callers : pc[t] = "write" => pinned[target[t]] = {}

SeenInv == \A t \in Callers : pc[t] = "half" => seen[t] = value[args[t].self]

IInv == EqTypeOK /\ CallInv /\ LockInv /\ PinInv /\ DrainedInv /\ SeenInv

-----------------------------------------------------------------------------

LEMMA InitInvariant ==
  ASSUME EqInit
  PROVE  IInv
  BY VecEqAssumption DEF EqInit, IInv, EqTypeOK, CallInv, LockInv, PinInv,
    PinsRight, DrainedInv, SeenInv, Labels, InCompare, Sides

(* The steps of a comparison.                                              *)
LEMMA CompareStep ==
  ASSUME IInv, NEW t \in Callers,
         \/ \E a, b \in Vecs : Compare(t, a, b)
         \/ PinSelf(t) \/ PinOther(t) \/ LookAtSelf(t) \/ Answer(t) \/ DropSelf(t)
  PROVE  IInv'
<1> USE DEF Goto, Labels, InCompare, Sides, Calls
<1>1. ASSUME NEW a \in Vecs, NEW b \in Vecs, Compare(t, a, b) PROVE IInv'
  <2> USE <1>1 DEF Compare, IInv
  <2>1. EqTypeOK'
    BY DEF EqTypeOK
  <2>2. CallInv'
    BY DEF EqTypeOK, CallInv
  <2>3. LockInv'
    BY DEF EqTypeOK, LockInv
  <2>4. PinInv'
    <3>1. ASSUME NEW v \in Vecs, NEW u \in Callers, u # t PROVE PinsRight(v, u)'
      BY <3>1 DEF EqTypeOK, PinInv, PinsRight
    <3>2. ASSUME NEW v \in Vecs PROVE PinsRight(v, t)'
      BY <3>2 DEF EqTypeOK, PinInv, PinsRight
    <3> QED BY <3>1, <3>2 DEF PinInv
  <2>5. DrainedInv' /\ SeenInv'
    BY DEF EqTypeOK, DrainedInv, SeenInv
  <2> QED BY <2>1, <2>2, <2>3, <2>4, <2>5
<1>2. CASE PinSelf(t)
  <2> USE <1>2 DEF PinSelf, IInv
  <2>1. args[t].self \in Vecs
    BY DEF CallInv
  <2>2. EqTypeOK'
    BY <2>1 DEF EqTypeOK
  <2>3. CallInv' /\ LockInv'
    BY DEF EqTypeOK, CallInv, LockInv
  <2>4. PinInv'
    <3>1. ASSUME NEW v \in Vecs, NEW u \in Callers, u # t PROVE PinsRight(v, u)'
      BY <3>1, <2>1 DEF EqTypeOK, PinInv, PinsRight
    <3>2. ASSUME NEW v \in Vecs PROVE PinsRight(v, t)'
      BY <3>2, <2>1 DEF EqTypeOK, PinInv, PinsRight
    <3> QED BY <3>1, <3>2 DEF PinInv
  <2>5. DrainedInv'
    BY <2>1, VecEqAssumption DEF EqTypeOK, CallInv, LockInv, DrainedInv
  <2>6. SeenInv'
    BY DEF EqTypeOK, SeenInv
  <2> QED BY <2>2, <2>3, <2>4, <2>5, <2>6
<1>3. CASE PinOther(t)
  <2> USE <1>3 DEF PinOther, IInv
  <2>1. args[t].other \in Vecs
    BY DEF CallInv
  <2>2. EqTypeOK'
    BY <2>1 DEF EqTypeOK
  <2>3. CallInv' /\ LockInv'
    BY DEF EqTypeOK, CallInv, LockInv
  <2>4. PinInv'
    <3>1. ASSUME NEW v \in Vecs, NEW u \in Callers, u # t PROVE PinsRight(v, u)'
      BY <3>1, <2>1 DEF EqTypeOK, PinInv, PinsRight
    <3>2. ASSUME NEW v \in Vecs PROVE PinsRight(v, t)'
      BY <3>2, <2>1 DEF EqTypeOK, PinInv, PinsRight
    <3> QED BY <3>1, <3>2 DEF PinInv
  <2>5. DrainedInv'
    BY <2>1, VecEqAssumption DEF EqTypeOK, CallInv, LockInv, DrainedInv
  <2>6. SeenInv'
    BY DEF EqTypeOK, SeenInv
  <2> QED BY <2>2, <2>3, <2>4, <2>5, <2>6
<1>4. CASE LookAtSelf(t)
  <2> USE <1>4 DEF LookAtSelf, IInv
  <2>1. value[args[t].self] \in Values
    BY DEF EqTypeOK, CallInv
  <2>2. EqTypeOK'
    BY <2>1 DEF EqTypeOK
  <2>3. CallInv' /\ LockInv'
    BY DEF EqTypeOK, CallInv, LockInv
  <2>4. PinInv' /\ DrainedInv'
    BY DEF EqTypeOK, PinInv, PinsRight, DrainedInv
  <2>5. SeenInv'
    BY <2>1 DEF EqTypeOK, SeenInv
  <2> QED BY <2>2, <2>3, <2>4, <2>5
<1>5. CASE Answer(t)
  <2> USE <1>5 DEF Answer, IInv
  <2>1. args[t].other \in Vecs /\ args[t].self \in Vecs
    BY DEF CallInv
  <2>2. EqTypeOK'
    <3>1. seen' \in [Callers -> Values \cup BOOLEAN \cup {Nil}]
      BY DEF EqTypeOK
    <3> QED BY <2>1, <3>1 DEF EqTypeOK
  <2>3. CallInv' /\ LockInv'
    BY DEF EqTypeOK, CallInv, LockInv
  <2>4. PinInv'
    <3>1. ASSUME NEW v \in Vecs, NEW u \in Callers, u # t PROVE PinsRight(v, u)'
      BY <3>1, <2>1 DEF EqTypeOK, PinInv, PinsRight
    <3>2. ASSUME NEW v \in Vecs PROVE PinsRight(v, t)'
      BY <3>2, <2>1 DEF EqTypeOK, PinInv, PinsRight
    <3> QED BY <3>1, <3>2 DEF PinInv
  <2>5. DrainedInv'
    BY <2>1 DEF EqTypeOK, CallInv, DrainedInv
  <2>6. SeenInv'
    BY DEF EqTypeOK, SeenInv
  <2> QED BY <2>2, <2>3, <2>4, <2>5, <2>6
<1>6. CASE DropSelf(t)
  <2> USE <1>6 DEF DropSelf, IInv
  <2>1. args[t].self \in Vecs
    BY DEF CallInv
  <2>2. EqTypeOK'
    BY <2>1 DEF EqTypeOK
  <2>3. CallInv' /\ LockInv'
    BY DEF EqTypeOK, CallInv, LockInv
  <2>4. PinInv'
    <3>1. ASSUME NEW v \in Vecs, NEW u \in Callers, u # t PROVE PinsRight(v, u)'
      BY <3>1, <2>1 DEF EqTypeOK, PinInv, PinsRight
    <3>2. ASSUME NEW v \in Vecs PROVE PinsRight(v, t)'
      BY <3>2, <2>1 DEF EqTypeOK, PinInv, PinsRight
    <3> QED BY <3>1, <3>2 DEF PinInv
  <2>5. DrainedInv'
    BY <2>1 DEF EqTypeOK, CallInv, DrainedInv
  <2>6. SeenInv'
    BY DEF EqTypeOK, SeenInv
  <2> QED BY <2>2, <2>3, <2>4, <2>5, <2>6
<1> QED BY <1>1, <1>2, <1>3, <1>4, <1>5, <1>6

(* The steps of a write.                                                   *)
LEMMA WriteStep ==
  ASSUME IInv, NEW t \in Callers,
         \/ \E v \in Vecs : BeginWrite(t, v)
         \/ LockWrite(t) \/ EnterWrite(t) \/ Write(t) \/ EndWrite(t)
  PROVE  IInv'
<1> USE DEF Goto, Labels, InCompare, Sides, Calls
<1>1. ASSUME NEW v \in Vecs, BeginWrite(t, v) PROVE IInv'
  <2> USE <1>1 DEF BeginWrite, IInv
  <2>1. EqTypeOK'
    BY DEF EqTypeOK
  <2>2. CallInv' /\ LockInv'
    BY DEF EqTypeOK, CallInv, LockInv
  <2>3. PinInv' /\ DrainedInv' /\ SeenInv'
    BY DEF EqTypeOK, PinInv, PinsRight, DrainedInv, SeenInv
  <2> QED BY <2>1, <2>2, <2>3
<1>2. CASE LockWrite(t)
  <2> USE <1>2 DEF LockWrite, IInv
  <2>1. target[t] \in Vecs
    BY DEF CallInv
  <2>2. EqTypeOK'
    BY <2>1 DEF EqTypeOK
  <2>3. CallInv'
    BY DEF EqTypeOK, CallInv
  <2>4. LockInv'
    BY <2>1, VecEqAssumption DEF EqTypeOK, CallInv, LockInv
  <2>5. PinInv' /\ DrainedInv' /\ SeenInv'
    BY DEF EqTypeOK, PinInv, PinsRight, DrainedInv, SeenInv
  <2> QED BY <2>2, <2>3, <2>4, <2>5
<1>3. CASE EnterWrite(t)
  <2> USE <1>3 DEF EnterWrite, IInv
  <2>1. EqTypeOK' /\ CallInv'
    BY DEF EqTypeOK, CallInv
  <2>2. LockInv'
    BY DEF EqTypeOK, LockInv
  <2>3. PinInv' /\ DrainedInv' /\ SeenInv'
    BY DEF EqTypeOK, PinInv, PinsRight, DrainedInv, SeenInv
  <2> QED BY <2>1, <2>2, <2>3
<1>4. CASE Write(t)
  <2> USE <1>4 DEF Write, IInv
  <2>1. PICK x \in Values : value' = [value EXCEPT ![target[t]] = x]
    OBVIOUS
  <2>2. EqTypeOK' /\ CallInv'
    BY <2>1 DEF EqTypeOK, CallInv
  <2>3. LockInv' /\ PinInv' /\ DrainedInv'
    BY DEF EqTypeOK, LockInv, PinInv, PinsRight, DrainedInv
  <2>4. ASSUME NEW u \in Callers, pc[u] = "half"
        PROVE  args[u].self \in Vecs /\ args[u].self # target[t]
    BY <2>4 DEF CallInv, PinInv, PinsRight, DrainedInv
  <2>5. SeenInv'
    BY <2>1, <2>4 DEF EqTypeOK, SeenInv
  <2> QED BY <2>2, <2>3, <2>5
<1>5. CASE EndWrite(t)
  <2> USE <1>5 DEF EndWrite, IInv
  <2>1. target[t] \in Vecs
    BY DEF CallInv
  <2>2. EqTypeOK'
    BY <2>1 DEF EqTypeOK
  <2>3. CallInv'
    BY DEF EqTypeOK, CallInv
  <2>4. LockInv'
    BY <2>1, VecEqAssumption DEF EqTypeOK, CallInv, LockInv
  <2>5. PinInv' /\ DrainedInv' /\ SeenInv'
    BY DEF EqTypeOK, PinInv, PinsRight, DrainedInv, SeenInv
  <2> QED BY <2>2, <2>3, <2>4, <2>5
<1> QED BY <1>1, <1>2, <1>3, <1>4, <1>5

(* Every state that a comparison or a write can be in keeps the invariant. *)
THEOREM EqInvariance == EqSpec => []IInv
<1>1. EqInit => IInv
  BY InitInvariant
<1>2. IInv /\ [EqNext]_eqVars => IInv'
  <2> SUFFICES ASSUME IInv, [EqNext]_eqVars PROVE IInv'
    OBVIOUS
  <2>1. CASE EqNext
    BY <2>1, CompareStep, WriteStep DEF EqNext
  <2>2. CASE UNCHANGED eqVars
    BY <2>2 DEF eqVars, IInv, EqTypeOK, CallInv, LockInv, PinInv, PinsRight,
      DrainedInv, SeenInv
  <2> QED BY <2>1, <2>2
<1> QED BY <1>1, <1>2, PTL DEF EqSpec

-----------------------------------------------------------------------------

LEMMA AnswerStep ==
  ASSUME IInv, [EqNext]_eqVars,
         NEW t \in Callers, pc[t] = "half", pc'[t] = "answered"
  PROVE  seen'[t] = (value[args[t].self] = value[args[t].other])
<1>1. Answer(t)
  <2>1. pc' # pc
    OBVIOUS
  <2>2. PICK u \in Callers :
          \/ PinSelf(u) \/ PinOther(u) \/ LookAtSelf(u) \/ Answer(u) \/ DropSelf(u)
          \/ LockWrite(u) \/ EnterWrite(u) \/ Write(u) \/ EndWrite(u)
          \/ \E v \in Vecs : BeginWrite(u, v)
          \/ \E a, b \in Vecs : Compare(u, a, b)
    BY <2>1 DEF EqNext, eqVars
  <2>3. ~Write(u)
    BY <2>1 DEF Write
  <2>4. PICK from \in Labels, to \in Labels : Goto(u, from, to)
    BY <2>2, <2>3 DEF Labels, PinSelf, PinOther, LookAtSelf, Answer, DropSelf,
      LockWrite, EnterWrite, EndWrite, BeginWrite, Compare
  <2>5. u = t
    BY <2>4 DEF IInv, EqTypeOK, Goto
  <2> QED BY <2>2, <2>3, <2>5 DEF IInv, EqTypeOK, Goto, PinSelf, PinOther,
    LookAtSelf, DropSelf, LockWrite, EnterWrite, EndWrite, BeginWrite, Compare
<1>2. seen'[t] = (seen[t] = value[args[t].other])
  BY <1>1 DEF IInv, EqTypeOK, Answer
<1>3. seen[t] = value[args[t].self]
  BY DEF IInv, SeenInv
<1> QED BY <1>2, <1>3

(* The answer of eq is that of one moment, for any number of vectors and   *)
(* threads, in any order.                                                  *)
THEOREM AnswersTrue == EqSpec => AnswerTrue
<1>1. IInv /\ [EqNext]_eqVars =>
        [\A t \in Callers : pc[t] = "half" /\ pc'[t] = "answered" =>
           seen'[t] = (value[args[t].self] = value[args[t].other])]_eqVars
  BY AnswerStep
<1> QED BY <1>1, EqInvariance, PTL DEF EqSpec, AnswerTrue

-----------------------------------------------------------------------------
(* Who waits for a thread that itself waits.                               *)
LEMMA WaitingChain ==
  ASSUME IInv,
         NEW t \in Callers, NEW u \in Callers, NEW w \in Callers,
         WaitsFor(t, u), WaitsFor(u, w)
  PROVE  \/ pc[t] # "drain" /\ pc[u] = "drain"
         \/ pc[t] = "drain" /\ pc[u] = "other" /\ args[u].self = target[t]
<1>1. pc[u] \in {"self", "other", "mutex", "drain"}
  BY DEF WaitsFor
<1>2. CASE pc[t] = "drain"
  <2>1. target[t] \in Vecs
    BY <1>2 DEF IInv, CallInv
  <2>2. \E s \in Sides : <<u, s>> \in pinned[target[t]]
    BY <1>2 DEF WaitsFor
  <2>3. pc[u] \in {"other", "compare", "half", "answered"} /\ args[u].self = target[t]
    BY <1>1, <2>1, <2>2 DEF IInv, PinInv, PinsRight, Sides
  <2> QED BY <1>1, <1>2, <2>3
<1>3. CASE pc[t] # "drain"
  <2>1. PICK v \in Vecs : writer[v] = u
    BY <1>3 DEF WaitsFor, IInv, CallInv, InCompare, Calls
  <2>2. pc[u] \in {"drain", "write"}
    BY <2>1 DEF IInv, LockInv
  <2> QED BY <1>1, <1>3, <2>2
<1> QED BY <1>2, <1>3

LEMMA LowestRank ==
  ASSUME NEW T \in SUBSET Nat, T # {}
  PROVE  \E n \in T : \A m \in T : ~(m < n)
<1>1. PICK n \in T : \A m \in T : ~(<<m, n>> \in OpToRel(<, Nat))
  BY NatLessThanWellFounded, WFMin
<1>2. \A m \in T : m < n => <<m, n>> \in OpToRel(<, Nat)
  BY DEF OpToRel
<1> QED BY <1>1, <1>2

(* The comparisons in a circle make a ring.                                *)
LEMMA RingState ==
  ASSUME IInv, NEW S \in SUBSET Callers, Circle(S)
  PROVE  Ring({t \in S : pc[t] = "other"})
<1> DEFINE Holding == {t \in S : pc[t] = "other"}
<1>1. \A t \in S : \E u \in S :
        /\ WaitsFor(t, u)
        /\ \/ pc[t] # "drain" /\ pc[u] = "drain"
           \/ pc[t] = "drain" /\ pc[u] = "other" /\ args[u].self = target[t]
  <2> TAKE t \in S
  <2>1. PICK u \in S : WaitsFor(t, u)
    BY DEF Circle
  <2>2. PICK w \in S : WaitsFor(u, w)
    BY DEF Circle
  <2> QED BY <2>1, <2>2, WaitingChain
<1>2. Holding # {}
  <2>1. PICK t \in S : pc[t] = "drain"
    <3>1. PICK t : t \in S
      BY DEF Circle
    <3> QED BY <1>1, <3>1
  <2> QED BY <1>1, <2>1
<1>3. ASSUME NEW t \in Holding
      PROVE  \E w \in Holding : args[w].self = args[t].other
  <2>1. PICK u \in S : WaitsFor(t, u) /\ pc[u] = "drain"
    BY <1>1
  <2>2. writer[args[t].other] = u
    BY <2>1 DEF WaitsFor
  <2>3. args[t] \in Calls
    BY DEF IInv, CallInv, InCompare
  <2>4. target[u] = args[t].other
    BY <2>2, <2>3 DEF IInv, LockInv, Calls
  <2>5. PICK w \in S : pc[w] = "other" /\ args[w].self = target[u]
    BY <1>1, <2>1
  <2> QED BY <2>4, <2>5
<1> QED BY <1>2, <1>3 DEF Ring

(* A circle of threads that wait for one another is one of comparisons     *)
(* under way (vec.rs:420), for any number of threads and vectors and       *)
(* whatever they compare and write.                                        *)
THEOREM OnlyByARing == EqSpec => []CirclesAreRings
<1>1. IInv => CirclesAreRings
  <2> SUFFICES ASSUME IInv, NEW S \in SUBSET Callers, Circle(S)
               PROVE  \E C \in SUBSET S : Ring(C)
    BY DEF CirclesAreRings
  <2> WITNESS {t \in S : pc[t] = "other"} \in SUBSET S
  <2> QED BY RingState
<1> QED BY <1>1, EqInvariance, PTL

(* Where each a == b goes from the higher to the lower of two ranks there  *)
(* is no ring.                                                             *)
LEMMA NoRing ==
  ASSUME IInv, NEW C \in SUBSET Callers,
         NEW Rank \in [Vecs -> Nat], \A p \in Compared : Rank[p[2]] < Rank[p[1]]
  PROVE  ~Ring(C)
<1> SUFFICES ASSUME Ring(C) PROVE FALSE
  OBVIOUS
<1> DEFINE Ranks == {Rank[args[t].self] : t \in C}
<1>1. \A t \in C : args[t] \in Calls /\ Rank[args[t].other] < Rank[args[t].self]
  <2> TAKE t \in C
  <2>1. args[t] \in Calls /\ <<args[t].self, args[t].other>> \in Compared
    BY DEF IInv, CallInv, InCompare, Ring
  <2> QED BY <2>1
<1>2. Ranks \in SUBSET Nat /\ Ranks # {}
  BY <1>1 DEF Calls, Ring
<1>3. PICK t \in C : \A u \in C : ~(Rank[args[u].self] < Rank[args[t].self])
  <2>1. PICK n \in Ranks : \A m \in Ranks : ~(m < n)
    BY <1>2, LowestRank
  <2> QED BY <2>1
<1>4. PICK u \in C : args[u].self = args[t].other
  BY <1>3 DEF Ring
<1> QED BY <1>1, <1>3, <1>4

(* No circle of threads that wait for one another, whatever they compare   *)
(* and write, if the vectors have any ranks such that each a == b is from  *)
(* the higher to the lower (their addresses, for example).                 *)
THEOREM NeverInACircle ==
  ASSUME NEW Rank \in [Vecs -> Nat], \A p \in Compared : Rank[p[2]] < Rank[p[1]]
  PROVE  EqSpec => []NoCircle
<1>1. IInv => NoCircle
  BY RingState, NoRing DEF NoCircle
<1> QED BY <1>1, EqInvariance, PTL

=============================================================================
