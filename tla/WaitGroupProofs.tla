--------------------------- MODULE WaitGroupProofs ---------------------------
(***************************************************************************)
(* Theorems about WaitGroup for every set of threads and every number of   *)
(* values, provided that calls of add do not overlap: the run with         *)
(* overlapping adds shows that they do not hold otherwise.                 *)
(***************************************************************************)
EXTENDS WaitGroup, FiniteSetTheorems, TLAPS

(* What an add is about to store does not forget anything, and a clone     *)
(* counts itself.                                                          *)
SumInv ==
  /\ \A t, u \in Threads : Adding(t) /\ Adding(u) => t = u
  /\ \A t \in Threads : Adding(t) => sum[t] >= total
  /\ \A t \in Threads : pc[t] = "clone" => sum[t] = total + 1

(* The value of a method that runs is alive.                               *)
UsingInv == \A t \in Threads : pc[t] # "user" => using[t] \in alive

WInv == TypeOK /\ SumInv /\ UsingInv /\ NeverOvercounted

-----------------------------------------------------------------------------
(* Counting values.                                                        *)

(* The live values are finitely many; one value means that nobody else is  *)
(* there.                                                                  *)
LEMMA AliveCounted ==
  ASSUME NEW A \in SUBSET Handles
  PROVE  /\ IsFiniteSet(A)
         /\ Cardinality(A) \in Nat
         /\ \A h \in Handles \ A : Cardinality(A \cup {h}) = Cardinality(A) + 1
         /\ \A h \in A : Cardinality(A \ {h}) = Cardinality(A) - 1
         /\ \A h \in A : Cardinality(A) <= 1 => A = {h}
<1>1. IsFiniteSet(A)
  BY WaitGroupAssumption, FS_Subset
<1>2. Cardinality(A) \in Nat
  BY <1>1, FS_CardinalityType
<1>3. \A h \in Handles \ A : Cardinality(A \cup {h}) = Cardinality(A) + 1
  BY <1>1, FS_AddElement
<1>4. \A h \in A : Cardinality(A \ {h}) = Cardinality(A) - 1
  BY <1>1, FS_RemoveElement
<1>5. ASSUME NEW h \in A, Cardinality(A) <= 1
      PROVE  A = {h}
  <2>1. Cardinality(A \ {h}) = 0
    <3>1. IsFiniteSet(A \ {h})
      BY <1>1, FS_Subset
    <3>2. Cardinality(A \ {h}) \in Nat
      BY <3>1, FS_CardinalityType
    <3> QED
      BY <1>2, <1>4, <1>5, <3>2
  <2>2. A \ {h} = {}
    BY <1>1, <2>1, FS_Subset, FS_EmptySet
  <2> QED
    BY <2>2
<1> QED
  BY <1>1, <1>2, <1>3, <1>4, <1>5

-----------------------------------------------------------------------------
(* The invariant.                                                          *)

(* A step that leaves the total, the channel and the values as they are,   *)
(* and lets no thread count more, does not overcount.                      *)
LEMMA CountKept ==
  ASSUME TypeOK, TypeOK', NeverOvercounted, UNCHANGED <<total, queue, alive>>,
         \A t \in Threads : current'[t] <= current[t]
  PROVE  NeverOvercounted'
<1> SUFFICES ASSUME NEW t \in Threads
             PROVE  current'[t] + queue + Cardinality(alive) <= total + 1
  BY DEF NeverOvercounted
<1>1. /\ current'[t] \in Nat /\ current[t] \in Nat
      /\ queue \in Nat /\ total \in Nat
  BY DEF TypeOK
<1>2. Cardinality(alive) \in Nat
  BY AliveCounted DEF TypeOK
<1>3. current[t] + queue + Cardinality(alive) <= total + 1
  BY DEF NeverOvercounted
<1> QED
  BY <1>1, <1>2, <1>3

(* What clone and drop do to the number of values.                         *)
LEMMA ValuesCounted ==
  ASSUME TypeOK, NEW h
  PROVE  /\ Cardinality(alive) \in Nat
         /\ h \in Handles /\ h \notin alive =>
              Cardinality(alive \cup {h}) = Cardinality(alive) + 1
         /\ h \in alive =>
              Cardinality(alive \ {h}) = Cardinality(alive) - 1
  BY AliveCounted DEF TypeOK

LEMMA Step ==
  ASSUME OneAdder = TRUE, WInv, Next
  PROVE  WInv'
<1> USE WaitGroupAssumption DEF WInv
<1>1. ASSUME NEW t \in Threads, NEW h \in Handles, NEW v \in Nat,
             NEW label \in {"add", "clone"}, BeginAdd(t, h, v, label),
             label = "clone" => v = 1
      PROVE  WInv'
  <2>1. TypeOK'
    BY <1>1 DEF TypeOK, Labels, BeginAdd, Enter
  <2>2. SumInv'
    BY <1>1 DEF TypeOK, SumInv, Adding, BeginAdd, Enter
  <2>3. NeverOvercounted'
    BY <1>1, <2>1, CountKept DEF TypeOK, BeginAdd
  <2>4. UsingInv'
    BY <1>1 DEF TypeOK, UsingInv, BeginAdd, Enter
  <2> QED
    BY <2>1, <2>2, <2>3, <2>4
<1>2. ASSUME NEW t \in Threads, FinishAdd(t)
      PROVE  WInv'
  <2>0. total' = sum[t] /\ sum[t] \in Nat /\ sum[t] >= total
    BY <1>2 DEF TypeOK, SumInv, Adding, FinishAdd
  <2>1. TypeOK'
    BY <1>2, <2>0 DEF TypeOK, Labels, FinishAdd, Leave
  <2>2. SumInv'
    BY <1>2 DEF TypeOK, SumInv, Adding, FinishAdd, Leave
  <2>3. NeverOvercounted'
    <3> SUFFICES ASSUME NEW u \in Threads
                 PROVE  current[u] + queue + Cardinality(alive) <= total' + 1
      BY <1>2 DEF NeverOvercounted, FinishAdd
    <3>1. current[u] + queue + Cardinality(alive) <= total + 1
      BY DEF NeverOvercounted
    <3>2. current[u] \in Nat /\ queue \in Nat /\ total \in Nat
      BY DEF TypeOK
    <3>3. Cardinality(alive) \in Nat
      BY ValuesCounted
    <3> QED
      BY <2>0, <3>1, <3>2, <3>3
  <2>4. UsingInv'
    BY <1>2 DEF TypeOK, UsingInv, FinishAdd, Leave
  <2> QED
    BY <2>1, <2>2, <2>3, <2>4
<1>3. ASSUME NEW t \in Threads, NEW h \in Handles, FinishClone(t, h)
      PROVE  WInv'
  <2>0. total' = total + 1
    BY <1>3 DEF SumInv, FinishClone
  <2>1. TypeOK'
    BY <1>3, <2>0 DEF TypeOK, Labels, FinishClone, Leave
  <2>2. SumInv'
    BY <1>3 DEF TypeOK, SumInv, Adding, FinishClone, Leave
  <2>3. NeverOvercounted'
    <3> SUFFICES ASSUME NEW u \in Threads
                 PROVE  current[u] + queue + Cardinality(alive \cup {h}) <= total' + 1
      BY <1>3 DEF NeverOvercounted, FinishClone
    <3>1. current[u] + queue + Cardinality(alive) <= total + 1
      BY DEF NeverOvercounted
    <3>2. Cardinality(alive \cup {h}) = Cardinality(alive) + 1
      BY <1>3, ValuesCounted DEF FinishClone
    <3>3. current[u] \in Nat /\ queue \in Nat /\ total \in Nat
      BY DEF TypeOK
    <3>4. Cardinality(alive) \in Nat
      BY ValuesCounted
    <3> QED
      BY <2>0, <3>1, <3>2, <3>3, <3>4
  <2>4. UsingInv'
    BY <1>3 DEF TypeOK, UsingInv, FinishClone, Leave
  <2> QED
    BY <2>1, <2>2, <2>3, <2>4
<1>4. ASSUME NEW h \in Handles, Drop(h)
      PROVE  WInv'
  <2>1. TypeOK'
    BY <1>4 DEF TypeOK, Drop
  <2>2. SumInv'
    BY <1>4 DEF SumInv, Adding, Drop
  <2>3. NeverOvercounted'
    <3> SUFFICES ASSUME NEW u \in Threads
                 PROVE  current[u] + (queue + 1) + Cardinality(alive \ {h}) <= total + 1
      BY <1>4 DEF NeverOvercounted, Drop
    <3>1. current[u] + queue + Cardinality(alive) <= total + 1
      BY DEF NeverOvercounted
    <3>2. Cardinality(alive \ {h}) = Cardinality(alive) - 1
      BY <1>4, ValuesCounted DEF Drop
    <3>3. current[u] \in Nat /\ queue \in Nat /\ total \in Nat
      BY DEF TypeOK
    <3>4. Cardinality(alive) \in Nat
      BY ValuesCounted
    <3> QED
      BY <3>1, <3>2, <3>3, <3>4
  <2>4. UsingInv'
    BY <1>4 DEF TypeOK, UsingInv, Drop
  <2> QED
    BY <2>1, <2>2, <2>3, <2>4
<1>5. ASSUME NEW t \in Threads, NEW h \in Handles,
             PassWait(t, h) \/ BeginWait(t, h)
      PROVE  WInv'
  <2>1. TypeOK'
    <3>1. CASE PassWait(t, h)
      BY <3>1 DEF TypeOK, PassWait
    <3>2. CASE BeginWait(t, h)
      BY <3>2 DEF TypeOK, Labels, BeginWait, Enter
    <3> QED
      BY <1>5, <3>1, <3>2
  <2>2. SumInv'
    BY <1>5 DEF TypeOK, SumInv, Adding, PassWait, BeginWait, Enter
  <2>3. \A u \in Threads : current'[u] <= current[u]
    BY <1>5 DEF TypeOK, PassWait, BeginWait
  <2>4. NeverOvercounted'
    BY <1>5, <2>1, <2>3, CountKept DEF PassWait, BeginWait
  <2>5. UsingInv'
    BY <1>5 DEF TypeOK, UsingInv, PassWait, BeginWait, Enter
  <2> QED
    BY <2>1, <2>2, <2>4, <2>5
<1>6. ASSUME NEW t \in Threads, Receive(t)
      PROVE  WInv'
  <2>1. TypeOK'
    BY <1>6 DEF TypeOK, Labels, Receive
  <2>2. SumInv'
    BY <1>6 DEF TypeOK, SumInv, Adding, Receive
  <2>3. NeverOvercounted'
    <3> SUFFICES ASSUME NEW u \in Threads
                 PROVE  current'[u] + (queue - 1) + Cardinality(alive) <= total + 1
      BY <1>6 DEF NeverOvercounted, Receive
    <3>1. current[u] + queue + Cardinality(alive) <= total + 1
      BY DEF NeverOvercounted
    <3>2. current[u] \in Nat /\ queue \in Nat /\ total \in Nat
      BY DEF TypeOK
    <3>3. current'[u] = current[u] \/ current'[u] = current[u] + 1
      BY <1>6 DEF TypeOK, Receive
    <3>4. Cardinality(alive) \in Nat
      BY ValuesCounted
    <3> QED
      BY <3>1, <3>2, <3>3, <3>4
  <2>4. UsingInv'
    BY <1>6 DEF TypeOK, UsingInv, Receive
  <2> QED
    BY <2>1, <2>2, <2>3, <2>4
<1>7. ASSUME NEW t \in Threads, Continue(t) \/ Return(t) \/ Cancel(t)
      PROVE  WInv'
  <2>1. TypeOK'
    BY <1>7 DEF TypeOK, Labels, Continue, Return, Cancel, Leave
  <2>2. SumInv'
    BY <1>7 DEF TypeOK, SumInv, Adding, Continue, Return, Cancel, Leave
  <2>3. \A u \in Threads : current'[u] <= current[u]
    BY <1>7 DEF TypeOK, Continue, Return, Cancel
  <2>4. NeverOvercounted'
    BY <1>7, <2>1, <2>3, CountKept DEF Continue, Return, Cancel
  <2>5. UsingInv'
    BY <1>7 DEF TypeOK, UsingInv, Continue, Return, Cancel, Leave
  <2> QED
    BY <2>1, <2>2, <2>4, <2>5
<1>8. Amounts \subseteq Nat /\ 1 \in Nat
  OBVIOUS
<1> QED
  BY <1>1, <1>2, <1>3, <1>4, <1>5, <1>6, <1>7, <1>8 DEF Next, Run, Call

(* The total, the channel, the live values and what every waiter has       *)
(* received stay consistent, whatever waits, cancels and adds.             *)
THEOREM Invariance ==
  ASSUME OneAdder = TRUE
  PROVE  Spec => []WInv
<1>1. Init => WInv
  <2> SUFFICES ASSUME Init PROVE WInv
    OBVIOUS
  <2>1. TypeOK
    <3>1. pc \in [Threads -> Labels]
      BY DEF Init, Labels
    <3>2. using \in [Threads -> Handles \cup {None}]
      BY DEF Init
    <3>3. /\ sum \in [Threads -> Nat]
          /\ current \in [Threads -> Nat]
      BY DEF Init
    <3>4. /\ alive \subseteq Handles
          /\ waited \in BOOLEAN /\ done \subseteq Threads
      BY WaitGroupAssumption DEF Init
    <3>5. adds \in 0 .. MaxAdds /\ total \in Nat /\ queue \in Nat
      BY WaitGroupAssumption DEF Init
    <3>6. \A t \in Threads : using[t] = None <=> pc[t] = "user"
      BY DEF Init
    <3> QED
      BY <3>1, <3>2, <3>3, <3>4, <3>5, <3>6 DEF TypeOK
  <2>2. SumInv
    BY DEF Init, SumInv, Adding
  <2>3. NeverOvercounted
    <3>1. Cardinality({Main}) = 1
      BY FS_Singleton
    <3> QED
      BY <3>1 DEF Init, NeverOvercounted
  <2>4. UsingInv
    BY DEF Init, UsingInv
  <2> QED
    BY <2>1, <2>2, <2>3, <2>4 DEF WInv
<1>2. WInv /\ [Next]_vars => WInv'
  <2>1. WInv /\ UNCHANGED vars => WInv'
    BY DEF vars, WInv, TypeOK, SumInv, Adding, UsingInv, NeverOvercounted
  <2> QED
    BY <2>1, Step
<1> QED
  BY <1>1, <1>2, PTL DEF Spec

(* Every variable of a WaitGroup keeps its type.                           *)
THEOREM TypeCorrect ==
  ASSUME OneAdder = TRUE
  PROVE  Spec => []TypeOK
<1>1. WInv => TypeOK
  BY DEF WInv
<1> QED
  BY <1>1, Invariance, PTL

(* wait never counts a value that is still alive, even when several        *)
(* threads wait, waits are cancelled, and add is called directly.          *)
THEOREM WaitNeverOvercounts ==
  ASSUME OneAdder = TRUE
  PROVE  Spec => []NeverOvercounted
<1>1. WInv => NeverOvercounted
  BY DEF WInv
<1> QED
  BY <1>1, Invariance, PTL

-----------------------------------------------------------------------------
(* With one wait, and clones as the only adds, no message is lost.         *)

Exact(c) == c + queue + Cardinality(alive) = total + 1

LossInv ==
  /\ \A t \in Threads : pc[t] # "add"
  /\ \A t, u \in Threads : Waiting(t) /\ Waiting(u) => t = u
  /\ \A t \in Threads : Waiting(t) => waited
  /\ ~waited => Exact(0)
  /\ \A t \in Threads : Waiting(t) => Exact(current[t])

LEMMA StepLosesNothing ==
  ASSUME OneAdder = TRUE, OneWait = TRUE, Amounts = {}, WInv, LossInv, Next
  PROVE  LossInv'
<1>0. /\ queue \in Nat /\ total \in Nat /\ Cardinality(alive) \in Nat
      /\ \A t \in Threads : current[t] \in Nat
  BY ValuesCounted DEF WInv, TypeOK
<1>1. ASSUME NEW t \in Threads, NEW h \in Handles, BeginAdd(t, h, 1, "clone")
      PROVE  LossInv'
  BY <1>1 DEF WInv, TypeOK, LossInv, Exact, Waiting, BeginAdd, Enter
<1>2. ASSUME NEW t \in Threads, NEW h \in Handles, FinishClone(t, h)
      PROVE  LossInv'
  <2>1. total' = total + 1
    BY <1>2 DEF WInv, SumInv, FinishClone
  <2>2. Cardinality(alive') = Cardinality(alive) + 1
    BY <1>2, ValuesCounted DEF WInv, FinishClone
  <2>3. \A c \in Nat : Exact(c) => Exact(c)'
    <3> SUFFICES ASSUME NEW c \in Nat, c + queue + Cardinality(alive) = total + 1
                 PROVE  c + queue + Cardinality(alive') = total' + 1
      BY <1>2 DEF Exact, FinishClone
    <3> QED
      BY <1>0, <2>1, <2>2
  <2> QED
    BY <1>0, <1>2, <2>3 DEF WInv, TypeOK, LossInv, Waiting, FinishClone, Leave
<1>3. ASSUME NEW h \in Handles, Drop(h)
      PROVE  LossInv'
  <2>1. Cardinality(alive') = Cardinality(alive) - 1
    BY <1>3, ValuesCounted DEF WInv, Drop
  <2>2. \A c \in Nat : Exact(c) => Exact(c)'
    <3> SUFFICES ASSUME NEW c \in Nat, c + queue + Cardinality(alive) = total + 1
                 PROVE  c + (queue + 1) + Cardinality(alive') = total + 1
      BY <1>3 DEF Exact, Drop
    <3> QED
      BY <1>0, <2>1
  <2> QED
    BY <1>0, <1>3, <2>2 DEF LossInv, Waiting, Drop
<1>4. ASSUME NEW t \in Threads, NEW h \in Handles, PassWait(t, h)
      PROVE  LossInv'
  BY <1>4 DEF LossInv, Exact, Waiting, PassWait, MayWait
<1>5. ASSUME NEW t \in Threads, NEW h \in Handles, BeginWait(t, h)
      PROVE  LossInv'
  BY <1>5 DEF WInv, TypeOK, LossInv, Exact, Waiting, BeginWait, Enter, MayWait
<1>6. ASSUME NEW t \in Threads, Receive(t)
      PROVE  LossInv'
  <2>1. Exact(current[t]) /\ waited
    BY <1>6 DEF LossInv, Waiting, Receive
  <2>2. current'[t] = current[t] + 1 /\ UNCHANGED <<alive, total, waited>>
    BY <1>6 DEF WInv, TypeOK, Receive
  <2>3. Exact(current[t])'
    <3>1. current[t] + queue + Cardinality(alive) = total + 1
      BY <2>1 DEF Exact
    <3>2. (current[t] + 1) + (queue - 1) + Cardinality(alive) = total + 1
      BY <1>0, <3>1
    <3>3. queue' = queue - 1
      BY <1>6 DEF Receive
    <3> QED
      BY <2>2, <3>2, <3>3 DEF Exact
  <2>4. \A u \in Threads : Waiting(u)' => u = t
    BY <1>6 DEF WInv, TypeOK, LossInv, Waiting, Receive
  <2> QED
    BY <1>6, <2>1, <2>2, <2>3, <2>4 DEF WInv, TypeOK, LossInv, Receive
<1>7. ASSUME NEW t \in Threads, Continue(t) \/ Return(t)
      PROVE  LossInv'
  BY <1>7 DEF WInv, TypeOK, LossInv, Exact, Waiting, Continue, Return, Leave
<1> QED
  <2>1. \A t \in Threads : ~FinishAdd(t) /\ ~Cancel(t)
    BY DEF LossInv, FinishAdd, Cancel
  <2> QED
    BY <1>1, <1>2, <1>3, <1>4, <1>5, <1>6, <1>7, <2>1 DEF Next, Run, Call

(* A single wait has yet to receive exactly one message for every other    *)
(* live value: it cannot be short of messages and wait for ever.           *)
THEOREM WaitLosesNothing ==
  ASSUME OneAdder = TRUE, OneWait = TRUE, Amounts = {}
  PROVE  Spec => []NothingLost
<1>1. Init => LossInv
  <2>1. Cardinality({Main}) = 1
    BY FS_Singleton
  <2> QED
    BY <2>1 DEF Init, LossInv, Exact, Waiting
<1>2. LossInv /\ WInv /\ [Next]_vars => LossInv'
  <2>1. LossInv /\ UNCHANGED vars => LossInv'
    BY DEF vars, LossInv, Exact, Waiting
  <2> QED
    BY <2>1, StepLosesNothing
<1>3. LossInv /\ WInv => NothingLost
  <2> SUFFICES ASSUME LossInv, WInv, NEW t \in Threads, Waiting(t)
               PROVE  total - current[t] - queue = Cardinality(alive \ {using[t]})
    BY DEF NothingLost
  <2>1. current[t] + queue + Cardinality(alive) = total + 1
    BY DEF LossInv, Exact
  <2>2. using[t] \in alive
    BY DEF WInv, UsingInv, Waiting
  <2>3. Cardinality(alive \ {using[t]}) = Cardinality(alive) - 1
    BY <2>2, ValuesCounted DEF WInv
  <2>4. current[t] \in Nat /\ queue \in Nat /\ total \in Nat /\ Cardinality(alive) \in Nat
    BY ValuesCounted DEF WInv, TypeOK
  <2> QED
    BY <2>1, <2>3, <2>4
<1> QED
  BY <1>1, <1>2, <1>3, Invariance, PTL DEF Spec

-----------------------------------------------------------------------------
(* The wait group implements the latch.                                    *)

(* A thread that has counted as many drops as the total is alone.          *)
LEMMA LastOneLeft ==
  ASSUME WInv, NEW t \in Threads, NEW h \in alive, current[t] >= total
  PROVE  alive = {h}
<1>1. current[t] \in Nat /\ queue \in Nat /\ total \in Nat
  BY DEF WInv, TypeOK
<1>2. current[t] + queue + Cardinality(alive) <= total + 1
  BY DEF WInv, NeverOvercounted
<1>3. Cardinality(alive) \in Nat
  BY AliveCounted DEF WInv, TypeOK
<1>4. Cardinality(alive) <= 1
  BY <1>1, <1>2, <1>3
<1> QED
  BY <1>4, AliveCounted DEF WInv, TypeOK

(* What each thread waits on, for the latch.                               *)
waits == [t \in Threads |-> IF Waiting(t) THEN using[t] ELSE None]

LEMMA WaitsOn ==
  ASSUME WInv, NEW t \in Threads
  PROVE  /\ Waiting(t) => waits[t] = using[t] /\ waits[t] # None /\ waits[t] \in alive
         /\ ~Waiting(t) => waits[t] = None
  BY WaitGroupAssumption DEF WInv, TypeOK, UsingInv, Waiting, waits

(* Every step is a step of the latch, or leaves the latch as it is.        *)
LEMMA StepRefines ==
  ASSUME OneAdder = TRUE, WInv, Next
  PROVE  Abstract!Next \/ UNCHANGED Abstract!vars
<1> USE DEF Abstract!vars
<1>1. ASSUME NEW t \in Threads, NEW h \in Handles, NEW v, NEW label \in {"add", "clone"},
             BeginAdd(t, h, v, label)
      PROVE  UNCHANGED Abstract!vars
  BY <1>1 DEF WInv, TypeOK, BeginAdd, Enter, Waiting
<1>2. ASSUME NEW t \in Threads, FinishAdd(t)
      PROVE  UNCHANGED Abstract!vars
  BY <1>2 DEF WInv, TypeOK, FinishAdd, Leave, Waiting
<1>3. ASSUME NEW t \in Threads, NEW h \in Handles, FinishClone(t, h)
      PROVE  Abstract!Next
  <2>1. UNCHANGED <<waits, done>>
    BY <1>3 DEF WInv, TypeOK, FinishClone, Leave, Waiting, waits
  <2>2. alive # {} /\ h \notin alive /\ alive' = alive \cup {h}
    BY <1>3 DEF WInv, UsingInv, FinishClone
  <2>3. Abstract!Clone(h)
    BY <2>1, <2>2 DEF Abstract!Clone, waits
  <2> QED
    BY <2>3 DEF Abstract!Next
<1>4. ASSUME NEW h \in Handles, Drop(h)
      PROVE  Abstract!Next
  <2>1. UNCHANGED <<waits, done>>
    BY <1>4 DEF Drop, Waiting, waits
  <2>2. \A t \in Threads : waits[t] # h
    BY <1>4, WaitGroupAssumption DEF Drop, waits
  <2>3. Abstract!Drop(h)
    BY <1>4, <2>1, <2>2 DEF Drop, Abstract!Drop, waits
  <2> QED
    BY <2>3 DEF Abstract!Next
<1>5. ASSUME NEW t \in Threads, NEW h \in Handles, PassWait(t, h)
      PROVE  Abstract!Next
  <2>1. UNCHANGED waits /\ waits[t] = None
    BY <1>5 DEF PassWait, Waiting, waits
  <2>2. alive = {h}
    <3>1. current[t] >= total
      BY <1>5 DEF WInv, TypeOK, PassWait
    <3> QED
      BY <1>5, <3>1, LastOneLeft DEF PassWait
  <2>3. Abstract!Pass(t, h)
    BY <1>5, <2>1, <2>2 DEF PassWait, Abstract!Pass, waits
  <2> QED
    BY <2>3 DEF Abstract!Next
<1>6. ASSUME NEW t \in Threads, NEW h \in Handles, BeginWait(t, h)
      PROVE  Abstract!Next
  <2>1. waits' = [waits EXCEPT ![t] = h] /\ waits[t] = None
    BY <1>6 DEF WInv, TypeOK, BeginWait, Enter, Waiting, waits
  <2>2. Abstract!Wait(t, h)
    BY <1>6, <2>1 DEF BeginWait, Enter, Abstract!Wait, waits
  <2> QED
    BY <2>2 DEF Abstract!Next
<1>7. ASSUME NEW t \in Threads, Receive(t) \/ Continue(t)
      PROVE  UNCHANGED Abstract!vars
  BY <1>7 DEF WInv, TypeOK, Receive, Continue, Waiting
<1>8. ASSUME NEW t \in Threads, Return(t)
      PROVE  Abstract!Next
  <2>1. waits' = [waits EXCEPT ![t] = None]
    BY <1>8 DEF WInv, TypeOK, Return, Leave, Waiting, waits
  <2>2. waits[t] # None /\ waits[t] \in alive
    BY <1>8, WaitsOn DEF Return, Waiting
  <2>3. alive = {waits[t]}
    BY <1>8, <2>2, LastOneLeft DEF Return
  <2>4. Abstract!Return(t)
    BY <1>8, <2>1, <2>2, <2>3 DEF Return, Abstract!Return, waits
  <2> QED
    BY <2>4 DEF Abstract!Next
<1>9. ASSUME NEW t \in Threads, Cancel(t)
      PROVE  Abstract!Next
  <2>1. waits' = [waits EXCEPT ![t] = None]
    BY <1>9 DEF WInv, TypeOK, Cancel, Leave, Waiting, waits
  <2>2. waits[t] # None
    BY <1>9, WaitsOn DEF Cancel, Waiting
  <2>3. Abstract!GiveUp(t)
    BY <1>9, <2>1, <2>2 DEF Cancel, Abstract!GiveUp, waits
  <2> QED
    BY <2>3 DEF Abstract!Next
<1> QED
  BY <1>1, <1>2, <1>3, <1>4, <1>5, <1>6, <1>7, <1>8, <1>9 DEF Next, Run, Call

(* wait returns only when the value it was called on is the last one: the  *)
(* WaitGroup implements the latch, for any number of threads that wait,    *)
(* cancel, clone, add and drop.                                            *)
THEOREM Refinement ==
  ASSUME OneAdder = TRUE
  PROVE  Spec => ImplementsLatch
<1>1. Init => Abstract!Init
  BY DEF Init, Abstract!Init, Waiting
<1>2. WInv /\ [Next]_vars => [Abstract!Next]_Abstract!vars
  <2>1. UNCHANGED vars => UNCHANGED Abstract!vars
    BY DEF vars, Abstract!vars, Waiting
  <2> QED
    BY <2>1, StepRefines
<1> QED
  BY <1>1, <1>2, Invariance, PTL DEF Spec, ImplementsLatch, Abstract!Spec

(* A wait that returns is alone.                                           *)
LEMMA ReturnsAlone ==
  ASSUME WInv, Next, NEW t \in Threads, pc[t] = "check", pc'[t] = "user"
  PROVE  alive = {using[t]}
<1>1. Return(t)
  <2>1. \A u \in Threads : Cancel(u) => u # t /\ pc'[t] = pc[t]
    BY DEF WInv, TypeOK, Cancel, Leave
  <2>2. \A u \in Threads : Call(u) => pc'[t] \in {pc[t], "add", "clone", "recv"}
    BY DEF WInv, TypeOK, Call, BeginAdd, PassWait, BeginWait, Enter
  <2>3. \A u \in Threads : Run(u) /\ u # t => pc'[t] = pc[t]
    BY DEF WInv, TypeOK, Run, FinishAdd, FinishClone, Receive, Continue, Return, Leave
  <2>4. Run(t) => Return(t)
    BY DEF WInv, TypeOK, Run, FinishAdd, FinishClone, Receive, Continue
  <2>5. \A h \in Handles : Drop(h) => pc' = pc
    BY DEF Drop
  <2> QED
    BY <2>1, <2>2, <2>3, <2>4, <2>5 DEF Next
<1>2. using[t] \in alive /\ current[t] >= total
  BY <1>1 DEF WInv, UsingInv, Return
<1> QED
  BY <1>2, LastOneLeft

(* "all done" (wg.rs:21, wg.rs:38): what wg_racing_adds refutes holds as   *)
(* soon as no two calls of add overlap, whoever clones, drops and waits.   *)
THEOREM WaitReturnsAlone ==
  ASSUME OneAdder = TRUE
  PROVE  Spec => DoneMeansAlone
<1>1. WInv /\ [Next]_vars =>
        [\A t \in Threads :
           pc[t] = "check" /\ pc'[t] = "user" => alive = {using[t]}]_vars
  BY ReturnsAlone
<1> QED
  BY <1>1, Invariance, PTL DEF Spec, DoneMeansAlone

=============================================================================
