--------------------------- MODULE SyncVecProofs ---------------------------
(***************************************************************************)
(* Theorems about SyncVec for every set of threads, guards and values, and *)
(* for vectors of every length: its calls are what Container asks for, so  *)
(* the theorems of ContainerProofs hold of it; and its write methods       *)
(* conserve the elements.                                                  *)
(***************************************************************************)
EXTENDS SyncVec, FiniteSetTheorems, SequenceTheorems, TLAPS

(* The theorems about Container, with the calls of a vector.               *)
P == INSTANCE ContainerProofs WITH Contents <- Vectors

(* SyncVec and the Container of ContainerProofs start alike ...            *)
LEMMA SameInit == Init <=> P!Init
  BY DEF Init, P!Init, Lock!Init, P!Lock!Init

(* ... and take the same steps.                                            *)
LEMMA SameNext == Next <=> P!Next
<1>0. Calls = P!Calls
  BY DEF Calls, P!Calls
<1>1. ASSUME NEW t \in Threads, NEW c \in Calls
      PROVE  Call(t, c) <=> P!Call(t, c)
  BY DEF Call, P!Call, Goto, P!Goto, Raw, P!Raw, RawEdit, P!RawEdit,
    lockVars, P!lockVars
<1>2. ASSUME NEW t \in Threads
      PROVE  Admit(t) <=> P!Admit(t)
  BY DEF Admit, P!Admit, Goto, P!Goto, Lock!StartRead, P!Lock!StartRead
<1>3. ASSUME NEW t \in Threads
      PROVE  LookUp(t) <=> P!LookUp(t)
  BY DEF LookUp, P!LookUp, Goto, P!Goto, lockVars, P!lockVars
<1>4. ASSUME NEW t \in Threads
      PROVE  EndRead(t) <=> P!EndRead(t)
  BY DEF EndRead, P!EndRead, Goto, P!Goto, Tell, P!Tell, Forget, P!Forget,
    Intact, P!Intact, Lock!EndRead, P!Lock!EndRead
<1>5. ASSUME NEW t \in Threads, NEW g \in Guards
      PROVE  KeepGuard(t, g) <=> P!KeepGuard(t, g)
  BY DEF KeepGuard, P!KeepGuard, Goto, P!Goto, Tell, P!Tell, Forget,
    P!Forget, Intact, P!Intact, Holder, P!Holder, Lock!HandOver,
    P!Lock!HandOver
<1>6. ASSUME NEW t \in Threads, NEW g \in Guards
      PROVE  Deref(t, g) <=> P!Deref(t, g)
  BY DEF Deref, P!Deref, Intact, P!Intact, lockVars, P!lockVars
<1>7. ASSUME NEW t \in Threads, NEW g \in Guards
      PROVE  DropGuard(t, g) <=> P!DropGuard(t, g)
  BY DEF DropGuard, P!DropGuard, Raw, P!Raw, lockVars, P!lockVars,
    Lock!EndRead, P!Lock!EndRead
<1>8. ASSUME NEW t \in Threads, NEW g \in Guards
      PROVE  KeepItems(t, g) <=> P!KeepItems(t, g)
  BY DEF KeepItems, P!KeepItems, Permitted, P!Permitted, WritePhases,
    P!WritePhases, Lock!EndRead, P!Lock!EndRead
<1>9. ASSUME NEW t \in Threads, NEW g \in Guards
      PROVE  Index(t, g) <=> P!Index(t, g)
  BY DEF Index, P!Index, Tell, P!Tell, MayIndex, P!MayIndex, Goto, P!Goto,
    Permitted, P!Permitted, WritePhases, P!WritePhases, lockVars, P!lockVars
<1>10. ASSUME NEW t \in Threads
      PROVE  IndexNothing(t) <=> P!IndexNothing(t)
  BY DEF IndexNothing, P!IndexNothing, Tell, P!Tell, MayIndex, P!MayIndex,
    Goto, P!Goto, Permitted, P!Permitted, WritePhases, P!WritePhases,
    lockVars, P!lockVars
<1>11. ASSUME NEW t \in Threads
      PROVE  Enter(t) <=> P!Enter(t)
  BY DEF Enter, P!Enter, Goto, P!Goto, Lock!StartWrite, P!Lock!StartWrite
<1>12. ASSUME NEW t \in Threads
      PROVE  StartChange(t) <=> P!StartChange(t)
  BY DEF StartChange, P!StartChange, Goto, P!Goto, lockVars, P!lockVars
<1>13. ASSUME NEW t \in Threads
      PROVE  FinishChange(t) <=> P!FinishChange(t)
  BY DEF FinishChange, P!FinishChange, Goto, P!Goto, Tell, P!Tell, Forget,
    P!Forget, lockVars, P!lockVars
<1>14. ASSUME NEW t \in Threads
      PROVE  EditNothing(t) <=> P!EditNothing(t)
  BY DEF EditNothing, P!EditNothing, Goto, P!Goto, Tell, P!Tell, lockVars,
    P!lockVars
<1>15. ASSUME NEW t \in Threads
      PROVE  Leave(t) <=> P!Leave(t)
  BY DEF Leave, P!Leave, Goto, P!Goto, Lock!EndWrite, P!Lock!EndWrite
<1>16. ASSUME NEW t \in Threads
      PROVE  KeepWriteGuard(t) <=> P!KeepWriteGuard(t)
  BY DEF KeepWriteGuard, P!KeepWriteGuard, Goto, P!Goto, Tell, P!Tell,
    Holder, P!Holder, lockVars, P!lockVars
<1>17. ASSUME NEW t \in Threads
      PROVE  KeepItemsMut(t) <=> P!KeepItemsMut(t)
  BY DEF KeepItemsMut, P!KeepItemsMut, Lock!EndWrite, P!Lock!EndWrite
<1>18. ASSUME NEW t \in Threads
      PROVE  Assign(t) <=> P!Assign(t)
  BY DEF Assign, P!Assign, lockVars, P!lockVars
<1>19. ASSUME NEW t \in Threads
      PROVE  DropWriteGuard(t) <=> P!DropWriteGuard(t)
  BY DEF DropWriteGuard, P!DropWriteGuard, RawEdit, P!RawEdit, lockVars,
    P!lockVars, Lock!EndWrite, P!Lock!EndWrite
<1> QED
    BY <1>0, <1>1, <1>2, <1>3, <1>4, <1>5, <1>6, <1>7, <1>8, <1>9, <1>10,
      <1>11, <1>12, <1>13, <1>14, <1>15, <1>16, <1>17, <1>18, <1>19 DEF
      Next, P!Next

(* A method of vec.rs is of one kind: it looks, borrows, writes or edits.  *)
LEMMA Disjoint ==
  /\ Reads \cap Borrows = {}
  /\ (Reads \cup Borrows) \cap (Writes \cup Edits) = {}
  /\ Writes \cap Edits = {}
  /\ Unsynced \subseteq Borrows \ Iterators
<1>1. \A op \in Reads : op[1] \in {"len", "is_empty", "contains"}
  BY DEF Reads
<1>2. \A op \in Borrows : op[1] \in {"get", "iter", "dirty_ref", "index"}
  BY DEF Borrows, Unsynced
<1>3. \A op \in Edits : op[1] \in {"get_mut", "iter_mut"}
  BY DEF Edits
<1>4. \A op \in Writes : op[1] \in {"insert", "set", "push", "pushes", "remove",
                                   "pop", "clear", "shrink_to_fit"}
  BY DEF Writes
<1>5. \A op \in Unsynced : op[1] = "index"
  BY DEF Unsynced
<1>6. \A op \in Iterators : op[1] \in {"iter", "iter_mut"}
  BY DEF Iterators
<1>7. Unsynced \subseteq Borrows
  BY DEF Borrows
<1> QED
  BY <1>1, <1>2, <1>3, <1>4, <1>5, <1>6, <1>7

(* What get, get_mut, iter, iter_mut and dirty_ref (vec.rs) refer to lies  *)
(* within the vector.                                                      *)
LEMMA PlaceFits ==
  ASSUME NEW op \in Borrows \cup Edits, NEW c \in Vectors, Place(op, c) # None
  PROVE  Place(op, c) \in Places
<1>1. PICK n \in 0 .. MaxLen : c \in [1 .. n -> Values]
  BY DEF Vectors
<1>2. DOMAIN c = 1 .. n /\ Len(c) = n /\ n \in Nat /\ n <= MaxLen
  BY <1>1, SyncVecAssumption
<1>3. CASE op[1] \in {"iter", "dirty_ref", "iter_mut"}
  BY <1>2, <1>3, SyncVecAssumption DEF Place, Places
<1>4. CASE op[1] \notin {"iter", "dirty_ref", "iter_mut"}
  <2>1. op[2] \in 0 .. MaxLen
    BY <1>4 DEF Borrows, Edits, Unsynced, Indices
  <2>2. op[2] < Len(c) /\ Place(op, c) = {op[2] + 1}
    BY <1>4 DEF Place
  <2> QED
    BY <1>2, <2>1, <2>2, SyncVecAssumption DEF Places
<1> QED
  BY <1>3, <1>4

(* A vector made by new or sync_vec! is one.                               *)
LEMMA StartFits == Start \subseteq Vectors
<1>1. <<>> \in [1 .. 0 -> Values]
  OBVIOUS
<1>2. ASSUME NEW v \in Values
      PROVE  <<v, v>> \in [1 .. 2 -> Values]
  OBVIOUS
<1>3. 0 \in 0 .. MaxLen /\ 2 \in 0 .. MaxLen
  BY SyncVecAssumption
<1> QED
  BY <1>1, <1>2, <1>3 DEF Start, Vectors

(* The calls of vec.rs are what Container asks for, whatever MaxLen is.    *)
LEMMA Fits == P!ContainerAssumption
<1>1. Threads \cap Guards = {} /\ Contract \in BOOLEAN /\ NoneIsNothing
  BY SyncVecAssumption
<1> QED
  BY <1>1, Disjoint, PlaceFits, StartFits
     DEF P!ContainerAssumption, NoneIsNothing, Calls, View, P!View, Edit, P!Edit,
     Holds, P!Holds

(* So every behaviour of SyncVec is one of that Container.                 *)
LEMMA SameSpec == Spec => P!Spec
<1>1. [Next]_vars => [P!Next]_(P!vars)
  BY SameNext DEF vars, P!vars
<1> QED BY <1>1, SameInit, PTL DEF Spec, P!Spec

-----------------------------------------------------------------------------
(* Every variable of a shared vector has its type, and the owner of a      *)
(* write guard (get_mut, iter_mut) holds the WriteLock (mod.rs:188-195).   *)
THEOREM VecTypes ==
  ASSUME Contract = TRUE
  PROVE  Spec => []TypeOK
<1>1. P!Spec => []P!TypeOK
  BY Fits, P!TypeCorrect
<1>2. TypeOK <=> P!TypeOK
  BY DEF TypeOK, P!TypeOK, Labels, P!Labels, Calls, P!Calls, View, P!View,
     Edit, P!Edit, Holds, P!Holds, RawEdit, P!RawEdit
<1> QED
  BY <1>1, <1>2, SameSpec, PTL

(* What a guard, an iterator or a reference from get_uncheck shows stays   *)
(* as it was when it was given out (mod.rs:79-85), however long the vector. *)
THEOREM VecViewsStable ==
  ASSUME Contract = TRUE
  PROVE  Spec => []StableViews
<1>1. P!Spec => []P!StableViews
  BY Fits, P!ViewsStable
<1>3. StableViews <=> P!StableViews
  BY DEF StableViews, P!StableViews, Intact, P!Intact
<1> QED BY <1>1, <1>3, SameSpec, PTL

(* In a vector nobody who reads, or keeps a reference, meets a writer      *)
(* (vec.rs:93-95), if callers of get_uncheck and Index, and who keeps the  *)
(* items of an iterator, see to it that nobody writes meanwhile.           *)
THEOREM VecReadersApart ==
  ASSUME Contract = TRUE
  PROVE  Spec => []ReaderNeverMeetsWriter
<1>1. P!Spec => []P!ReaderNeverMeetsWriter
  BY Fits, P!ReadersApart
<1>2. ReaderNeverMeetsWriter <=> P!ReaderNeverMeetsWriter
  BY DEF ReaderNeverMeetsWriter, P!ReaderNeverMeetsWriter
<1> QED BY <1>1, <1>2, SameSpec, PTL

(* Every method of vec.rs takes effect at once, between its begin and its  *)
(* return, and guards freeze what they refer to.                           *)
THEOREM VecRefinement ==
  ASSUME Contract = TRUE
  PROVE  Spec => ImplementsAtomic
<1>1. P!Spec => P!ImplementsAtomic
  BY Fits, P!Refinement
<1>2. P!Abstract!Init => Abstract!Init
  BY DEF P!Abstract!Init, Abstract!Init, Opened, P!Opened, Edited, P!Edited
<1>3. P!Abstract!vars = Abstract!vars /\ P!Abstract!vars' = Abstract!vars'
  BY DEF P!Abstract!vars, Abstract!vars, Opened, P!Opened, Edited, P!Edited
<1>4. Abstract!Unedited <=> P!Abstract!Unedited
  BY DEF Abstract!Unedited, P!Abstract!Unedited, Edited, P!Edited
<1>5. Abstract!Unread <=> P!Abstract!Unread
  BY DEF Abstract!Unread, P!Abstract!Unread, Opened, P!Opened
<1>6. P!Abstract!Next => Abstract!Next
  <2>1. ASSUME NEW t \in Threads, NEW c \in Calls
       PROVE  P!Abstract!Begin(t, c) => Abstract!Begin(t, c)
    BY <1>4, <1>5 DEF P!Abstract!Begin, Abstract!Begin, P!Abstract!Tell, Abstract!Tell,
       Opened, P!Opened, Edited, P!Edited
  <2>2. ASSUME NEW t \in Threads
       PROVE  P!Abstract!Read(t) => Abstract!Read(t)
    BY <1>4, <1>5 DEF P!Abstract!Read, Abstract!Read, P!Abstract!Tell, Abstract!Tell,
       Opened, P!Opened, Edited, P!Edited
  <2>3. ASSUME NEW t \in Threads
       PROVE  P!Abstract!Write(t) => Abstract!Write(t)
    BY <1>4, <1>5 DEF P!Abstract!Write, Abstract!Write, P!Abstract!Tell, Abstract!Tell,
       Opened, P!Opened, Edited, P!Edited
  <2>4. ASSUME NEW t \in Threads
       PROVE  P!Abstract!OpenEdit(t) => Abstract!OpenEdit(t)
    BY <1>4, <1>5 DEF P!Abstract!OpenEdit, Abstract!OpenEdit, P!Abstract!Tell, Abstract!Tell,
       Opened, P!Opened, Edited, P!Edited
  <2>5. ASSUME NEW t \in Threads
       PROVE  P!Abstract!Store(t) => Abstract!Store(t)
    BY <1>4, <1>5 DEF P!Abstract!Store, Abstract!Store, P!Abstract!Tell, Abstract!Tell,
       Opened, P!Opened, Edited, P!Edited
  <2>6. ASSUME NEW t \in Threads
       PROVE  P!Abstract!CloseEdit(t) => Abstract!CloseEdit(t)
    BY <1>4, <1>5 DEF P!Abstract!CloseEdit, Abstract!CloseEdit, P!Abstract!Tell, Abstract!Tell,
       Opened, P!Opened, Edited, P!Edited
  <2>7. ASSUME NEW t \in Threads, NEW g \in Guards
       PROVE  P!Abstract!Open(t, g) => Abstract!Open(t, g)
    BY <1>4, <1>5 DEF P!Abstract!Open, Abstract!Open, P!Abstract!Tell, Abstract!Tell,
       Opened, P!Opened, Edited, P!Edited
  <2>8. ASSUME NEW t \in Threads, NEW g \in Guards
       PROVE  P!Abstract!Peek(t, g) => Abstract!Peek(t, g)
    BY <1>4, <1>5 DEF P!Abstract!Peek, Abstract!Peek, P!Abstract!Tell, Abstract!Tell,
       Opened, P!Opened, Edited, P!Edited
  <2>9. ASSUME NEW g \in Guards
       PROVE  P!Abstract!Close(g) => Abstract!Close(g)
    BY <1>4, <1>5 DEF P!Abstract!Close, Abstract!Close, P!Abstract!Tell, Abstract!Tell,
       Opened, P!Opened, Edited, P!Edited
  <2> QED
    BY <2>1, <2>2, <2>3, <2>4, <2>5, <2>6, <2>7, <2>8, <2>9
       DEF P!Abstract!Next, Abstract!Next, Calls
<1>7. [P!Abstract!Next]_(P!Abstract!vars) => [Abstract!Next]_(Abstract!vars)
  BY <1>3, <1>6
<1> QED
  BY <1>1, <1>2, <1>7, SameSpec, PTL
     DEF ImplementsAtomic, P!ImplementsAtomic, Abstract!Spec, P!Abstract!Spec

-----------------------------------------------------------------------------
(* Where v is in s.                                                        *)
Positions(s, v) == {i \in DOMAIN s : s[i] = v}

(* There are finitely many places, so the occurrences are a number.        *)
LEMMA PositionsFinite ==
  ASSUME NEW s \in Seq(Values), NEW v
  PROVE  /\ Positions(s, v) \subseteq 1 .. Len(s)
         /\ IsFiniteSet(Positions(s, v))
         /\ Occurrences(s, v) = Cardinality(Positions(s, v))
         /\ Occurrences(s, v) \in Nat
<1>1. DOMAIN s = 1 .. Len(s) /\ Len(s) \in Nat
  OBVIOUS
<1>2. Positions(s, v) \in SUBSET (1 .. Len(s))
  BY <1>1 DEF Positions
<1>3. IsFiniteSet(Positions(s, v))
  <2>1. 1 \in Int /\ Len(s) \in Int /\ IsFiniteSet(1 .. Len(s))
    BY <1>1, FS_Interval
  <2> QED
    BY <1>2, <2>1, FS_Subset
<1>4. Occurrences(s, v) = Cardinality(Positions(s, v))
  BY DEF Occurrences, Positions
<1> QED
  BY <1>2, <1>3, <1>4, FS_CardinalityType

(* The occurrences in two parts add up.                                    *)
LEMMA OccurrencesConcat ==
  ASSUME NEW s \in Seq(Values), NEW u \in Seq(Values), NEW v
  PROVE  Occurrences(s \o u, v) = Occurrences(s, v) + Occurrences(u, v)
<1> DEFINE A == Positions(s, v)
           B == Positions(u, v)
           C == {Len(s) + i : i \in B}
<1>1. s \o u \in Seq(Values) /\ Len(s) \in Nat /\ Len(u) \in Nat
  OBVIOUS
<1>2. A \subseteq 1 .. Len(s) /\ B \subseteq 1 .. Len(u)
  BY PositionsFinite
<1>3. IsFiniteSet(A) /\ IsFiniteSet(B)
  BY PositionsFinite
<1>4. IsFiniteSet(C) /\ Cardinality(C) = Cardinality(B)
  <2> DEFINE f == [i \in B |-> Len(s) + i]
  <2>1. f \in Bijection(B, C)
    BY <1>1, <1>2 DEF Bijection, Injection, Surjection, IsInjective
  <2>2. ExistsBijection(B, C)
    BY <2>1 DEF ExistsBijection
  <2> QED
    BY <1>3, <2>2, FS_Bijection
<1>5. A \cap C = {}
  BY <1>1, <1>2
<1>6. Positions(s \o u, v) = A \cup C
  <2>1. ASSUME NEW i \in Positions(s \o u, v)
        PROVE  i \in A \cup C
    <3>1. i \in 1 .. (Len(s) + Len(u)) /\ (s \o u)[i] = v
      BY <1>1 DEF Positions
    <3>2. CASE i <= Len(s)
      BY <1>1, <3>1, <3>2 DEF Positions
    <3>3. CASE i > Len(s)
      <4>1. i - Len(s) \in B /\ i = Len(s) + (i - Len(s))
        BY <1>1, <3>1, <3>3 DEF Positions
      <4> QED
        BY <4>1
    <3> QED
      BY <1>1, <3>1, <3>2, <3>3
  <2>2. ASSUME NEW i \in A
        PROVE  i \in Positions(s \o u, v)
    BY <1>1, <1>2, <2>2 DEF Positions
  <2>3. ASSUME NEW i \in B
        PROVE  Len(s) + i \in Positions(s \o u, v)
    BY <1>1, <1>2, <2>3 DEF Positions
  <2> QED
    BY <2>1, <2>2, <2>3
<1>7. Cardinality(A \cup C) = Cardinality(A) + Cardinality(C)
  <2>1. Cardinality(A \cap C) = 0
    BY <1>5, FS_EmptySet
  <2>2. Cardinality(A) \in Nat /\ Cardinality(C) \in Nat
    BY <1>3, <1>4, FS_CardinalityType
  <2>3. Cardinality(A \cup C) = Cardinality(A) + Cardinality(C) - Cardinality(A \cap C)
    BY <1>3, <1>4, FS_Union
  <2> QED
    BY <2>1, <2>2, <2>3
<1> QED
  BY <1>1, <1>4, <1>6, <1>7, PositionsFinite

(* An empty vector holds nothing.                                          *)
LEMMA OccurrencesEmpty ==
  ASSUME NEW v
  PROVE  Occurrences(<<>>, v) = 0
  BY FS_EmptySet DEF Occurrences

(* What s is made of, when it is cut after place i.                        *)
LEMMA Cut ==
  ASSUME NEW s \in Seq(Values), NEW i \in 0 .. Len(s)
  PROVE  /\ SubSeq(s, 1, i) \in Seq(Values)
         /\ SubSeq(s, i + 1, Len(s)) \in Seq(Values)
         /\ s = SubSeq(s, 1, i) \o SubSeq(s, i + 1, Len(s))
<1> DEFINE p == SubSeq(s, 1, i)
           q == SubSeq(s, i + 1, Len(s))
<1>1. Len(s) \in Nat /\ i \in Nat /\ i <= Len(s)
  OBVIOUS
<1>2. p \in Seq(Values) /\ Len(p) = i /\ \A j \in 1 .. i : p[j] = s[j]
  BY <1>1
<1>3. q \in Seq(Values) /\ Len(q) = Len(s) - i
  BY <1>1
<1>4. \A j \in 1 .. Len(s) - i : q[j] = s[i + j]
  BY <1>1
<1> HIDE DEF p, q
<1>5. p \o q \in Seq(Values) /\ Len(p \o q) = Len(s)
  BY <1>1, <1>2, <1>3
<1>6. ASSUME NEW j \in 1 .. Len(s)
      PROVE  s[j] = (p \o q)[j]
  <2>1. CASE j <= i
    BY <1>1, <1>2, <1>3, <2>1
  <2>2. CASE j > i
    <3>1. j - i \in 1 .. Len(s) - i /\ i + (j - i) = j
      BY <1>1, <2>2
    <3>2. (p \o q)[j] = q[j - i]
      BY <1>1, <1>2, <1>3, <2>2
    <3> QED
      BY <1>4, <3>1, <3>2
  <2>3. j <= i \/ j > i
    BY <1>1
  <2> QED
    BY <2>1, <2>2, <2>3
<1>7. s = p \o q
  BY <1>5, <1>6, SeqEqual
<1> QED
  BY <1>2, <1>3, <1>7 DEF p, q

(* The rest of s after place i begins with the element at i + 1.           *)
LEMMA CutHead ==
  ASSUME NEW s \in Seq(Values), NEW i \in Nat, i < Len(s)
  PROVE  /\ s[i + 1] \in Values
         /\ SubSeq(s, i + 2, Len(s)) \in Seq(Values)
         /\ SubSeq(s, i + 1, Len(s)) = <<s[i + 1]>> \o SubSeq(s, i + 2, Len(s))
<1> DEFINE q == SubSeq(s, i + 1, Len(s))
           r == SubSeq(s, i + 2, Len(s))
<1>1. Len(s) \in Nat /\ s[i + 1] \in Values
  OBVIOUS
<1>2. q \in Seq(Values) /\ Len(q) = Len(s) - i
  BY <1>1
<1>3. \A j \in 1 .. Len(s) - i : q[j] = s[i + j]
  BY <1>1
<1>4. r \in Seq(Values) /\ Len(r) = Len(s) - i - 1
  BY <1>1
<1>5. \A j \in 1 .. Len(s) - i - 1 : r[j] = s[i + 1 + j]
  BY <1>1
<1>6. <<s[i + 1]>> \o r \in Seq(Values) /\ Len(<<s[i + 1]>> \o r) = Len(s) - i
  BY <1>1, <1>4
<1>7. \A j \in 1 .. Len(s) - i : q[j] = (<<s[i + 1]>> \o r)[j]
  BY <1>1, <1>3, <1>4, <1>5
<1> HIDE DEF q, r
<1>8. q = <<s[i + 1]>> \o r
  BY <1>2, <1>6, <1>7, SeqEqual
<1> QED
  BY <1>1, <1>4, <1>8 DEF q, r

(* What insert, push, pushes, pop, remove and shrink_to_fit do with the    *)
(* contents (vec.rs): what was there and what they are given is what is    *)
(* there afterwards and what they return.                                  *)
LEMMA EffectsConserve ==
  ASSUME NEW c \in Seq(Values), NEW op \in Writes, op[1] \notin {"set", "clear"},
         NEW e \in Effects(op, c), e.result # Panic, NEW v \in Values
  PROVE  Occurrences(e.contents, v) + Occurrences(Taken(e.result), v)
           = Occurrences(c, v) + Occurrences(Given(op), v)
<1>0. Len(c) \in Nat /\ <<>> \in Seq(Values) /\ Occurrences(<<>>, v) = 0
  BY OccurrencesEmpty
<1> USE DEF Outcome
<1>1. Taken(Nothing) = <<>> /\ \A x \in Values : Taken(Some(x)) = <<x>>
  BY DEF Taken, Nothing, Some
<1>10. \A x \in Values : <<x>> \in Seq(Values) /\ Occurrences(<<x>>, v) \in Nat
  <2>1. ASSUME NEW x \in Values
        PROVE  <<x>> \in Seq(Values)
    OBVIOUS
  <2> QED
    BY <2>1, PositionsFinite
<1>11. \A s, u \in Seq(Values) :
         /\ Occurrences(s \o u, v) = Occurrences(s, v) + Occurrences(u, v)
         /\ Occurrences(s, v) \in Nat
  BY OccurrencesConcat, PositionsFinite
<1>2. CASE op[1] = "insert"
  <2>1. op[2] \in 0 .. MaxLen /\ op[3] \in Values /\ Given(op) = <<op[3]>>
    BY <1>2 DEF Writes, Indices, Given
  <2>2. e \in Insert(c, op[2], op[3])
    BY <1>2 DEF Effects
  <2>3. op[2] <= Len(c) /\ e.result = Nothing /\ e.contents = S!InsertAt(c, op[2] + 1, op[3])
    BY <2>2 DEF Insert
  <2> DEFINE p == SubSeq(c, 1, op[2])
             q == SubSeq(c, op[2] + 1, Len(c))
  <2>4. p \in Seq(Values) /\ q \in Seq(Values) /\ c = p \o q
    <3>1. op[2] \in 0 .. Len(c)
      BY <1>0, <2>1, <2>3, SyncVecAssumption
    <3> QED
      BY <3>1, Cut
  <2>5. (op[2] + 1) - 1 = op[2]
    BY <2>1, SyncVecAssumption
  <2>6. e.contents = p \o <<op[3]>> \o q
    BY <2>3, <2>5 DEF S!InsertAt
  <2>7. Occurrences(e.contents, v)
          = Occurrences(p, v) + Occurrences(<<op[3]>>, v) + Occurrences(q, v)
    <3>1. p \o <<op[3]>> \in Seq(Values)
      BY <2>1, <2>4, <1>10
    <3> HIDE DEF p, q
    <3> QED
      BY <3>1, <2>1, <2>4, <2>6, <1>10, <1>11
  <2> HIDE DEF p, q
  <2>8. Occurrences(c, v) = Occurrences(p, v) + Occurrences(q, v)
    BY <1>11, <2>4
  <2>9. Occurrences(Taken(e.result), v) = 0
    BY <1>0, <1>1, <2>3
  <2> QED
    BY <1>10, <1>11, <2>1, <2>4, <2>7, <2>8, <2>9
<1>3. CASE op[1] = "push"
  <2>1. op[2] \in Values /\ Given(op) = <<op[2]>>
    BY <1>3 DEF Writes, Given
  <2>2. e.result = Nothing /\ e.contents = c \o <<op[2]>>
    BY <1>3, <2>1 DEF Effects, Push
  <2>3. Occurrences(e.contents, v) = Occurrences(c, v) + Occurrences(<<op[2]>>, v)
    BY <1>10, <1>11, <2>1, <2>2
  <2>4. Occurrences(Taken(e.result), v) = 0
    BY <1>0, <1>1, <2>2
  <2> QED
    BY <1>10, <1>11, <2>1, <2>3, <2>4
<1>4. CASE op[1] = "pushes"
  <2>1. op[2] \in Seq(Values) /\ Given(op) = op[2]
    <3>1. PICK a, b \in Values : op = <<"pushes", <<a, b>>>>
      BY <1>4 DEF Writes
    <3>2. <<a, b>> \in Seq(Values)
      OBVIOUS
    <3> QED
      BY <1>4, <3>1, <3>2 DEF Given
  <2>2. e.result = Nothing /\ e.contents = c \o op[2]
    BY <1>4, <2>1 DEF Effects, Pushes
  <2>3. Occurrences(e.contents, v) = Occurrences(c, v) + Occurrences(op[2], v)
    BY <1>11, <2>1, <2>2
  <2>4. Occurrences(Taken(e.result), v) = 0
    BY <1>0, <1>1, <2>2
  <2> QED
    BY <1>11, <2>1, <2>3, <2>4
<1>5. CASE op[1] = "pop"
  <2>1. Given(op) = <<>>
    BY <1>5 DEF Given
  <2>2. e \in Pop(c)
    BY <1>5 DEF Effects
  <2>3. CASE c = <<>>
    BY <1>0, <1>1, <2>1, <2>2, <2>3 DEF Pop
  <2>4. CASE c # <<>>
    <3>1. e.result = Some(c[Len(c)]) /\ e.contents = SubSeq(c, 1, Len(c) - 1)
      BY <2>2, <2>4 DEF Pop, S!Front, S!Last
    <3>2. Len(c) - 1 \in 0 .. Len(c) /\ (Len(c) - 1) + 1 = Len(c)
      BY <1>0, <2>4
    <3>3. SubSeq(c, Len(c), Len(c)) = <<c[Len(c)]>> /\ c[Len(c)] \in Values
      <4>1. Len(c) > 0
        <5>1. Len(c) = 0 => c = <<>>
          BY SeqEqual, <1>0
        <5> QED
          BY <1>0, <2>4, <5>1
      <4>2. c[Len(c)] \in Values
        BY <1>0, <4>1
      <4>3. SubSeq(c, Len(c), Len(c)) \in Seq(Values) /\ Len(SubSeq(c, Len(c), Len(c))) = 1
            /\ SubSeq(c, Len(c), Len(c))[1] = c[Len(c)]
        BY <1>0, <4>1
      <4>4. <<c[Len(c)]>> \in Seq(Values) /\ Len(<<c[Len(c)]>>) = 1
        BY <4>2
      <4>5. \A j \in 1 .. 1 : SubSeq(c, Len(c), Len(c))[j] = <<c[Len(c)]>>[j]
        BY <4>3
      <4> QED
        BY <4>2, <4>3, <4>4, <4>5, SeqEqual
    <3>4. e.contents \in Seq(Values) /\ c = e.contents \o <<c[Len(c)]>>
      BY <3>1, <3>2, <3>3, Cut
    <3>5. Occurrences(c, v) = Occurrences(e.contents, v) + Occurrences(<<c[Len(c)]>>, v)
      BY <1>10, <1>11, <3>3, <3>4
    <3>6. Taken(e.result) = <<c[Len(c)]>>
      BY <1>1, <3>1, <3>3
    <3> QED
      BY <1>0, <1>10, <1>11, <2>1, <3>3, <3>4, <3>5, <3>6
  <2> QED
    BY <2>3, <2>4
<1>6. CASE op[1] = "remove"
  <2>1. Given(op) = <<>> /\ op[2] \in 0 .. MaxLen
    BY <1>6 DEF Given, Writes, Indices
  <2>2. e \in Remove(c, op[2])
    BY <1>6 DEF Effects
  <2>3. CASE ~(Len(c) > op[2])
    BY <1>0, <1>1, <2>1, <2>2, <2>3 DEF Remove
  <2>4. CASE Len(c) > op[2]
    <3> DEFINE p == SubSeq(c, 1, op[2])
               q == SubSeq(c, op[2] + 1, Len(c))
               r == SubSeq(c, op[2] + 2, Len(c))
               x == c[op[2] + 1]
    <3>1. e.result = Some(x) /\ e.contents = S!RemoveAt(c, op[2] + 1)
      BY <2>2, <2>4 DEF Remove
    <3>2. op[2] \in Nat /\ (op[2] + 1) - 1 = op[2] /\ (op[2] + 1) + 1 = op[2] + 2
      BY <2>1, SyncVecAssumption
    <3>3. e.contents = p \o r
      BY <3>1, <3>2 DEF S!RemoveAt
    <3>4. p \in Seq(Values) /\ q \in Seq(Values) /\ c = p \o q
      <4>1. op[2] \in 0 .. Len(c)
        BY <1>0, <2>4, <3>2
      <4> QED
        BY <4>1, Cut
    <3>5. x \in Values /\ r \in Seq(Values) /\ q = <<x>> \o r
      BY <1>0, <2>4, <3>2, CutHead
    <3> HIDE DEF p, q, r, x
    <3>6. Occurrences(c, v) = Occurrences(p, v) + Occurrences(<<x>>, v) + Occurrences(r, v)
      <4>1. Occurrences(c, v) = Occurrences(p, v) + Occurrences(q, v)
        BY <1>11, <3>4
      <4>2. Occurrences(q, v) = Occurrences(<<x>>, v) + Occurrences(r, v)
        BY <1>10, <1>11, <3>5
      <4> QED
        <5>1. /\ Occurrences(p, v) \in Nat /\ Occurrences(r, v) \in Nat
              /\ Occurrences(<<x>>, v) \in Nat
          BY <1>10, <1>11, <3>4, <3>5
        <5> QED
          BY <4>1, <4>2, <5>1
    <3>7. Occurrences(Taken(e.result), v) = Occurrences(<<x>>, v)
      BY <1>1, <3>1, <3>5
    <3>8. Occurrences(e.contents, v) = Occurrences(p, v) + Occurrences(r, v)
      BY <1>11, <3>3, <3>4, <3>5
    <3>9. Occurrences(Given(op), v) = 0
      BY <1>0, <2>1
    <3> QED
      <4>1. /\ Occurrences(p, v) \in Nat /\ Occurrences(r, v) \in Nat
            /\ Occurrences(<<x>>, v) \in Nat
        BY <1>10, <1>11, <3>4, <3>5
      <4> QED
        BY <3>6, <3>7, <3>8, <3>9, <4>1
  <2> QED
    BY <2>3, <2>4
<1>7. CASE op[1] = "shrink_to_fit"
  <2>1. Given(op) = <<>> /\ e.result = Nothing /\ e.contents = c
    BY <1>7 DEF Given, Effects, ShrinkToFit
  <2> QED
    BY <1>0, <1>1, <2>1
<1> QED
  <2>1. op[1] \in {"insert", "push", "pushes", "pop", "remove", "shrink_to_fit"}
    BY DEF Writes
  <2> QED
    BY <1>2, <1>3, <1>4, <1>5, <1>6, <1>7, <2>1

(* What a SyncVec may hold is a sequence of values.                        *)
LEMMA VectorIsSeq == Vectors \subseteq Seq(Values)
<1>1. ASSUME NEW n \in 0 .. MaxLen, NEW c \in [1 .. n -> Values]
      PROVE  c \in Seq(Values)
  BY SyncVecAssumption
<1> QED
  BY <1>1 DEF Vectors

(* Only the end of the change takes a thread out of it.                    *)
LEMMA OnlyFinishChange ==
  ASSUME pc \in [Threads -> Labels], Next, NEW t \in Threads,
         pc[t] = "changing", pc'[t] # "changing"
  PROVE  FinishChange(t)
<1> USE DEF Goto
<1>1. PICK u \in Threads :
        \/ \E c \in Calls : Call(u, c)
        \/ Admit(u) \/ LookUp(u) \/ EndRead(u) \/ IndexNothing(u)
        \/ Enter(u) \/ StartChange(u) \/ FinishChange(u) \/ EditNothing(u) \/ Leave(u)
        \/ KeepWriteGuard(u) \/ Assign(u) \/ KeepItemsMut(u) \/ DropWriteGuard(u)
        \/ \E g \in Guards :
             \/ KeepGuard(u, g) \/ Index(u, g) \/ Deref(u, g)
             \/ KeepItems(u, g) \/ DropGuard(u, g)
  BY DEF Next
<1>2. CASE \E c \in Calls : Call(u, c)
  BY <1>2 DEF Call
<1>3. CASE Admit(u) \/ LookUp(u) \/ EndRead(u) \/ IndexNothing(u)
  BY <1>3 DEF Admit, LookUp, EndRead, IndexNothing, MayIndex
<1>4. CASE Enter(u) \/ StartChange(u) \/ EditNothing(u) \/ Leave(u)
  BY <1>4 DEF Enter, StartChange, EditNothing, Leave
<1>5. CASE FinishChange(u)
  BY <1>5 DEF FinishChange
<1>6. CASE KeepWriteGuard(u) \/ Assign(u) \/ KeepItemsMut(u) \/ DropWriteGuard(u)
  BY <1>6 DEF KeepWriteGuard, Assign, KeepItemsMut, DropWriteGuard
<1>7. CASE \E g \in Guards :
             \/ KeepGuard(u, g) \/ Index(u, g) \/ Deref(u, g)
             \/ KeepItems(u, g) \/ DropGuard(u, g)
  BY <1>7 DEF KeepGuard, Index, MayIndex, Deref, KeepItems, DropGuard
<1> QED
  BY <1>1, <1>2, <1>3, <1>4, <1>5, <1>6, <1>7

-----------------------------------------------------------------------------
(* No element is lost and none is handed out twice by insert, push,        *)
(* pushes, pop and remove (vec.rs), whatever threads call at the same      *)
(* time and however long the vector is.                                    *)
THEOREM VecConserved ==
  ASSUME Contract = TRUE
  PROVE  Spec => Conserved
<1> DEFINE Adds(t, v) ==
      Occurrences(contents', v) + Occurrences(Taken(told'[2]), v)
        = Occurrences(contents, v) + Occurrences(Given(call[t]), v)
<1>1. P!Spec => []P!CInv
  BY Fits, P!Invariance
<1>2. ASSUME P!CInv, Next, NEW t \in Threads,
             pc[t] = "changing", pc'[t] # "changing",
             call[t][1] \notin {"set", "clear"}, told'[2] # Panic, NEW v \in Values
      PROVE  Adds(t, v)
  <2>1. pc \in [Threads -> Labels] /\ contents \in Vectors
    BY <1>2 DEF P!CInv, P!TypeOK, Labels, P!Labels
  <2>2. FinishChange(t)
    BY <1>2, <2>1, OnlyFinishChange
  <2>3. call[t] \in Writes /\ seen[t] = contents
    BY <1>2 DEF P!CInv, P!CallInv, P!SeenInv
  <2>4. PICK e \in Effects(call[t], contents) : contents' = e.contents /\ told' = <<t, e.result>>
    BY <2>2, <2>3 DEF FinishChange, Tell
  <2>5. told'[2] = e.result
    BY <2>4
  <2> QED
    BY <1>2, <2>1, <2>3, <2>4, <2>5, VectorIsSeq, EffectsConserve
<1>3. P!CInv /\ [Next]_vars =>
        [\A t \in Threads :
           /\ pc[t] = "changing" /\ pc'[t] # "changing"
           /\ call[t][1] \notin {"set", "clear"}
           /\ told'[2] # Panic
           => \A v \in Values : Adds(t, v)]_vars
  BY <1>2
<1> QED
  BY <1>1, <1>3, SameSpec, PTL DEF Spec, Conserved


=============================================================================
