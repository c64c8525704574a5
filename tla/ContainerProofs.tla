--------------------------- MODULE ContainerProofs ---------------------------
(***************************************************************************)
(* Theorems about Container for every set of threads and guards, whatever  *)
(* the contents are and whatever the calls do with them.                   *)
(***************************************************************************)
EXTENDS Container, TLAPS

InRead  == {"look", "found"}
InWrite == {"change", "changing", "leave"}

(* Who holds the lock, and for what.                                       *)
LockInv ==
  /\ reading = {t \in Threads : pc[t] \in InRead}
               \cup {g \in Guards : view[g] # None /\ ~Raw(g)}
  /\ \A t \in Threads : pc[t] \in InWrite => writer = t /\ edit = None
  /\ writer # None => (edit # None /\ ~RawEdit) \/ pc[writer] \in InWrite
  /\ reading # {} => writer = None

(* The call of a thread is one that its label allows; what it will make of *)
(* the contents fits.                                                      *)
CallInv ==
  \A t \in Threads :
    /\ pc[t] \in {"admit", "look", "found"} => call[t] \in (Reads \cup Borrows) \ Unsynced
    /\ pc[t] = "index" => call[t] \in Unsynced
    /\ pc[t] \in {"enter", "change"} => call[t] \in Writes \cup Edits
    /\ pc[t] = "changing" => call[t] \in Writes
    /\ pc[t] \in {"change", "changing"} /\ call[t] \in Writes =>
         \A e \in Effects(call[t], contents) : e.contents \in Contents

(* Nobody has changed what a call works on.                                *)
SeenInv == \A t \in Threads : pc[t] \in {"found", "changing"} => seen[t] = contents

(* References that hold no lock: nobody writes while there are any.        *)
RawInv ==
  \A g \in Guards : Raw(g) =>
    edit = None /\ \A t \in Threads : pc[t] \notin WritePhases

(* Write references that hold no lock: nobody does anything meanwhile.     *)
RawEditInv ==
  RawEdit =>
    /\ writer = None /\ reading = {}
    /\ \A g \in Guards : view[g] = None
    /\ \A t \in Threads : pc[t] = "user"

CInv == TypeOK /\ LockInv /\ CallInv /\ SeenInv /\ RawInv /\ RawEditInv /\ StableViews

(* While somebody may change the contents nobody reads them; while nobody  *)
(* may, nobody does.                                                       *)
LEMMA WriterAlone ==
  ASSUME ContainerAssumption, CInv, NEW t \in Threads,
         pc[t] \in InWrite \/ (edit # None /\ edit.owner = t)
  PROVE  /\ ~RawEdit => writer = t /\ writer # None
         /\ reading = {}
         /\ \A u \in Threads : u # t => pc[u] \notin InWrite
         /\ \A u \in Threads : pc[u] \notin InRead
         /\ \A g \in Guards : view[g] = None
<1>1. ~RawEdit => writer = t /\ writer # None
  BY DEF ContainerAssumption, CInv, TypeOK, LockInv
<1>2. reading = {}
  BY <1>1 DEF CInv, LockInv, RawEditInv
<1>3. \A u \in Threads : u # t => pc[u] \notin InWrite
  BY <1>1 DEF CInv, LockInv, RawEditInv, InWrite
<1>4. \A u \in Threads : pc[u] \notin InRead
  BY <1>2 DEF CInv, LockInv
<1>5. ASSUME NEW g \in Guards, view[g] # None
      PROVE  FALSE
  <2>1. Raw(g)
    BY <1>2, <1>5 DEF CInv, LockInv
  <2>2. pc[t] \notin InWrite /\ edit = None
    BY <1>5, <2>1 DEF CInv, RawInv, InWrite, WritePhases
  <2> QED
    BY <2>2
<1> QED
  BY <1>1, <1>2, <1>3, <1>4, <1>5

LEMMA ReaderSafe ==
  ASSUME ContainerAssumption, CInv, reading # {}
  PROVE  /\ edit = None
         /\ \A u \in Threads : pc[u] \notin InWrite
<1>1. writer = None
  BY DEF CInv, LockInv
<1>2. edit = None
  BY <1>1 DEF ContainerAssumption, CInv, TypeOK, Edit, RawEditInv
<1>3. \A u \in Threads : pc[u] \notin InWrite
  BY <1>1 DEF ContainerAssumption, CInv, LockInv
<1> QED
  BY <1>2, <1>3

-----------------------------------------------------------------------------
(* The invariant.                                                          *)

LEMMA Step ==
  ASSUME ContainerAssumption, Contract = TRUE, CInv, Next
  PROVE  CInv'
<1> USE DEF ContainerAssumption
<1>1. ASSUME NEW t \in Threads, NEW c \in Calls, Call(t, c)
      PROVE  CInv'
  <2>1. TypeOK'
    BY <1>1
       DEF CInv, TypeOK, Labels, Calls, View, Edit, Raw, RawEdit, Call, Goto, lockVars
  <2>2. LockInv'
    BY <1>1
       DEF CInv, TypeOK, LockInv, InRead, InWrite, Edit, Raw, RawEdit, Call, Goto,
           lockVars
  <2>3. CallInv'
    BY <1>1 DEF CInv, TypeOK, CallInv, Calls, InWrite, Call, Goto, lockVars
  <2>4. SeenInv'
    BY <1>1 DEF CInv, TypeOK, SeenInv, InRead, InWrite, Call, Goto, lockVars
  <2>5. RawInv'
    <3> SUFFICES ASSUME NEW g \in Guards, Raw(g)
                 PROVE  edit = None /\ \A u \in Threads : pc'[u] \notin WritePhases
      BY <1>1 DEF RawInv, Raw, Call
    <3>1. edit = None /\ \A u \in Threads : pc[u] \notin WritePhases
      BY DEF CInv, RawInv
    <3>2. c \notin Writes \cup Edits
      BY <1>1 DEF Call
    <3>3. c \in Unsynced \/ c \in Reads \cup Borrows
      BY <3>2 DEF Calls
    <3>4. pc' = [pc EXCEPT ![t] = IF c \in Unsynced THEN "index" ELSE "admit"]
      BY <1>1, <3>3 DEF Call, Goto
    <3> QED
      BY <3>1, <3>4 DEF WritePhases, CInv, TypeOK
  <2>6. RawEditInv'
    BY <1>1
       DEF CInv, TypeOK, LockInv, RawEditInv, RawEdit, InWrite, InRead, Edit, Raw,
           Call, Goto, lockVars
  <2>7. StableViews'
    BY <1>1
       DEF CInv, TypeOK, StableViews, Intact, InWrite, WritePhases, View, Call, Goto,
           lockVars
  <2> QED
    BY <2>1, <2>2, <2>3, <2>4, <2>5, <2>6, <2>7 DEF CInv
<1>2. ASSUME NEW t \in Threads, Admit(t)
      PROVE  CInv'
  <2>1. TypeOK'
    BY <1>2
       DEF CInv, TypeOK, Labels, Calls, View, Edit, Raw, RawEdit, Admit, Goto,
           Lock!StartRead, lockVars
  <2>2. LockInv'
    BY <1>2
       DEF CInv, TypeOK, LockInv, InRead, InWrite, Edit, Raw, RawEdit, Admit, Goto,
           Lock!StartRead, lockVars
  <2>3. CallInv'
    BY <1>2
       DEF CInv, TypeOK, CallInv, Calls, InWrite, Admit, Goto, Lock!StartRead,
           lockVars
  <2>4. SeenInv'
    BY <1>2
       DEF CInv, TypeOK, SeenInv, InRead, InWrite, Admit, Goto, Lock!StartRead,
           lockVars
  <2>5. RawInv'
    BY <1>2
       DEF CInv, TypeOK, RawInv, WritePhases, InWrite, Raw, Admit, Goto,
           Lock!StartRead, lockVars
  <2>6. RawEditInv'
    BY <1>2
       DEF CInv, TypeOK, LockInv, RawEditInv, RawEdit, InWrite, InRead, Edit, Raw,
           Admit, Goto, Lock!StartRead, lockVars
  <2>7. StableViews'
    BY <1>2
       DEF CInv, TypeOK, StableViews, Intact, InWrite, WritePhases, View, Admit, Goto,
           Lock!StartRead, lockVars
  <2> QED
    BY <2>1, <2>2, <2>3, <2>4, <2>5, <2>6, <2>7 DEF CInv
<1>3. ASSUME NEW t \in Threads, LookUp(t)
      PROVE  CInv'
  <2>0. reading # {} /\ edit = None /\ \A u \in Threads : pc[u] \notin InWrite
    BY <1>3, ReaderSafe DEF CInv, LockInv, InRead, LookUp, Goto
  <2>1. TypeOK'
    BY <1>3, <2>0
       DEF CInv, TypeOK, Labels, Calls, View, Edit, Raw, RawEdit, LookUp, Goto,
           lockVars
  <2>2. LockInv'
    BY <1>3, <2>0
       DEF CInv, TypeOK, LockInv, InRead, InWrite, Edit, Raw, RawEdit, LookUp, Goto,
           lockVars
  <2>3. CallInv'
    BY <1>3, <2>0 DEF CInv, TypeOK, CallInv, Calls, InWrite, LookUp, Goto, lockVars
  <2>4. SeenInv'
    BY <1>3, <2>0 DEF CInv, TypeOK, SeenInv, InRead, InWrite, LookUp, Goto, lockVars
  <2>5. RawInv'
    BY <1>3, <2>0
       DEF CInv, TypeOK, RawInv, WritePhases, InWrite, Raw, LookUp, Goto, lockVars
  <2>6. RawEditInv'
    BY <1>3, <2>0
       DEF CInv, TypeOK, LockInv, RawEditInv, RawEdit, InWrite, InRead, Edit, Raw,
           LookUp, Goto, lockVars
  <2>7. StableViews'
    BY <1>3, <2>0
       DEF CInv, TypeOK, StableViews, Intact, InWrite, WritePhases, View, LookUp,
           Goto, lockVars
  <2> QED
    BY <2>1, <2>2, <2>3, <2>4, <2>5, <2>6, <2>7 DEF CInv
<1>4. ASSUME NEW t \in Threads, EndRead(t)
      PROVE  CInv'
  <2>0. reading # {} /\ edit = None /\ \A u \in Threads : pc[u] \notin InWrite
    BY <1>4, ReaderSafe DEF CInv, LockInv, InRead, EndRead, Goto
  <2>1. TypeOK'
    BY <1>4, <2>0
       DEF CInv, TypeOK, Labels, Calls, View, Edit, Raw, RawEdit, EndRead, Goto, Tell,
           Forget, Lock!EndRead, lockVars
  <2>2. LockInv'
    BY <1>4, <2>0
       DEF CInv, TypeOK, LockInv, InRead, InWrite, Edit, Raw, RawEdit, EndRead, Goto,
           Tell, Forget, Lock!EndRead, lockVars
  <2>3. CallInv'
    BY <1>4, <2>0
       DEF CInv, TypeOK, CallInv, Calls, InWrite, EndRead, Goto, Tell, Forget,
           Lock!EndRead, lockVars
  <2>4. SeenInv'
    BY <1>4, <2>0
       DEF CInv, TypeOK, SeenInv, InRead, InWrite, EndRead, Goto, Tell, Forget,
           Lock!EndRead, lockVars
  <2>5. RawInv'
    BY <1>4, <2>0
       DEF CInv, TypeOK, RawInv, WritePhases, InWrite, Raw, EndRead, Goto, Tell,
           Forget, Lock!EndRead, lockVars
  <2>6. RawEditInv'
    BY <1>4, <2>0
       DEF CInv, TypeOK, LockInv, RawEditInv, RawEdit, InWrite, InRead, Edit, Raw,
           EndRead, Goto, Tell, Forget, Lock!EndRead, lockVars
  <2>7. StableViews'
    BY <1>4, <2>0
       DEF CInv, TypeOK, StableViews, Intact, InWrite, WritePhases, View, EndRead,
           Goto, Tell, Forget, Lock!EndRead, lockVars
  <2> QED
    BY <2>1, <2>2, <2>3, <2>4, <2>5, <2>6, <2>7 DEF CInv
<1>5. ASSUME NEW t \in Threads, NEW g \in Guards, KeepGuard(t, g)
      PROVE  CInv'
  <2>0. reading # {} /\ edit = None /\ \A u \in Threads : pc[u] \notin InWrite
    BY <1>5, ReaderSafe DEF CInv, LockInv, InRead, KeepGuard, Goto
  <2> DEFINE new == [owner |-> t, place |-> Place(call[t], seen[t]),
                     seen |-> seen[t], hold |-> Holder(call[t])]
  <2>8. seen[t] = contents /\ contents \in Contents
    BY <1>5 DEF CInv, TypeOK, SeenInv, KeepGuard, Goto
  <2>9. Place(call[t], seen[t]) \in Places /\ Holder(call[t]) \in Holds \ {"nothing"}
    BY <1>5, <2>8 DEF KeepGuard, Holder, Holds
  <2>10. new \in View /\ new # None
    <3>1. new \in View
      BY <2>8, <2>9 DEF View
    <3> QED
      BY <3>1
  <2>11. /\ view' = [view EXCEPT ![g] = new] /\ view[g] = None
         /\ new.hold # "nothing" /\ new.seen = contents
    BY <1>5, <2>8, <2>9 DEF KeepGuard
  <2> HIDE DEF new
  <2>12. \A h \in Guards : Raw(h)' <=> Raw(h)
    BY <2>10, <2>11 DEF Raw, CInv, TypeOK
  <2>1. TypeOK'
    BY <1>5, <2>0, <2>10, <2>11, <2>12
       DEF CInv, TypeOK, Labels, Calls, View, Edit, Raw, RawEdit, KeepGuard, Goto,
           Tell, Forget, Lock!HandOver, lockVars
  <2>2. LockInv'
    <3>1. reading' = {u \in Threads : pc'[u] \in InRead}
                     \cup {h \in Guards : view'[h] # None /\ ~Raw(h)'}
      <4>1. reading' = (reading \ {t}) \cup {g} /\ pc' = [pc EXCEPT ![t] = "user"]
        BY <1>5 DEF KeepGuard, Goto, Lock!HandOver
      <4>2. {u \in Threads : pc'[u] \in InRead} = {u \in Threads : pc[u] \in InRead} \ {t}
        BY <4>1 DEF CInv, TypeOK, InRead
      <4>3. \A h \in Guards : view'[h] # None /\ ~Raw(h)'
                 <=> (view[h] # None /\ ~Raw(h)) \/ h = g
        BY <2>10, <2>11, <2>12 DEF CInv, TypeOK, Raw
      <4>4. {h \in Guards : view'[h] # None /\ ~Raw(h)'}
              = {h \in Guards : view[h] # None /\ ~Raw(h)} \cup {g}
        BY <4>3
      <4> QED
        BY <1>5, <4>1, <4>2, <4>4 DEF CInv, LockInv
    <3>2. UNCHANGED <<writer, edit>> /\ pc' = [pc EXCEPT ![t] = "user"]
      BY <1>5 DEF KeepGuard, Goto, Lock!HandOver
    <3> QED
      BY <2>0, <3>1, <3>2 DEF CInv, TypeOK, LockInv, InWrite, InRead, RawEdit
  <2>3. CallInv'
    BY <1>5, <2>0
       DEF CInv, TypeOK, CallInv, Calls, InWrite, KeepGuard, Goto, Tell, Forget,
           Lock!HandOver, lockVars
  <2>4. SeenInv'
    BY <1>5, <2>0
       DEF CInv, TypeOK, SeenInv, InRead, InWrite, KeepGuard, Goto, Tell, Forget,
           Lock!HandOver, lockVars
  <2>5. RawInv'
    BY <1>5, <2>0, <2>10, <2>11, <2>12
       DEF CInv, TypeOK, RawInv, WritePhases, InWrite, Raw, KeepGuard, Goto, Tell,
           Forget, Lock!HandOver, lockVars
  <2>6. RawEditInv'
    BY <1>5, <2>0, <2>10, <2>11, <2>12
       DEF CInv, TypeOK, LockInv, RawEditInv, RawEdit, InWrite, InRead, Edit, Raw,
           KeepGuard, Goto, Tell, Forget, Lock!HandOver, lockVars
  <2>7. StableViews'
    BY <1>5, <2>0, <2>10, <2>11, <2>12
       DEF CInv, TypeOK, StableViews, Intact, InWrite, WritePhases, View, KeepGuard,
           Goto, Tell, Forget, Lock!HandOver, lockVars
  <2> QED
    BY <2>1, <2>2, <2>3, <2>4, <2>5, <2>6, <2>7 DEF CInv
<1>6. ASSUME NEW t \in Threads, NEW g \in Guards, Deref(t, g)
      PROVE  CInv'
  <2>1. TypeOK'
    BY <1>6 DEF CInv, TypeOK, Labels, Calls, View, Edit, Raw, RawEdit, Deref, lockVars
  <2>2. LockInv'
    BY <1>6
       DEF CInv, TypeOK, LockInv, InRead, InWrite, Edit, Raw, RawEdit, Deref, lockVars
  <2>3. CallInv'
    BY <1>6 DEF CInv, TypeOK, CallInv, Calls, InWrite, Deref, lockVars
  <2>4. SeenInv'
    BY <1>6 DEF CInv, TypeOK, SeenInv, InRead, InWrite, Deref, lockVars
  <2>5. RawInv'
    BY <1>6 DEF CInv, TypeOK, RawInv, WritePhases, InWrite, Raw, Deref, lockVars
  <2>6. RawEditInv'
    BY <1>6
       DEF CInv, TypeOK, LockInv, RawEditInv, RawEdit, InWrite, InRead, Edit, Raw,
           Deref, lockVars
  <2>7. StableViews'
    BY <1>6
       DEF CInv, TypeOK, StableViews, Intact, InWrite, WritePhases, View, Deref,
           lockVars
  <2> QED
    BY <2>1, <2>2, <2>3, <2>4, <2>5, <2>6, <2>7 DEF CInv
<1>7. ASSUME NEW t \in Threads, NEW g \in Guards, KeepItems(t, g)
      PROVE  CInv'
  <2> DEFINE new == [view[g] EXCEPT !.hold = "nothing"]
  <2>8. view[g] \in View /\ view[g] # None /\ view' = [view EXCEPT ![g] = new]
    BY <1>7 DEF CInv, TypeOK, KeepItems
  <2>9. new \in View /\ new # None /\ new.hold = "nothing" /\ new.seen = view[g].seen
    <3>1. new \in View /\ new.hold = "nothing" /\ new.seen = view[g].seen
      BY <2>8 DEF View, Holds
    <3> QED
      BY <3>1
  <2> HIDE DEF new
  <2>10. \A h \in Guards : Raw(h)' <=> Raw(h) \/ h = g
    BY <2>8, <2>9 DEF Raw, CInv, TypeOK
  <2>11. edit = None /\ \A u \in Threads : pc[u] \notin WritePhases
    BY <1>7 DEF KeepItems, Permitted
  <2>1. TypeOK'
    BY <1>7, <2>8, <2>9, <2>10, <2>11
       DEF CInv, TypeOK, Labels, Calls, View, Edit, Raw, RawEdit, KeepItems,
           Permitted, Lock!EndRead, lockVars
  <2>2. LockInv'
    BY <1>7, <2>8, <2>9, <2>10, <2>11
       DEF CInv, TypeOK, LockInv, InRead, InWrite, Edit, Raw, RawEdit, KeepItems,
           Permitted, Lock!EndRead, lockVars
  <2>3. CallInv'
    BY <1>7
       DEF CInv, TypeOK, CallInv, Calls, InWrite, KeepItems, Permitted, Lock!EndRead,
           lockVars
  <2>4. SeenInv'
    BY <1>7
       DEF CInv, TypeOK, SeenInv, InRead, InWrite, KeepItems, Permitted, Lock!EndRead,
           lockVars
  <2>5. RawInv'
    BY <1>7, <2>8, <2>9, <2>10, <2>11
       DEF CInv, TypeOK, RawInv, WritePhases, InWrite, Raw, KeepItems, Permitted,
           Lock!EndRead, lockVars
  <2>6. RawEditInv'
    BY <1>7, <2>8, <2>9, <2>10, <2>11
       DEF CInv, TypeOK, LockInv, RawEditInv, RawEdit, InWrite, InRead, Edit, Raw,
           KeepItems, Permitted, Lock!EndRead, lockVars
  <2>7. StableViews'
    BY <1>7, <2>8, <2>9, <2>10, <2>11
       DEF CInv, TypeOK, StableViews, Intact, InWrite, WritePhases, View, KeepItems,
           Permitted, Lock!EndRead, lockVars
  <2> QED
    BY <2>1, <2>2, <2>3, <2>4, <2>5, <2>6, <2>7 DEF CInv
<1>8. ASSUME NEW t \in Threads, NEW g \in Guards, DropGuard(t, g)
      PROVE  CInv'
  <2>8. view' = [view EXCEPT ![g] = None] /\ view[g] # None
    BY <1>8 DEF DropGuard
  <2>9. \A h \in Guards : Raw(h)' <=> Raw(h) /\ h # g
    BY <2>8 DEF Raw, CInv, TypeOK
  <2>1. TypeOK'
    BY <1>8, <2>8, <2>9
       DEF CInv, TypeOK, Labels, Calls, View, Edit, Raw, RawEdit, DropGuard,
           Lock!EndRead, lockVars
  <2>2. LockInv'
    BY <1>8, <2>8, <2>9
       DEF CInv, TypeOK, LockInv, InRead, InWrite, Edit, Raw, RawEdit, DropGuard,
           Lock!EndRead, lockVars
  <2>3. CallInv'
    BY <1>8 DEF CInv, TypeOK, CallInv, Calls, InWrite, DropGuard, Lock!EndRead, lockVars
  <2>4. SeenInv'
    BY <1>8
       DEF CInv, TypeOK, SeenInv, InRead, InWrite, DropGuard, Lock!EndRead, lockVars
  <2>5. RawInv'
    BY <1>8, <2>8, <2>9
       DEF CInv, TypeOK, RawInv, WritePhases, InWrite, Raw, DropGuard, Lock!EndRead,
           lockVars
  <2>6. RawEditInv'
    BY <1>8, <2>8, <2>9
       DEF CInv, TypeOK, LockInv, RawEditInv, RawEdit, InWrite, InRead, Edit, Raw,
           DropGuard, Lock!EndRead, lockVars
  <2>7. StableViews'
    BY <1>8, <2>8, <2>9
       DEF CInv, TypeOK, StableViews, Intact, InWrite, WritePhases, View, DropGuard,
           Lock!EndRead, lockVars
  <2> QED
    BY <2>1, <2>2, <2>3, <2>4, <2>5, <2>6, <2>7 DEF CInv
<1>9. ASSUME NEW t \in Threads, NEW g \in Guards, Index(t, g)
      PROVE  CInv'
  <2> DEFINE new == [owner |-> t, place |-> Place(call[t], contents),
                     seen |-> contents, hold |-> "nothing"]
  <2>8. Place(call[t], contents) \in Places
    BY <1>9 DEF CInv, TypeOK, CallInv, Index, MayIndex, Goto
  <2>9. new \in View /\ new # None
    <3>1. contents \in Contents
      BY DEF CInv, TypeOK
    <3>2. new \in View
      BY <2>8, <3>1 DEF View, Holds
    <3> QED
      BY <3>2
  <2>10. /\ view' = [view EXCEPT ![g] = new] /\ view[g] = None
         /\ new.hold = "nothing" /\ new.seen = contents
    BY <1>9 DEF Index
  <2> HIDE DEF new
  <2>11. \A h \in Guards : Raw(h)' <=> Raw(h) \/ h = g
    BY <2>9, <2>10 DEF Raw, CInv, TypeOK
  <2>1. TypeOK'
    BY <1>9, <2>9, <2>10, <2>11
       DEF CInv, TypeOK, Labels, Calls, View, Edit, Raw, RawEdit, Index, MayIndex,
           Permitted, Goto, Tell, lockVars
  <2>2. LockInv'
    BY <1>9, <2>9, <2>10, <2>11
       DEF CInv, TypeOK, LockInv, InRead, InWrite, Edit, Raw, RawEdit, Index,
           MayIndex, Permitted, Goto, Tell, lockVars
  <2>3. CallInv'
    BY <1>9
       DEF CInv, TypeOK, CallInv, Calls, InWrite, Index, MayIndex, Permitted, Goto,
           Tell, lockVars
  <2>4. SeenInv'
    BY <1>9
       DEF CInv, TypeOK, SeenInv, InRead, InWrite, Index, MayIndex, Permitted, Goto,
           Tell, lockVars
  <2>5. RawInv'
    BY <1>9, <2>9, <2>10, <2>11
       DEF CInv, TypeOK, RawInv, WritePhases, InWrite, Raw, Index, MayIndex,
           Permitted, Goto, Tell, lockVars
  <2>6. RawEditInv'
    BY <1>9, <2>9, <2>10, <2>11
       DEF CInv, TypeOK, LockInv, RawEditInv, RawEdit, InWrite, InRead, Edit, Raw,
           Index, MayIndex, Permitted, Goto, Tell, lockVars
  <2>7. StableViews'
    BY <1>9, <2>9, <2>10, <2>11
       DEF CInv, TypeOK, StableViews, Intact, InWrite, WritePhases, View, Index,
           MayIndex, Permitted, Goto, Tell, lockVars
  <2> QED
    BY <2>1, <2>2, <2>3, <2>4, <2>5, <2>6, <2>7 DEF CInv
<1>10. ASSUME NEW t \in Threads, IndexNothing(t)
      PROVE  CInv'
  <2>1. TypeOK'
    BY <1>10
       DEF CInv, TypeOK, Labels, Calls, View, Edit, Raw, RawEdit, IndexNothing,
           MayIndex, Permitted, Goto, Tell, lockVars
  <2>2. LockInv'
    BY <1>10
       DEF CInv, TypeOK, LockInv, InRead, InWrite, Edit, Raw, RawEdit, IndexNothing,
           MayIndex, Permitted, Goto, Tell, lockVars
  <2>3. CallInv'
    BY <1>10
       DEF CInv, TypeOK, CallInv, Calls, InWrite, IndexNothing, MayIndex, Permitted,
           Goto, Tell, lockVars
  <2>4. SeenInv'
    BY <1>10
       DEF CInv, TypeOK, SeenInv, InRead, InWrite, IndexNothing, MayIndex, Permitted,
           Goto, Tell, lockVars
  <2>5. RawInv'
    BY <1>10
       DEF CInv, TypeOK, RawInv, WritePhases, InWrite, Raw, IndexNothing, MayIndex,
           Permitted, Goto, Tell, lockVars
  <2>6. RawEditInv'
    BY <1>10
       DEF CInv, TypeOK, LockInv, RawEditInv, RawEdit, InWrite, InRead, Edit, Raw,
           IndexNothing, MayIndex, Permitted, Goto, Tell, lockVars
  <2>7. StableViews'
    BY <1>10
       DEF CInv, TypeOK, StableViews, Intact, InWrite, WritePhases, View,
           IndexNothing, MayIndex, Permitted, Goto, Tell, lockVars
  <2> QED
    BY <2>1, <2>2, <2>3, <2>4, <2>5, <2>6, <2>7 DEF CInv
<1>11. ASSUME NEW t \in Threads, Enter(t)
      PROVE  CInv'
  <2>8. edit = None /\ writer = None /\ reading = {}
    BY <1>11 DEF CInv, TypeOK, RawEditInv, RawEdit, Edit, Enter, Goto, Lock!StartWrite
  <2>1. TypeOK'
    BY <1>11
       DEF CInv, TypeOK, Labels, Calls, View, Edit, Raw, RawEdit, Enter, Goto,
           Lock!StartWrite, lockVars
  <2>2. LockInv'
    BY <1>11, <2>8
       DEF CInv, TypeOK, LockInv, InRead, InWrite, Edit, Raw, RawEdit, Enter, Goto,
           Lock!StartWrite, lockVars
  <2>3. CallInv'
    BY <1>11
       DEF CInv, TypeOK, CallInv, Calls, InWrite, Enter, Goto, Lock!StartWrite,
           lockVars
  <2>4. SeenInv'
    BY <1>11
       DEF CInv, TypeOK, SeenInv, InRead, InWrite, Enter, Goto, Lock!StartWrite,
           lockVars
  <2>5. RawInv'
    BY <1>11
       DEF CInv, TypeOK, RawInv, WritePhases, InWrite, Raw, Enter, Goto,
           Lock!StartWrite, lockVars
  <2>6. RawEditInv'
    BY <1>11
       DEF CInv, TypeOK, LockInv, RawEditInv, RawEdit, InWrite, InRead, Edit, Raw,
           Enter, Goto, Lock!StartWrite, lockVars
  <2>7. StableViews'
    BY <1>11
       DEF CInv, TypeOK, StableViews, Intact, InWrite, WritePhases, View, Enter, Goto,
           Lock!StartWrite, lockVars
  <2> QED
    BY <2>1, <2>2, <2>3, <2>4, <2>5, <2>6, <2>7 DEF CInv
<1>12. ASSUME NEW t \in Threads, StartChange(t)
      PROVE  CInv'
  <2>0. /\ writer = t /\ writer # None /\ reading = {}
        /\ edit = None /\ ~RawEdit
        /\ \A u \in Threads : u # t => pc[u] \notin InWrite
        /\ \A u \in Threads : pc[u] \notin InRead
        /\ \A g \in Guards : view[g] = None
    BY <1>12, WriterAlone DEF StartChange, Goto, InWrite, CInv, LockInv, RawEdit
  <2>1. TypeOK'
    BY <1>12, <2>0
       DEF CInv, TypeOK, Labels, Calls, View, Edit, Raw, RawEdit, StartChange, Goto,
           lockVars
  <2>2. LockInv'
    BY <1>12, <2>0
       DEF CInv, TypeOK, LockInv, InRead, InWrite, Edit, Raw, RawEdit, StartChange,
           Goto, lockVars
  <2>3. CallInv'
    BY <1>12, <2>0
       DEF CInv, TypeOK, CallInv, Calls, InWrite, StartChange, Goto, lockVars
  <2>4. SeenInv'
    BY <1>12, <2>0
       DEF CInv, TypeOK, SeenInv, InRead, InWrite, StartChange, Goto, lockVars
  <2>5. RawInv'
    BY <1>12, <2>0
       DEF CInv, TypeOK, RawInv, WritePhases, InWrite, Raw, StartChange, Goto,
           lockVars
  <2>6. RawEditInv'
    BY <1>12, <2>0
       DEF CInv, TypeOK, LockInv, RawEditInv, RawEdit, InWrite, InRead, Edit, Raw,
           StartChange, Goto, lockVars
  <2>7. StableViews'
    BY <1>12, <2>0
       DEF CInv, TypeOK, StableViews, Intact, InWrite, WritePhases, View, StartChange,
           Goto, lockVars
  <2> QED
    BY <2>1, <2>2, <2>3, <2>4, <2>5, <2>6, <2>7 DEF CInv
<1>13. ASSUME NEW t \in Threads, FinishChange(t)
      PROVE  CInv'
  <2>0. /\ writer = t /\ writer # None /\ reading = {}
        /\ edit = None /\ ~RawEdit
        /\ \A u \in Threads : u # t => pc[u] \notin InWrite
        /\ \A u \in Threads : pc[u] \notin InRead
        /\ \A g \in Guards : view[g] = None
    BY <1>13, WriterAlone DEF FinishChange, Goto, InWrite, CInv, LockInv, RawEdit
  <2>1. TypeOK'
    BY <1>13, <2>0
       DEF CInv, TypeOK, CallInv, SeenInv, LockInv, Labels, Calls, InWrite, Raw,
           RawEdit, FinishChange, Goto, Tell, Forget, lockVars
  <2>2. LockInv'
    BY <1>13, <2>0
       DEF CInv, TypeOK, LockInv, InRead, InWrite, Edit, Raw, RawEdit, FinishChange,
           Goto, Tell, Forget, lockVars
  <2>3. CallInv'
    BY <1>13, <2>0
       DEF CInv, TypeOK, CallInv, Calls, InWrite, FinishChange, Goto, Tell, Forget,
           lockVars
  <2>4. SeenInv'
    BY <1>13, <2>0
       DEF CInv, TypeOK, SeenInv, InRead, InWrite, FinishChange, Goto, Tell, Forget,
           lockVars
  <2>5. RawInv'
    BY <1>13, <2>0
       DEF CInv, TypeOK, RawInv, WritePhases, InWrite, Raw, FinishChange, Goto, Tell,
           Forget, lockVars
  <2>6. RawEditInv'
    BY <1>13, <2>0
       DEF CInv, TypeOK, LockInv, RawEditInv, RawEdit, InWrite, InRead, Edit, Raw,
           FinishChange, Goto, Tell, Forget, lockVars
  <2>7. StableViews'
    BY <1>13, <2>0
       DEF CInv, TypeOK, StableViews, Intact, InWrite, WritePhases, View,
           FinishChange, Goto, Tell, Forget, lockVars
  <2> QED
    BY <2>1, <2>2, <2>3, <2>4, <2>5, <2>6, <2>7 DEF CInv
<1>14. ASSUME NEW t \in Threads, EditNothing(t)
      PROVE  CInv'
  <2>0. /\ writer = t /\ writer # None /\ reading = {}
        /\ edit = None /\ ~RawEdit
        /\ \A u \in Threads : u # t => pc[u] \notin InWrite
        /\ \A u \in Threads : pc[u] \notin InRead
        /\ \A g \in Guards : view[g] = None
    BY <1>14, WriterAlone DEF EditNothing, Goto, InWrite, CInv, LockInv, RawEdit
  <2>1. TypeOK'
    BY <1>14, <2>0
       DEF CInv, TypeOK, Labels, Calls, View, Edit, Raw, RawEdit, EditNothing, Goto,
           Tell, lockVars
  <2>2. LockInv'
    BY <1>14, <2>0
       DEF CInv, TypeOK, LockInv, InRead, InWrite, Edit, Raw, RawEdit, EditNothing,
           Goto, Tell, lockVars
  <2>3. CallInv'
    BY <1>14, <2>0
       DEF CInv, TypeOK, CallInv, Calls, InWrite, EditNothing, Goto, Tell, lockVars
  <2>4. SeenInv'
    BY <1>14, <2>0
       DEF CInv, TypeOK, SeenInv, InRead, InWrite, EditNothing, Goto, Tell, lockVars
  <2>5. RawInv'
    BY <1>14, <2>0
       DEF CInv, TypeOK, RawInv, WritePhases, InWrite, Raw, EditNothing, Goto, Tell,
           lockVars
  <2>6. RawEditInv'
    BY <1>14, <2>0
       DEF CInv, TypeOK, LockInv, RawEditInv, RawEdit, InWrite, InRead, Edit, Raw,
           EditNothing, Goto, Tell, lockVars
  <2>7. StableViews'
    BY <1>14, <2>0
       DEF CInv, TypeOK, StableViews, Intact, InWrite, WritePhases, View, EditNothing,
           Goto, Tell, lockVars
  <2> QED
    BY <2>1, <2>2, <2>3, <2>4, <2>5, <2>6, <2>7 DEF CInv
<1>15. ASSUME NEW t \in Threads, Leave(t)
      PROVE  CInv'
  <2>0. /\ writer = t /\ writer # None /\ reading = {}
        /\ edit = None /\ ~RawEdit
        /\ \A u \in Threads : u # t => pc[u] \notin InWrite
        /\ \A u \in Threads : pc[u] \notin InRead
        /\ \A g \in Guards : view[g] = None
    BY <1>15, WriterAlone DEF Leave, Goto, InWrite, CInv, LockInv, RawEdit
  <2>1. TypeOK'
    BY <1>15, <2>0
       DEF CInv, TypeOK, LockInv, Labels, Calls, InWrite, Raw, RawEdit, Leave, Goto,
           Lock!EndWrite, lockVars
  <2>2. LockInv'
    BY <1>15, <2>0
       DEF CInv, TypeOK, LockInv, InRead, InWrite, Edit, Raw, RawEdit, Leave, Goto,
           Lock!EndWrite, lockVars
  <2>3. CallInv'
    BY <1>15, <2>0
       DEF CInv, TypeOK, CallInv, Calls, InWrite, Leave, Goto, Lock!EndWrite, lockVars
  <2>4. SeenInv'
    BY <1>15, <2>0
       DEF CInv, TypeOK, SeenInv, InRead, InWrite, Leave, Goto, Lock!EndWrite,
           lockVars
  <2>5. RawInv'
    BY <1>15, <2>0
       DEF CInv, TypeOK, RawInv, WritePhases, InWrite, Raw, Leave, Goto,
           Lock!EndWrite, lockVars
  <2>6. RawEditInv'
    BY <1>15, <2>0
       DEF CInv, TypeOK, LockInv, RawEditInv, RawEdit, InWrite, InRead, Edit, Raw,
           Leave, Goto, Lock!EndWrite, lockVars
  <2>7. StableViews'
    BY <1>15, <2>0
       DEF CInv, TypeOK, StableViews, Intact, InWrite, WritePhases, View, Leave, Goto,
           Lock!EndWrite, lockVars
  <2> QED
    BY <2>1, <2>2, <2>3, <2>4, <2>5, <2>6, <2>7 DEF CInv
<1>16. ASSUME NEW t \in Threads, KeepWriteGuard(t)
      PROVE  CInv'
  <2>0. /\ writer = t /\ writer # None /\ reading = {}
        /\ edit = None /\ ~RawEdit
        /\ \A u \in Threads : u # t => pc[u] \notin InWrite
        /\ \A u \in Threads : pc[u] \notin InRead
        /\ \A g \in Guards : view[g] = None
    BY <1>16, WriterAlone DEF KeepWriteGuard, Goto, InWrite, CInv, LockInv, RawEdit
  <2>1. TypeOK'
    BY <1>16, <2>0
       DEF CInv, TypeOK, Labels, Calls, View, Edit, Raw, RawEdit, KeepWriteGuard,
           Goto, Tell, Holder, Holds, lockVars
  <2>2. LockInv'
    BY <1>16, <2>0
       DEF CInv, TypeOK, LockInv, InRead, InWrite, Edit, Raw, RawEdit, KeepWriteGuard,
           Goto, Tell, Holder, Holds, lockVars
  <2>3. CallInv'
    BY <1>16, <2>0
       DEF CInv, TypeOK, CallInv, Calls, InWrite, KeepWriteGuard, Goto, Tell, Holder,
           Holds, lockVars
  <2>4. SeenInv'
    BY <1>16, <2>0
       DEF CInv, TypeOK, SeenInv, InRead, InWrite, KeepWriteGuard, Goto, Tell, Holder,
           Holds, lockVars
  <2>5. RawInv'
    BY <1>16, <2>0
       DEF CInv, TypeOK, RawInv, WritePhases, InWrite, Raw, KeepWriteGuard, Goto,
           Tell, Holder, Holds, lockVars
  <2>6. RawEditInv'
    BY <1>16, <2>0
       DEF CInv, TypeOK, LockInv, RawEditInv, RawEdit, InWrite, InRead, Edit, Raw,
           KeepWriteGuard, Goto, Tell, Holder, Holds, lockVars
  <2>7. StableViews'
    BY <1>16, <2>0
       DEF CInv, TypeOK, StableViews, Intact, InWrite, WritePhases, View,
           KeepWriteGuard, Goto, Tell, Holder, Holds, lockVars
  <2> QED
    BY <2>1, <2>2, <2>3, <2>4, <2>5, <2>6, <2>7 DEF CInv
<1>17. ASSUME NEW t \in Threads, Assign(t)
      PROVE  CInv'
  <2>0. /\ ~RawEdit => writer = t /\ writer # None
        /\ reading = {}
        /\ \A u \in Threads : pc[u] \notin InWrite
        /\ \A u \in Threads : pc[u] \notin InRead
        /\ \A g \in Guards : view[g] = None
    BY <1>17, WriterAlone DEF Assign, InWrite
  <2>1. TypeOK'
    BY <1>17, <2>0
       DEF CInv, TypeOK, Labels, Calls, View, Edit, Raw, RawEdit, Assign, lockVars
  <2>2. LockInv'
    BY <1>17, <2>0
       DEF CInv, TypeOK, LockInv, InRead, InWrite, Edit, Raw, RawEdit, Assign,
           lockVars
  <2>3. CallInv'
    BY <1>17, <2>0 DEF CInv, TypeOK, CallInv, Calls, InWrite, Assign, lockVars
  <2>4. SeenInv'
    BY <1>17, <2>0 DEF CInv, TypeOK, SeenInv, InRead, InWrite, Assign, lockVars
  <2>5. RawInv'
    BY <1>17, <2>0 DEF CInv, TypeOK, RawInv, WritePhases, InWrite, Raw, Assign, lockVars
  <2>6. RawEditInv'
    BY <1>17, <2>0
       DEF CInv, TypeOK, LockInv, RawEditInv, RawEdit, InWrite, InRead, Edit, Raw,
           Assign, lockVars
  <2>7. StableViews'
    BY <1>17, <2>0
       DEF CInv, TypeOK, StableViews, Intact, InWrite, WritePhases, View, Assign,
           lockVars
  <2> QED
    BY <2>1, <2>2, <2>3, <2>4, <2>5, <2>6, <2>7 DEF CInv
<1>18. ASSUME NEW t \in Threads, KeepItemsMut(t)
      PROVE  CInv'
  <2>0. /\ ~RawEdit => writer = t /\ writer # None
        /\ reading = {}
        /\ \A u \in Threads : pc[u] \notin InWrite
        /\ \A u \in Threads : pc[u] \notin InRead
        /\ \A g \in Guards : view[g] = None
    BY <1>18, WriterAlone DEF KeepItemsMut, InWrite
  <2>1. TypeOK'
    BY <1>18, <2>0
       DEF CInv, TypeOK, Labels, Calls, View, Edit, Raw, RawEdit, KeepItemsMut, Holds,
           Lock!EndWrite, lockVars
  <2>2. LockInv'
    BY <1>18, <2>0
       DEF CInv, TypeOK, LockInv, InRead, InWrite, Edit, Raw, RawEdit, KeepItemsMut,
           Holds, Lock!EndWrite, lockVars
  <2>3. CallInv'
    BY <1>18, <2>0
       DEF CInv, TypeOK, CallInv, Calls, InWrite, KeepItemsMut, Holds, Lock!EndWrite,
           lockVars
  <2>4. SeenInv'
    BY <1>18, <2>0
       DEF CInv, TypeOK, SeenInv, InRead, InWrite, KeepItemsMut, Holds, Lock!EndWrite,
           lockVars
  <2>5. RawInv'
    BY <1>18, <2>0
       DEF CInv, TypeOK, RawInv, WritePhases, InWrite, Raw, KeepItemsMut, Holds,
           Lock!EndWrite, lockVars
  <2>6. RawEditInv'
    BY <1>18, <2>0
       DEF CInv, TypeOK, LockInv, RawEditInv, RawEdit, InWrite, InRead, Edit, Raw,
           KeepItemsMut, Holds, Lock!EndWrite, lockVars
  <2>7. StableViews'
    BY <1>18, <2>0
       DEF CInv, TypeOK, StableViews, Intact, InWrite, WritePhases, View,
           KeepItemsMut, Holds, Lock!EndWrite, lockVars
  <2> QED
    BY <2>1, <2>2, <2>3, <2>4, <2>5, <2>6, <2>7 DEF CInv
<1>19. ASSUME NEW t \in Threads, DropWriteGuard(t)
      PROVE  CInv'
  <2>0. /\ ~RawEdit => writer = t /\ writer # None
        /\ reading = {}
        /\ \A u \in Threads : pc[u] \notin InWrite
        /\ \A u \in Threads : pc[u] \notin InRead
        /\ \A g \in Guards : view[g] = None
    BY <1>19, WriterAlone DEF DropWriteGuard, InWrite
  <2>1. TypeOK'
    BY <1>19, <2>0
       DEF CInv, TypeOK, Labels, Calls, View, Edit, Raw, RawEdit, DropWriteGuard,
           Lock!EndWrite, lockVars
  <2>2. LockInv'
    BY <1>19, <2>0
       DEF CInv, TypeOK, LockInv, InRead, InWrite, Edit, Raw, RawEdit, DropWriteGuard,
           Lock!EndWrite, lockVars
  <2>3. CallInv'
    BY <1>19, <2>0
       DEF CInv, TypeOK, CallInv, Calls, InWrite, DropWriteGuard, Lock!EndWrite,
           lockVars
  <2>4. SeenInv'
    BY <1>19, <2>0
       DEF CInv, TypeOK, SeenInv, InRead, InWrite, DropWriteGuard, Lock!EndWrite,
           lockVars
  <2>5. RawInv'
    BY <1>19, <2>0
       DEF CInv, TypeOK, RawInv, WritePhases, InWrite, Raw, DropWriteGuard,
           Lock!EndWrite, lockVars
  <2>6. RawEditInv'
    BY <1>19, <2>0
       DEF CInv, TypeOK, LockInv, RawEditInv, RawEdit, InWrite, InRead, Edit, Raw,
           DropWriteGuard, Lock!EndWrite, lockVars
  <2>7. StableViews'
    BY <1>19, <2>0
       DEF CInv, TypeOK, StableViews, Intact, InWrite, WritePhases, View,
           DropWriteGuard, Lock!EndWrite, lockVars
  <2> QED
    BY <2>1, <2>2, <2>3, <2>4, <2>5, <2>6, <2>7 DEF CInv
<1> QED
  BY <1>1, <1>2, <1>3, <1>4, <1>5, <1>6, <1>7, <1>8, <1>9, <1>10, <1>11, <1>12, <1>13,
     <1>14, <1>15, <1>16, <1>17, <1>18, <1>19
     DEF Next

(* For every container, as long as the contract of the unsynchronised      *)
(* accesses (vec.rs:360-364) is kept, the invariant holds in every state.  *)
THEOREM Invariance ==
  ASSUME ContainerAssumption, Contract = TRUE
  PROVE  Spec => []CInv
<1>1. Init => CInv
  <2> SUFFICES ASSUME Init
               PROVE  CInv
    OBVIOUS
  <2> USE DEF ContainerAssumption, Init, Lock!Init
  <2>1. TypeOK
    BY DEF TypeOK, Labels, Calls
  <2>2. LockInv
    BY DEF LockInv, InRead, InWrite
  <2>3. CallInv /\ SeenInv
    BY DEF CallInv, SeenInv
  <2>4. RawInv /\ StableViews
    BY DEF RawInv, StableViews, Raw
  <2>5. RawEditInv
    BY DEF RawEditInv, RawEdit
  <2> QED
    BY <2>1, <2>2, <2>3, <2>4, <2>5 DEF CInv
<1>2. CInv /\ [Next]_vars => CInv'
  <2>1. ASSUME CInv, UNCHANGED vars
        PROVE  CInv'
    BY <2>1 DEF CInv, TypeOK, LockInv, CallInv, SeenInv, RawInv, RawEditInv,
       StableViews, Intact, Raw, RawEdit, View, Edit, Calls, vars
  <2> QED
    BY <2>1, Step
<1> QED
  BY <1>1, <1>2, PTL DEF Spec

(* Every variable has its type, and whoever owns a write guard holds the   *)
(* WriteLock (mod.rs:188-195).                                             *)
THEOREM TypeCorrect ==
  ASSUME ContainerAssumption, Contract = TRUE
  PROVE  Spec => []TypeOK
<1>1. CInv => TypeOK
  BY DEF CInv
<1> QED
  BY <1>1, Invariance, PTL

(* What a guard or an Index reference gives access to stays as it was when *)
(* it was given out, and is not being changed (mod.rs:79-85).              *)
THEOREM ViewsStable ==
  ASSUME ContainerAssumption, Contract = TRUE
  PROVE  Spec => []StableViews
<1>1. CInv => StableViews
  BY DEF CInv
<1> QED
  BY <1>1, Invariance, PTL

(* README:41-42: a reader never reads while a writer mutates (what         *)
(* vec_items refutes), as long as callers keep to what vec.rs:360-364 asks *)
(* of them.                                                                *)
THEOREM ReadersApart ==
  ASSUME ContainerAssumption, Contract = TRUE
  PROVE  Spec => []ReaderNeverMeetsWriter
<1>1. CInv => ReaderNeverMeetsWriter
  <2> SUFFICES ASSUME CInv, NEW u \in Threads, pc[u] = "changing"
               PROVE  edit = None /\ \A g \in Guards : view[g] = None
    BY DEF ReaderNeverMeetsWriter
  <2>1. pc[u] \in InWrite
    BY DEF InWrite
  <2> QED
    BY <2>1, WriterAlone DEF CInv, LockInv
<1> QED
  BY <1>1, Invariance, PTL

-----------------------------------------------------------------------------
(* The container implements the atomic one.                                *)

(* A view that is there gives access to a place.                           *)
LEMMA OpenedNone ==
  ASSUME ContainerAssumption, CInv, NEW g \in Guards
  PROVE  Opened[g] = None <=> view[g] = None
BY DEF ContainerAssumption, CInv, TypeOK, View, Opened

(* Every step is a step of the atomic container, or none.                  *)
LEMMA StepImplements ==
  ASSUME ContainerAssumption, Contract = TRUE, CInv, Next
  PROVE  [Abstract!Next]_(Abstract!vars)
<1> USE DEF ContainerAssumption
<1> DEFINE Goal == [Abstract!Next]_(Abstract!vars)
<1>1. ASSUME NEW t \in Threads, NEW c \in Calls, Call(t, c)
      PROVE  Goal
  <2>1. Abstract!Begin(t, c)
    BY <1>1, WriterAlone, ReaderSafe, OpenedNone
       DEF CInv, TypeOK, LockInv, CallInv, SeenInv, RawInv, StableViews, InRead,
           InWrite, Opened, Call, Goto, Edited, RawEdit, Abstract!Begin
  <2> QED
    BY <2>1 DEF Abstract!Next, Calls
<1>2. ASSUME NEW t \in Threads, Admit(t)
      PROVE  Goal
  BY <1>2 DEF Admit, Opened, Edited, Abstract!vars
<1>3. ASSUME NEW t \in Threads, LookUp(t)
      PROVE  Goal
  BY <1>3 DEF LookUp, Opened, Edited, Abstract!vars
<1>4. ASSUME NEW t \in Threads, EndRead(t)
      PROVE  Goal
  <2>2. t \in reading /\ seen[t] = contents /\ call[t] \in Reads \cup Borrows
    BY <1>4 DEF CInv, LockInv, CallInv, SeenInv, InRead, EndRead, Goto
  <2>3. Intact(seen[t]) /\ edit = None
    BY <2>2, ReaderSafe DEF Intact, InWrite
  <2>4. UNCHANGED <<contents, view, edit>> /\ Tell(t, Answer(call[t], contents))
    BY <1>4, <2>2, <2>3 DEF EndRead
  <2>5. Opened' = Opened
    BY <2>4 DEF Opened
  <2>6. call[t] \in Borrows => Place(call[t], contents) = None
    BY <1>4, <2>2 DEF EndRead
  <2>1. Abstract!Read(t)
    BY <2>2, <2>3, <2>4, <2>5, <2>6
       DEF Tell, Opened, Edited, Abstract!Read, Abstract!Tell, Abstract!Unedited
  <2> QED
    BY <2>1 DEF Abstract!Next, Calls
<1>5. ASSUME NEW t \in Threads, NEW g \in Guards, KeepGuard(t, g)
      PROVE  Goal
  <2>2. t \in reading /\ seen[t] = contents /\ contents \in Contents
    BY <1>5 DEF CInv, TypeOK, LockInv, SeenInv, InRead, KeepGuard, Goto
  <2>3. Intact(seen[t]) /\ edit = None
    BY <2>2, ReaderSafe DEF Intact, InWrite
  <2>4. /\ UNCHANGED <<contents, edit>> /\ Tell(t, None)
        /\ call[t] \in Borrows /\ view[g] = None
        /\ Place(call[t], contents) # None
        /\ view' = [view EXCEPT ![g] = [owner |-> t, place |-> Place(call[t], contents),
                                         seen |-> contents, hold |-> Holder(call[t])]]
    BY <1>5, <2>2, <2>3 DEF KeepGuard
  <2>5. view'[g].place = Place(call[t], contents) /\ view'[g] # None
    <3>1. [owner |-> t, place |-> Place(call[t], contents),
           seen |-> contents, hold |-> Holder(call[t])] \in View
      BY <2>2, <2>4 DEF View, Holds, Holder
    <3> QED
      BY <2>4, <3>1 DEF CInv, TypeOK
  <2>6. Opened' = [Opened EXCEPT ![g] = Place(call[t], contents)]
    BY <2>4, <2>5 DEF Opened, CInv, TypeOK
  <2>7. Opened[g] = None
    BY <2>4 DEF Opened
  <2>1. Abstract!Open(t, g)
    BY <2>3, <2>4, <2>6, <2>7
       DEF Tell, Opened, Edited, Abstract!Open, Abstract!Tell, Abstract!Unedited
  <2> QED
    BY <2>1 DEF Abstract!Next, Calls
<1>6. ASSUME NEW t \in Threads, NEW g \in Guards, Deref(t, g)
      PROVE  Goal
  <2>2. view[g] # None /\ call[t] = None /\ Opened[g] = view[g].place
    BY <1>6 DEF Deref, CInv, TypeOK, Opened
  <2>3. Opened[g] # None
    BY <2>2, OpenedNone
  <2>4. Intact(view[g].seen)
    BY <2>2 DEF CInv, StableViews
  <2>5. /\ told' = <<t, Look(Opened[g], contents)>>
        /\ UNCHANGED <<contents, call, view, edit>>
    BY <1>6, <2>2, <2>4 DEF Deref
  <2>6. Opened' = Opened
    BY <2>5 DEF Opened
  <2>1. Abstract!Peek(t, g)
    BY <2>2, <2>3, <2>5, <2>6 DEF Opened, Edited, Abstract!Peek
  <2> QED
    BY <2>1 DEF Abstract!Next, Calls
<1>7. ASSUME NEW t \in Threads, NEW g \in Guards, KeepItems(t, g)
      PROVE  Goal
  <2>1. view[g] \in View /\ view[g] # None /\ view' = [view EXCEPT ![g].hold = "nothing"]
    BY <1>7 DEF CInv, TypeOK, KeepItems
  <2>2. view'[g].place = view[g].place /\ view'[g] \in View
    BY <2>1 DEF View, Holds, CInv, TypeOK
  <2>3. Opened' = Opened
    BY <2>1, <2>2 DEF Opened, CInv, TypeOK
  <2> QED
    BY <1>7, <2>3 DEF KeepItems, Edited, Abstract!vars
<1>8. ASSUME NEW t \in Threads, NEW g \in Guards, DropGuard(t, g)
      PROVE  Goal
  <2>2. view[g] # None /\ view' = [view EXCEPT ![g] = None]
    BY <1>8 DEF DropGuard
  <2>3. Opened[g] # None
    BY <2>2, OpenedNone
  <2>4. Opened' = [Opened EXCEPT ![g] = None]
    BY <2>2 DEF Opened, CInv, TypeOK
  <2>1. Abstract!Close(g)
    BY <1>8, <2>3, <2>4 DEF DropGuard, Opened, Edited, Abstract!Close
  <2> QED
    BY <2>1 DEF Abstract!Next, Calls
<1>9. ASSUME NEW t \in Threads, NEW g \in Guards, Index(t, g)
      PROVE  Goal
  <2>2. call[t] \in Borrows /\ contents \in Contents /\ edit = None
    BY <1>9 DEF CInv, TypeOK, CallInv, Index, MayIndex, Permitted, Goto
  <2>3. /\ UNCHANGED <<contents, edit>> /\ Tell(t, None)
        /\ view[g] = None
        /\ Place(call[t], contents) # None
        /\ view' = [view EXCEPT ![g] = [owner |-> t, place |-> Place(call[t], contents),
                                         seen |-> contents, hold |-> "nothing"]]
    BY <1>9 DEF Index
  <2>4. view'[g].place = Place(call[t], contents) /\ view'[g] # None
    <3>1. [owner |-> t, place |-> Place(call[t], contents),
           seen |-> contents, hold |-> "nothing"] \in View
      BY <2>2, <2>3 DEF View, Holds, Holder
    <3>2. view'[g] = [owner |-> t, place |-> Place(call[t], contents),
                      seen |-> contents, hold |-> "nothing"]
      BY <2>3 DEF CInv, TypeOK
    <3>3. view'[g] # None
      BY <3>1, <3>2
    <3> QED
      BY <3>2, <3>3
  <2>5. Opened' = [Opened EXCEPT ![g] = Place(call[t], contents)]
    BY <2>3, <2>4 DEF Opened, CInv, TypeOK
  <2>6. Opened[g] = None
    BY <2>3 DEF Opened
  <2>1. Abstract!Open(t, g)
    BY <2>2, <2>3, <2>5, <2>6
       DEF Tell, Opened, Edited, Abstract!Open, Abstract!Tell, Abstract!Unedited
  <2> QED
    BY <2>1 DEF Abstract!Next, Calls
<1>10. ASSUME NEW t \in Threads, IndexNothing(t)
      PROVE  Goal
  <2>1. Abstract!Read(t)
    BY <1>10, WriterAlone, ReaderSafe, OpenedNone
       DEF CInv, TypeOK, LockInv, CallInv, SeenInv, RawInv, StableViews, InRead,
           InWrite, Opened, IndexNothing, MayIndex, Permitted, Goto, Tell,
           Abstract!Tell, Abstract!Unedited, Edited, RawEdit, Abstract!Read
  <2> QED
    BY <2>1 DEF Abstract!Next, Calls
<1>11. ASSUME NEW t \in Threads, Enter(t)
      PROVE  Goal
  BY <1>11 DEF Enter, Opened, Edited, Abstract!vars
<1>12. ASSUME NEW t \in Threads, StartChange(t)
      PROVE  Goal
  BY <1>12 DEF StartChange, Opened, Edited, Abstract!vars
<1>13. ASSUME NEW t \in Threads, FinishChange(t)
      PROVE  Goal
  <2>2. pc[t] \in InWrite /\ call[t] \in Writes /\ seen[t] = contents
    BY <1>13 DEF CInv, CallInv, SeenInv, InWrite, FinishChange, Goto
  <2>3. edit = None /\ \A g \in Guards : view[g] = None
    BY <2>2, WriterAlone DEF CInv, LockInv
  <2>4. Opened' = Opened /\ \A g \in Guards : Opened[g] = None
    BY <1>13, <2>3 DEF Opened, FinishChange
  <2>1. Abstract!Write(t)
    BY <1>13, <2>2, <2>3, <2>4
       DEF FinishChange, Tell, Opened, Edited, Abstract!Write, Abstract!Tell,
           Abstract!Unedited, Abstract!Unread
  <2> QED
    BY <2>1 DEF Abstract!Next, Calls
<1>14. ASSUME NEW t \in Threads, EditNothing(t)
      PROVE  Goal
  <2>1. Abstract!Read(t)
    BY <1>14, WriterAlone, ReaderSafe, OpenedNone
       DEF CInv, TypeOK, LockInv, CallInv, SeenInv, RawInv, StableViews, InRead,
           InWrite, Opened, EditNothing, Goto, Tell, Abstract!Tell, Abstract!Unedited,
           Edited, RawEdit, Abstract!Read
  <2> QED
    BY <2>1 DEF Abstract!Next, Calls
<1>15. ASSUME NEW t \in Threads, Leave(t)
      PROVE  Goal
  BY <1>15 DEF Leave, Opened, Edited, Abstract!vars
<1>16. ASSUME NEW t \in Threads, KeepWriteGuard(t)
      PROVE  Goal
  <2>2. /\ edit = None /\ Edited = None
        /\ Opened' = Opened /\ \A g \in Guards : Opened[g] = None
    BY <1>16, WriterAlone
       DEF KeepWriteGuard, Goto, CInv, LockInv, InWrite, Opened, Edited

  <2>3. Edited' = [owner |-> t, place |-> Place(call[t], contents)]
    BY <1>16
       DEF KeepWriteGuard, Edited, CInv, TypeOK, Edit, Holds, Holder,
           ContainerAssumption
  <2>1. Abstract!OpenEdit(t)
    BY <1>16, <2>2, <2>3
       DEF KeepWriteGuard, Tell, Abstract!OpenEdit, Abstract!Tell,
           Abstract!Unedited, Abstract!Unread
  <2> QED
    BY <2>1 DEF Abstract!Next, Calls
<1>17. ASSUME NEW t \in Threads, Assign(t)
      PROVE  Goal
  <2>2. edit # None /\ Edited = [owner |-> t, place |-> edit.place] /\ Edited # None
    <3>1. edit # None /\ edit.owner = t /\ edit \in Edit
      BY <1>17 DEF Assign, CInv, TypeOK
    <3>2. Edited # None
      BY <3>1 DEF Edited, Edit
    <3> QED
      BY <3>1, <3>2 DEF Edited
  <2>3. UNCHANGED <<Opened, Edited>>
    BY <1>17 DEF Assign, Opened, Edited
  <2>1. Abstract!Store(t)
    BY <1>17, <2>2, <2>3 DEF Assign, Abstract!Store
  <2> QED
    BY <2>1 DEF Abstract!Next, Calls
<1>18. ASSUME NEW t \in Threads, KeepItemsMut(t)
       PROVE  Goal
  <2>1. edit \in Edit /\ edit # None /\ edit' = [edit EXCEPT !.hold = "nothing"]
    BY <1>18 DEF KeepItemsMut, CInv, TypeOK
  <2>2. edit' # None /\ edit'.owner = edit.owner /\ edit'.place = edit.place
    <3>1. edit' \in Edit /\ edit'.owner = edit.owner /\ edit'.place = edit.place
      BY <2>1 DEF Edit, Holds
    <3> QED
      BY <3>1
  <2>3. UNCHANGED <<Opened, Edited>>
    BY <1>18, <2>1, <2>2 DEF KeepItemsMut, Opened, Edited
  <2> QED
    BY <1>18, <2>3 DEF KeepItemsMut, Abstract!vars
<1>19. ASSUME NEW t \in Threads, DropWriteGuard(t)
      PROVE  Goal
  <2>2. edit # None /\ Edited = [owner |-> t, place |-> edit.place] /\ Edited # None
    <3>1. edit # None /\ edit.owner = t /\ edit \in Edit
      BY <1>19 DEF DropWriteGuard, CInv, TypeOK
    <3>2. Edited # None
      BY <3>1 DEF Edited, Edit
    <3> QED
      BY <3>1, <3>2 DEF Edited
  <2>3. Edited' = None /\ Opened' = Opened
    BY <1>19 DEF DropWriteGuard, Opened, Edited
  <2>1. Abstract!CloseEdit(t)
    BY <1>19, <2>2, <2>3 DEF DropWriteGuard, Abstract!CloseEdit
  <2> QED
    BY <2>1 DEF Abstract!Next, Calls
<1> QED
  BY <1>1, <1>2, <1>3, <1>4, <1>5, <1>6, <1>7, <1>8, <1>9, <1>10, <1>11, <1>12, <1>13,
     <1>14, <1>15, <1>16, <1>17, <1>18, <1>19
     DEF Next

(* Every call takes effect at once, between its begin and its return, and  *)
(* guards freeze what they give access to: linearizability of the get,     *)
(* insert, remove, ... of map_hash.rs, map_btree.rs, map_index.rs, vec.rs. *)
THEOREM Refinement ==
  ASSUME ContainerAssumption, Contract = TRUE
  PROVE  Spec => ImplementsAtomic
<1>1. Init => Abstract!Init
  BY DEF Init, Abstract!Init, Opened, Edited
<1>2. CInv /\ [Next]_vars => [Abstract!Next]_(Abstract!vars)
  <2>1. ASSUME UNCHANGED vars
        PROVE  UNCHANGED Abstract!vars
    BY <2>1 DEF vars, Abstract!vars, Opened, Edited
  <2> QED
    BY <2>1, StepImplements
<1> QED
  BY <1>1, <1>2, Invariance, PTL DEF Spec, ImplementsAtomic, Abstract!Spec

=============================================================================
