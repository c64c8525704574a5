------------------------------ MODULE Container ------------------------------
(***************************************************************************)
(* The methods of SyncHashMap, SyncBtreeMap, SyncIndexMap and SyncVec:     *)
(* each takes the reader-writer lock of begin_read or begin_write, works   *)
(* on the UnsafeCell, and gives the lock back or puts it into a guard.     *)
(* The lock is RwLock, which SlotLock implements; what the work on the     *)
(* cell comes to is a parameter that the modules of the containers give.   *)
(*                                                                         *)
(* The work is not atomic: a read looks at the cell (seen) and returns     *)
(* later, a write starts from what it finds and leaves the cell unusable   *)
(* until it is done.  What a thread gets from a cell that was changed, or  *)
(* is being changed, meanwhile is Garbage (undefined behaviour).           *)
(***************************************************************************)
CONSTANTS
  Threads, Guards, None,
  Garbage,
  Start,          (* what the container may be created with                *)
  Contents,       (* what fits into memory: the bound of a run             *)
  Places,         (* what a guard may give access to                       *)
  Reads, Borrows, Writes, Edits,
  Unsynced,       (* the borrows that take no lock: Index, get_uncheck     *)
  Iterators,      (* the calls whose guard is an iterator                  *)
  Contract,       (* TRUE: callers keep the contract of unlocked access    *)
  Answer(_, _), Effects(_, _), Place(_, _), Look(_, _), Stores(_, _)

(* What holds the lock of a reference to the contents: a guard, an         *)
(* iterator, or nothing.                                                   *)
Holds == {"guard", "iterator", "nothing"}

View == [owner : Threads, place : Places, seen : Contents, hold : Holds]
Edit == [owner : Threads, place : Places, hold : Holds]

(* What a container module has to see to: SyncVecProofs proves it of the   *)
(* calls of SyncVec, SyncMapProofs of those of SyncMap.                    *)
ContainerAssumption ==
  /\ Threads \cap Guards = {}
  /\ \A t \in Threads : t # None
  /\ \A c \in Contents : c # None
  /\ \A p \in Places : p # None
  /\ \A v \in View : v # None
  /\ \A e \in Edit : e # None
  /\ \A e \in [owner : Threads, place : Places] : e # None
  /\ None \notin Reads \cup Borrows \cup Writes \cup Edits
  /\ Reads \cap Borrows = {}
  /\ (Reads \cup Borrows) \cap (Writes \cup Edits) = {}
  /\ Writes \cap Edits = {}
  /\ Unsynced \subseteq Borrows \ Iterators
  /\ Start \subseteq Contents
  /\ \A op \in Borrows \cup Edits, c \in Contents :
       Place(op, c) # None => Place(op, c) \in Places
  /\ Contract \in BOOLEAN

VARIABLES
  contents,       (* what is in the UnsafeCell                             *)
  reading,        (* the lock: the read accesses in progress ...           *)
  writer,         (* ... and the thread that holds the WriteLock           *)
  pc,             (* where each thread is                                  *)
  call,           (* the call it is in, until the call has taken effect    *)
  seen,           (* what the call has looked at, and works on             *)
  told,           (* the last answer and who got it, until the next call   *)
  view,           (* read guards, iterators and references to the contents *)
  edit            (* the WriteGuard or write iterator                      *)

vars == <<contents, reading, writer, pc, call, seen, told, view, edit>>
lockVars == <<reading, writer>>

Lock == INSTANCE RwLock WITH Accesses <- Threads \cup Guards

Calls  == Reads \cup Borrows \cup Writes \cup Edits
Labels == {"user", "admit", "look", "found", "index",
           "enter", "change", "changing", "leave"}

WritePhases == {"enter", "change", "changing", "leave"}

Init ==
  /\ contents \in Start
  /\ Lock!Init
  /\ pc = [t \in Threads |-> "user"]
  /\ call = [t \in Threads |-> None]
  /\ seen = [t \in Threads |-> None]
  /\ told = None
  /\ view = [g \in Guards |-> None]
  /\ edit = None

Goto(t, from, to) ==
  /\ pc[t] = from
  /\ pc' = [pc EXCEPT ![t] = to]

Tell(t, x) ==
  /\ call' = [call EXCEPT ![t] = None]
  /\ told' = <<t, x>>

Forget(t) == seen' = [seen EXCEPT ![t] = None]

(* Is the cell as it was when it was looked at?                            *)
Intact(s) == contents = s /\ \A u \in Threads : pc[u] # "changing"

Holder(op) == IF op \in Iterators THEN "iterator" ELSE "guard"

(* References that outlive their lock, or never had one.                   *)
Raw(g)  == view[g] # None /\ view[g].hold = "nothing"
RawEdit == edit # None /\ edit.hold = "nothing"

(* "The returned reference is only valid while no other thread mutates the *)
(* container" (vec.rs:360): who makes one sees to it that nobody is doing  *)
(* so, and nobody begins to while it lives.                                *)
Permitted == Contract => edit = None /\ \A u \in Threads : pc[u] \notin WritePhases

-----------------------------------------------------------------------------
(* Slips that the properties below would not survive.                      *)

(* A reader that does not wait for the writer.                             *)
AdmitUnlocked(t) ==
  /\ Goto(t, "admit", "look")
  /\ reading' = reading \cup {t}
  /\ UNCHANGED <<contents, writer, call, seen, told, view, edit>>

(* get gives its pin back and returns the reference.                       *)
KeepGuardUnlocked(t, g) ==
  /\ Goto(t, "found", "user")
  /\ call[t] \in Borrows
  /\ Place(call[t], seen[t]) # None
  /\ view[g] = None
  /\ Lock!EndRead(t)
  /\ view' = [view EXCEPT ![g] =
       [owner |-> t, place |-> Place(call[t], seen[t]), seen |-> seen[t],
        hold |-> Holder(call[t])]]
  /\ Tell(t, IF Intact(seen[t]) THEN None ELSE Garbage)
  /\ Forget(t)
  /\ UNCHANGED <<contents, edit>>

(* The WriteLock of a write guard is dropped when get_mut returns.         *)
KeepWriteGuardUnlocked(t) ==
  /\ Goto(t, "change", "user")
  /\ call[t] \in Edits
  /\ Place(call[t], contents) # None
  /\ edit = None
  /\ edit' = [owner |-> t, place |-> Place(call[t], contents),
               hold |-> Holder(call[t])]
  /\ Lock!EndWrite
  /\ Tell(t, None)
  /\ UNCHANGED <<contents, seen, view>>

-----------------------------------------------------------------------------
(* Read methods.                                                           *)

(* A method is called.                                                     *)
Call(t, c) ==
  /\ Contract => ~RawEdit
  /\ c \in Writes \cup Edits /\ Contract => \A g \in Guards : ~Raw(g)
  /\ Goto(t, "user", IF c \in Unsynced THEN "index"
                     ELSE IF c \in Reads \cup Borrows THEN "admit" ELSE "enter")
  /\ call' = [call EXCEPT ![t] = c]
  /\ told' = None
  /\ UNCHANGED <<contents, lockVars, seen, view, edit>>

Admit(t) ==
  /\ Goto(t, "admit", "look")
  /\ Lock!StartRead(t)
  /\ UNCHANGED <<contents, call, seen, told, view, edit>>

LookUp(t) ==
  /\ Goto(t, "look", "found")
  /\ seen' = [seen EXCEPT ![t] = contents]
  /\ UNCHANGED <<contents, lockVars, call, told, view, edit>>

(* len, is_empty, contains, contains_key; get when there is nothing.       *)
EndRead(t) ==
  /\ Goto(t, "found", "user")
  /\ call[t] \in Borrows => Place(call[t], seen[t]) = None
  /\ Lock!EndRead(t)
  /\ Tell(t, IF Intact(seen[t]) THEN Answer(call[t], seen[t]) ELSE Garbage)
  /\ Forget(t)
  /\ UNCHANGED <<contents, view, edit>>

(* get, iter, dirty_ref: the lock goes into the guard.                     *)
KeepGuard(t, g) ==
  /\ Goto(t, "found", "user")
  /\ call[t] \in Borrows
  /\ Place(call[t], seen[t]) # None
  /\ view[g] = None
  /\ Lock!HandOver(t, g)
  /\ view' = [view EXCEPT ![g] =
       [owner |-> t, place |-> Place(call[t], seen[t]), seen |-> seen[t],
        hold |-> Holder(call[t])]]
  /\ Tell(t, IF Intact(seen[t]) THEN None ELSE Garbage)
  /\ Forget(t)
  /\ UNCHANGED <<contents, edit>>

(* The owner of a guard dereferences it, or takes the iterator further.    *)
Deref(t, g) ==
  /\ pc[t] = "user"
  /\ view[g] # None /\ view[g].owner = t
  /\ told' =
       <<t, IF Intact(view[g].seen) THEN Look(view[g].place, contents) ELSE Garbage>>
  /\ UNCHANGED <<contents, lockVars, pc, call, seen, view, edit>>

DropGuard(t, g) ==
  /\ pc[t] = "user"
  /\ view[g] # None /\ view[g].owner = t
  /\ IF Raw(g) THEN UNCHANGED lockVars ELSE Lock!EndRead(g)
  /\ view' = [view EXCEPT ![g] = None]
  /\ UNCHANGED <<contents, pc, call, seen, told, edit>>

(* The items of an iterator live as long as the borrow of the container    *)
(* (Item = &'a V), and not only as long as the iterator: it is dropped,    *)
(* the items are kept.  An iterator over nothing has none.                 *)
KeepItems(t, g) ==
  /\ pc[t] = "user"
  /\ view[g] # None /\ view[g].owner = t /\ view[g].hold = "iterator"
  /\ view[g].place # {}
  /\ Permitted
  /\ Lock!EndRead(g)
  /\ view' = [view EXCEPT ![g].hold = "nothing"]
  /\ UNCHANGED <<contents, pc, call, seen, told, edit>>

(* Index and get_uncheck go to the cell at once, and return a reference;   *)
(* Index panics when there is nothing.                                     *)
MayIndex(t) ==
  /\ Goto(t, "index", "user")
  /\ Permitted

Index(t, g) ==
  /\ MayIndex(t)
  /\ Place(call[t], contents) # None
  /\ view[g] = None
  /\ view' = [view EXCEPT ![g] =
       [owner |-> t, place |-> Place(call[t], contents), seen |-> contents,
        hold |-> "nothing"]]
  /\ Tell(t, None)
  /\ UNCHANGED <<contents, lockVars, seen, edit>>

IndexNothing(t) ==
  /\ MayIndex(t)
  /\ Place(call[t], contents) = None
  /\ Tell(t, Answer(call[t], contents))
  /\ UNCHANGED <<contents, lockVars, seen, view, edit>>

-----------------------------------------------------------------------------
(* Write methods.                                                          *)

Enter(t) ==
  /\ Goto(t, "enter", "change")
  /\ call[t] \in Writes =>
       \A e \in Effects(call[t], contents) : e.contents \in Contents
  /\ Lock!StartWrite(t)
  /\ UNCHANGED <<contents, call, seen, told, view, edit>>

StartChange(t) ==
  /\ Goto(t, "change", "changing")
  /\ call[t] \in Writes
  /\ seen' = [seen EXCEPT ![t] = contents]
  /\ UNCHANGED <<contents, lockVars, call, told, view, edit>>

(* The method is done with the cell, or panics (parking_lot does not       *)
(* poison the mutex).                                                      *)
FinishChange(t) ==
  /\ Goto(t, "changing", "leave")
  /\ \E e \in Effects(call[t], seen[t]) :
       contents' = e.contents /\ Tell(t, e.result)
  /\ Forget(t)
  /\ UNCHANGED <<lockVars, view, edit>>

(* get_mut finds nothing.                                                  *)
EditNothing(t) ==
  /\ Goto(t, "change", "leave")
  /\ call[t] \in Edits
  /\ Place(call[t], contents) = None
  /\ Tell(t, Answer(call[t], contents))
  /\ UNCHANGED <<contents, lockVars, seen, view, edit>>

(* The WriteLock is dropped.                                               *)
Leave(t) ==
  /\ Goto(t, "leave", "user")
  /\ Lock!EndWrite
  /\ UNCHANGED <<contents, call, seen, told, view, edit>>

(* get_mut, iter_mut: the WriteLock goes into the guard.                   *)
KeepWriteGuard(t) ==
  /\ Goto(t, "change", "user")
  /\ call[t] \in Edits
  /\ Place(call[t], contents) # None
  /\ edit = None
  /\ edit' = [owner |-> t, place |-> Place(call[t], contents),
               hold |-> Holder(call[t])]
  /\ Tell(t, None)
  /\ UNCHANGED <<contents, lockVars, seen, view>>

(* As with iter: the items of iter_mut (&'a mut V) are kept, the iterator  *)
(* and with it the WriteLock is dropped.                                   *)
KeepItemsMut(t) ==
  /\ pc[t] = "user"
  /\ edit # None /\ edit.owner = t /\ edit.hold = "iterator"
  /\ edit.place # {}
  /\ Contract => \A u \in Threads : pc[u] = "user"
  /\ edit' = [edit EXCEPT !.hold = "nothing"]
  /\ Lock!EndWrite
  /\ UNCHANGED <<contents, pc, call, seen, told, view>>

(* The owner of the write guard assigns to what it refers to.              *)
Assign(t) ==
  /\ pc[t] = "user"
  /\ edit # None /\ edit.owner = t
  /\ contents' \in Stores(edit.place, contents) \cap Contents
  /\ UNCHANGED <<lockVars, pc, call, seen, told, view, edit>>

DropWriteGuard(t) ==
  /\ pc[t] = "user"
  /\ edit # None /\ edit.owner = t
  /\ edit' = None
  /\ IF RawEdit THEN UNCHANGED lockVars ELSE Lock!EndWrite
  /\ UNCHANGED <<contents, pc, call, seen, told, view>>

-----------------------------------------------------------------------------

Next == \E t \in Threads :
  \/ \E c \in Calls : Call(t, c)
  \/ Admit(t) \/ LookUp(t) \/ EndRead(t) \/ IndexNothing(t)
  \/ Enter(t) \/ StartChange(t) \/ FinishChange(t) \/ EditNothing(t) \/ Leave(t)
  \/ KeepWriteGuard(t) \/ Assign(t) \/ KeepItemsMut(t) \/ DropWriteGuard(t)
  \/ \E g \in Guards :
       \/ KeepGuard(t, g) \/ Index(t, g) \/ Deref(t, g)
       \/ KeepItems(t, g) \/ DropGuard(t, g)

Spec == Init /\ [][Next]_vars

-----------------------------------------------------------------------------
(* Properties.                                                             *)

(* Every variable has its type: what a method returns and what it works on *)
(* are where its label says, and a write guard's owner holds the lock.     *)
TypeOK ==
  /\ contents \in Contents
  /\ reading \subseteq Threads \cup Guards
  /\ writer \in Threads \cup {None}
  /\ pc \in [Threads -> Labels]
  /\ call \in [Threads -> Calls \cup {None}]
  /\ seen \in [Threads -> Contents \cup {None}]
  /\ \A t \in Threads : call[t] = None <=> pc[t] \in {"user", "leave"}
  /\ view \in [Guards -> View \cup {None}]
  /\ edit \in Edit \cup {None}
  /\ edit # None /\ ~RawEdit => writer = edit.owner

(* The value behind a guard, or behind a reference without one (as long as *)
(* the contract is kept), is never invalidated or changed (mod.rs:79-85:   *)
(* "the pointed-to value can never be invalidated or raced while the guard *)
(* is alive").                                                             *)
StableViews == \A g \in Guards : view[g] # None => Intact(view[g].seen)

(* README:41-42: a reader can never read while a writer mutates, and       *)
(* vec.rs:93-95: all writers hold `write`, and concurrent access is        *)
(* race-free.  A reference that is alive while a writer mutates may be     *)
(* used then.                                                              *)
ReaderNeverMeetsWriter ==
  (\E u \in Threads : pc[u] = "changing") =>
    edit = None /\ \A g \in Guards : view[g] = None

(* The container implements one with atomic calls and frozen guards.       *)
Opened == [g \in Guards |-> IF view[g] = None THEN None ELSE view[g].place]
Edited == IF edit = None THEN None ELSE [owner |-> edit.owner, place |-> edit.place]

Abstract == INSTANCE AtomicContainer WITH open <- Opened, edit <- Edited

ImplementsAtomic == Abstract!Spec

=============================================================================
