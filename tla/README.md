# dark-std: verification project

TLA+ modules, TLC runs and TLAPS proofs for `dark-std` 0.2.20, a small Rust
library of thread-safe containers with separated reads and writes, a wait
group, an atomic duration and a defer guard. `src/` below is the repository;
every definition is translated from its code, and `PROJECT.json` (`map`) names
the lines each one stands for.

## 1. The system

| Component | Source | State | Operations |
|---|---|---|---|
| Read-write separation protocol | `src/src/sync/mod.rs`, and `begin_read`/`begin_write` of each container | per container: `write` mutex, `writing` flag, `registry` mutex with one counter per reading thread | `begin_read`, `begin_write`, drop of `ReadGuard`, `ReadMapGuard`, the iterators, `WriteGuard`, `WriteLock` |
| Slot lookup | `sync/mod.rs:17-75` | per thread: `last`, `all`; global `CONTAINER_ID` | `reader_count_for` |
| `SyncHashMap`, `SyncBtreeMap`, `SyncIndexMap` | `sync/map_*.rs` | the map in an `UnsafeCell`, and the protocol's state | `insert`, `remove`, `clear`, `get`, `get_mut`, `iter`, `iter_mut`, `len`, `contains_key`, `dirty_ref`, `clone`, `Index`, `*_mut` |
| `SyncVec` | `sync/vec.rs` | the vector, and the protocol's state | the same, and `push`, `pop`, `set`, `pushes`, `get_uncheck`, `eq`; its iterator is `Send` |
| `WaitGroup` | `sync/wg.rs` | shared `total`, a channel of completions | `clone`, `add`, `wait`, `wait_async`, `drop` |
| `AtomicDuration` | `sync/duration.rs` | one `AtomicUsize` of milliseconds, 0 for `None` | `new`, `get`, `store`, `take` |
| `defer!` | `defer/mod.rs` | the closures of a scope | create, drop |
| `Error` | `errors/mod.rs` | none | conversions, formatting |

How they interact. The four containers do not call one another; each contains
its own copy of the protocol (the same text in `map_hash.rs:154-184`,
`map_btree.rs:154-184`, `map_index.rs:157-187`, `vec.rs:100-130`; the map names
`map_hash.rs` for all of them). A thread's slot lookup is shared by all
containers through thread-local storage. Guards are what the caller holds of
the protocol's state between two calls: a read guard is a pin on one counter, a
write guard is the mutex and the flag.

What is hard. Readers take no lock: a reader pins its counter, looks at the
flag, and backs out if it is up; a writer raises the flag and then reads the
counters one after the other, without stopping anybody. Slots are added while
writers scan. Guards live as long as the caller likes, nest, are leaked by
panics of the caller's own `Hash`/`Eq`, and (for `SyncVec::iter`) are dropped on
other threads. Two wait loops spin on one another's state. The `WaitGroup`
counts in two places with no lock between them. All hazards are listed, at the
line where they bite, in `PROJECT.json`.

What makes each component correct:

* protocol: nobody reads the contents while somebody may change them; the
  counters are exact; nobody waits for ever who keeps to the documented rules;
  it is a reader-writer lock;
* slot lookup: a thread gets the counter of the container it asks for, also
  after other containers were dropped and their memory used again;
* containers: each method is atomic, and what it returns is what the abstract
  map or vector would return;
* wait group: `wait` returns when every clone has been dropped, and not before;
* atomic duration: what is stored is what is read, rounded up to milliseconds;
* defer: every closure runs once, in reverse order, also when unwinding.

## 2. Modules

| Module | What it is |
|---|---|
| `RwLock` | abstract reader-writer lock: the set of read accesses and the writer |
| `SlotLock` | the protocol, one action per access to shared memory; implements `RwLock` |
| `MCSlotLock`, `SlotLockProofs` | its finite instances for TLC, and its theorems |
| `AtomicContainer` | abstract container: calls are atomic, guards freeze their place |
| `Container` | the methods of the four containers over `RwLock`; what the work on the cell does is a parameter; implements `AtomicContainer` |
| `ContainerProofs` | its theorems, for every container |
| `SyncVec`, `MCSyncVec`, `SyncVecProofs` | `Container` with the calls of `SyncVec`; its finite instance for TLC, and its theorems |
| `SyncMap`, `MCSyncMap`, `SyncMapProofs` | `Container` with the calls of the three maps; implements an `AtomicContainer` over functions; its finite instance for TLC, and its theorems |
| `Latch` | abstract wait group: live handles, and waits that end when they are alone |
| `WaitGroup` | the total and the channel, one action per access; implements `Latch` |
| `MCWaitGroup`, `WaitGroupProofs` | its finite instances for TLC, and its theorems |
| `AtomicMemory` | atomics with the orderings `Relaxed` to `SeqCst` (external: what Rust takes from C++20) |
| `SlotMemory` | the protocol again, over `AtomicMemory`: is every access ordered after those it conflicts with, and is it still `RwLock`? |
| `MCSlotMemory`, `SlotMemoryProofs` | its finite instance for TLC, and its theorems |
| `ReaderSlots`, `ReaderSlotsProofs` | the thread-local caches of `reader_count_for` over many containers, and its theorems |
| `VecEq` | `eq` of two vectors: two guards, one after the other |
| `AtomicDuration` | `AtomicDuration` |
| `DeferGuard` | `defer!` in nested scopes that end or panic |
| `OthersProofs` | the theorems of these three |
| `MCOthers` | one instance for TLC of the last four: `part` is chosen at the start and only that part moves, as they share nothing |

The layers meet in `RwLock`: `SlotLock` shows that `begin_read` and
`begin_write` give that lock, and `Container` uses it (`Lock!StartRead`,
`Lock!HandOver`, ...) and does not look into it. `VecEq` needs more than that, a
lock that refuses readers while its writer still drains; it has its own, which is
`SlotLock` seen from outside and is not shown to follow from it.

### SlotLock

State and code: `pc[t]` is where thread `t` is in `begin_read`, `begin_write`
or `WriteLock::drop`; `registry` is the container's vector of counters, each
named by the thread that pushed it; `count` the counters; `writing` the flag;
`writer` and `regLock` the owners of the two mutexes; `pos` the scan's position;
`slotOf[g]`, `heldBy[g]` the counter a live guard pins and the thread that owns
the guard; `wguard` the owner of the write guard; `leaked` (a history variable)
the pins that panics have left behind.

Every access to an atomic or a mutex is an action of its own. The body of a
method between the two ends of its access is one state (`"reading"` or
`"writing"`): what happens to the contents there is the access that must not
overlap another. `EndRead` stands for the methods that give the pin back
themselves, `KeepGuard` for those that return a guard (`get`, `iter`,
`dirty_ref`, and through it `clone`, `fmt`, `serialize`, `eq`), `PanicInRead`
for a panic of `Hash`, `Eq`, `Ord` or `PartialEq` in `get`, `contains_key` or
`contains`. A panic inside a write method drops the `WriteLock` like a normal
return (`EndWrite`). `begin_read`'s lookup is `BeginRead`, with `RegisterSlot`
for the first read of a thread.

`Discipline` selects what the callers may do: `"any"` (everything that
compiles), `"documented"` (the deadlock note of the containers: no write method
while a guard is alive), `"one_guard"` (no method while a guard is alive).

Abstractions: interleavings are sequentially consistent (`SlotMemory` is about
what the orderings of the atomics add to that); the `*_mut`
methods and `into_inner` take the container by `&mut` or by value, so no other
thread can be in it; the contents are left out.

### Container, SyncVec, SyncMap

State and code: `contents` is what is in the `UnsafeCell`; `reading`, `writer`
are the lock; `call[t]` the method a thread is in and `pc[t]` how far it is;
`seen[t]` what it has looked at and works on; `view[g]` a read guard, an
iterator or a plain reference, with what it gives access to, the contents it was
made from and what holds its lock (`"guard"`, `"iterator"`, `"nothing"`);
`edit` the live `WriteGuard` or `iter_mut`; `told` the last answer of a call
(an observation that the abstract container must make too).

A read is `Call`, `Admit` (`begin_read`), `LookUp`, and `EndRead` or
`KeepGuard`; a write `Call`, `Enter` (`begin_write`), `StartChange`,
`FinishChange`, `Leave`, or `KeepWriteGuard` / `EditNothing`. The work is not
atomic: if the cell changed, or is being changed, between a look and its use,
the outcome is `Garbage`, so atomicity is what has to be shown and not what the
model starts from. `Assign` is a store through a `WriteGuard`, `Deref` a look
through a guard. `Index` and `get_uncheck` go to the cell without the lock.
The items of `iter`/`iter_mut` have the lifetime of the container's borrow and
not of the iterator; `KeepItems` and `KeepItemsMut` drop an iterator (and its
lock) and keep such items. `Contract = TRUE` says that the callers of these
keep what `vec.rs:360-364` asks: nobody writes while such a reference lives.

`SyncVec` and `SyncMap` give the parameters: which calls there are, what each
write does to the contents and returns (`Effects`), what a borrow refers to
(`Place`), what a read answers. A write of a map may also panic in the caller's
`Hash`, `Eq` or `Ord` before it changes anything (`KeyPanics`); `insert` beyond
the end, `set` and `Index` panic by themselves. The entries of a map are a
sequence: sorted in `SyncBtreeMap`; in `SyncIndexMap` in the order that its
`insert` and `swap_remove` make. No modelled call shows the order of a
`HashMap`; the sorted map stands for it.

Abstractions: a write only begins when its outcome fits the run's bound
(allocation failure is not modelled); one write reference is tracked at a time
(there can be no second while the lock is held); reading through a
`WriteGuard` is left out; `shrink_to_fit` of the maps is left out (it changes
nothing and returns nothing); a panic of `Hash` while a `HashMap` grows is left out
(what it does to the entries is the standard library's business); the `_mut` methods do what the ones without `_mut`
do, with nobody else about.

### WaitGroup

State and code: `alive` are the live values, `total` the shared `AtomicU64`,
`queue` the 1s in the channel, `using[t]` the value a thread has called a method
of (by reference, so several threads may use one), `sum[t]` what an `add` has
computed between its load (`BeginAdd`) and its store (`FinishAdd`, or
`FinishClone` for the `add(1)` of `clone`), `current[t]` what a wait has
received. `Receive`, `Continue` and `Return` are the loop of `wait` and
`wait_async`; `PassWait` its first test; `Cancel` drops the future of
`wait_async` at its `await` and with it what it has counted; `Drop` sends a 1.

`OneAdder` says that calls of `add` do not overlap, `OneWait` that there is one
wait which is not cancelled. Abstraction: the first load of `wait` is `Relaxed`
in the code and reads the newest total here; that of a thread whose clones were
made by others may be older in theory.

### SlotMemory

State and code: as in `SlotLock` (`pc`, `registry`, `writer`; `scanner` holds the
registry mutex, `todo` are the counters that the scan has yet to load), but the
counters and the flag are locations of `AtomicMemory`: `hist[l]` is everything
that was ever written to `l`, in modification order, and a load returns any
message that is not too old for its thread. `clock[t]` says which messages a
thread must not read behind and, in `know`, which accesses to the contents
happen before what it does next. A release passes the clock on with the message,
an acquire that reads the message (or, as in C++20, any later one of its release
sequence) joins it; mutexes pass theirs on in `passed`. `done` are the accesses so
far. Each ordering of the code is a definition of its own (`PinOrder`,
`LookOrder`, `UndoOrder`, `UnpinOrder`, `RaiseOrder`, `ScanOrder`, `LowerOrder`).

What the orderings are for, found by weakening one at a time in the instance of
`memory_orders`: `Pin`, `Look`, `Raise` and `Scan` have to be `SeqCst`, each of
them, or a reader and a writer miss each other; `Unpin` and `Lower` must not be
`Relaxed`, or the accesses are not ordered although they exclude each other; the
decrement of a refused reader (`Undo`) is stronger than it needs to be.

Abstractions: the total order of `SeqCst` accesses is the order of the steps; the
counters are scanned in any order, which includes that of the registry; a read
method is a guard that is dropped before the method returns; a write method, or
a `WriteGuard`, is the stay of its thread in `"write"`.

### ReaderSlots

State and code: `id[p]` and `registry[p]` are the container at place `p` of
memory, `made` is `CONTAINER_ID` before it is taken modulo `IdWidth` (`usize`);
`last[t]` and `all[t]` are the two caches of a thread, `guard[g]` what a read guard
borrows and pins. `FoundLast`, `FoundAll` and `Register` are the three ways out of
`reader_count_for`. Containers are made, moved (not while borrowed) and dropped at
places, and counters at heap addresses, that were used before; threads end, with
their caches, and others begin; a guard (a `VecIter` elsewhere) may survive the
thread that made it.

Abstractions: a lookup is one action, as it touches what is its thread's own and
the registry under its mutex; the wait for admission that follows it is
`SlotLock`'s. Which of several entries with one id `find` would return is left
open; the invariant shows that there is only one. `MaxMade <= IdWidth` assumes
that ids do not come round.

### VecEq, AtomicDuration, DeferGuard

`VecEq`: `Compare`, `PinSelf`, `PinOther`, `LookAtSelf`, `Answer`, `DropSelf` are
`(*self.dirty_ref()).eq(&*other.dirty_ref())` in the order of its temporaries;
`pinned` are the guards, `writer` the `WriteLock` of each vector from the moment
the flag is up (a reader is refused from then on, as `SlotLock` shows). `Compared`
are the pairs of vectors that callers compare.

`AtomicDuration`: `cell` is the atomic; every operation is one access to it, so one
action. `kept` is what was stored last, an observation. Constants and integers
keep their roles and not their values: the instance has milliseconds of 3 ns,
seconds of 4 ms, a `u64` up to 11 and a `usize` up to 7, so that durations saturate
and do not fit `usize`; the theorem is for all values.

`DeferGuard`: `guards` are those of the nested blocks of one thread, the youngest
last, and `floors` how many of them are older than each block; `DeferDrop` is `Guard::drop` (`take`, then the call, which may panic), `Disarm`
empties a guard through its public field. That locals are dropped youngest first,
that a panic goes on dropping and that a second one aborts is the language's
doing, on which the code relies.

## 3. Runs

| Run | Instance | Shows |
|---|---|---|
| `any_calls` | 3 threads, 3 guards of which one is a `VecIter`, one panic per thread, every call | types, `Exclusion`, `CountersExact`, and that `SlotLock` implements `RwLock` |
| `one_guard_live` | 3 threads, 2 guards, `"one_guard"`, fair | no circular wait, no deadlock; writers and readers get in |
| `nested_reads` | 2 threads, `"documented"` | **violation**: the documented rule does not exclude a deadlock |
| `panic_in_read` | 2 threads, a panicking key | **violation**: a writer waits for a reader that is gone |
| `memory_orders` | a thread that reads and writes, one that writes and is sent guards, 2 guards; bounds below | types, `RaceFree`, and that `SlotMemory` too implements `RwLock` |
| `vec_calls` | 2 threads, 1 guard, 2 values, vectors up to 2 (`MaxLen`), every call; `Contract` | types, `StableViews`, `Conserved`, and that `SyncVec` implements `AtomicContainer` |
| `map_calls` | 2 threads, 1 guard, 3 keys of which one has two values, both orders, panicking keys; `Contract` | `WellFormed`, `PositionsKept`, and that the maps implement an atomic function |
| `vec_items` | 2 threads, 1 guard, items kept without contract | **violation**: a reader and a writer meet through items that outlive their iterator |
| `wg_shared` | 3 threads, 3 values, 3 adds (clones, `add(0)`, `add(2)`), several and cancelled waits | types, `NeverOvercounted`, and that `WaitGroup` implements `Latch` |
| `wg_live` | 2 threads, 3 values, 4 clones, one wait, fair | `NothingLost`; the wait returns |
| `wg_racing_adds` | 3 threads, overlapping clones | **violation**: a wait returns while a clone is alive |
| `others` | slots: 2 threads, 2 guards, 3 containers at 2 places, 3 ids, 4 counters; eq: 4 callers, 3 vectors, 4 pairs that are compared, 2 values; defer: 3 closures, 3 scopes; durations as above | types, `GuardsScanned`, `PrivateCounters`; `CirclesAreRings`, `AnswerTrue`; `NothingForgotten`, `LastInFirstOut`; `NeverShorter` |

Bounds. Three threads are two readers and a writer, two writers and a reader,
or a thread that registers while another scans a registry of two; the scan is
then in every position relative to every reader. Three guards allow a slot with
two guards and a third one elsewhere, nested guards, and a guard that is sent
and nested. One panic per thread is enough to leak a pin; the proofs hold for
any number. `any_calls` ignores deadlock: with every call allowed a thread may
block on itself. It uses symmetry of threads and of ordinary guards; the
liveness run uses none.

For the containers two threads and one guard are every pair of calls, in every
order, with a guard of either thread alive (the lock is the abstract one, whose
interleavings with more threads `any_calls` covers); the proofs hold for any
number. A vector of two has an inner position, an end and a place beyond it; three
entries are what it takes for `swap_remove` to differ from `remove`, and two
values of a key to see which one `insert` returns. A thread that writes under its
own guard waits for itself, so these runs ignore deadlock.

For the wait group three threads are two waiters and somebody who clones, or
the reverse; with three values one dies while another is made; four adds let a
name be used again. A second wait, or one after a cancelled one, may wait for
messages that another took, and `wg_shared` ignores deadlock.

`memory_orders`: with `MaxCounts = 3` a counter is pinned twice, the second time while
the first guard is still alive (a pin after it was dropped would need a fourth value,
and the run could not end in time); `MaxFlags = 4` values of the flag are up, down and
up again, and `MaxAccesses = 2`, since a race is between two accesses. That is enough
for a reader and a writer to pass each other by, for a second writer after the first,
and for a guard that is dropped elsewhere before another on the same slot is dropped
at home, where the writer knows of the first only by the release sequence (without it
in `AtomicMemory!Add`, `RaceFree` fails); each of the weakened orderings above fails
too. A counter that is used again after it was zero is left to the proofs, which
have no bounds. The run stops when they are used up, so it ignores deadlock.

`others`: three ids for three containers, so that the last one is `usize::MAX`,
the id of an empty cache; two places and four addresses, so that both are used
again. Four callers are the two comparisons and two writers that deadlock when two
vectors are compared both ways, and more than the comparison and the writer that
deadlock when one is compared with itself; a third vector makes a chain of two
comparisons, which does not. The pairs compared (`Comparisons`) have all of these,
and `NoCircle` in the place of `CirclesAreRings` fails, also without the pair of a
vector with itself. Three closures in three scopes allow a panic in a drop with
others still to run, in the same scope and outside. Callers and values have the
names of addresses and places, and so share their symmetry.

Fairness (`SlotLock!Fairness`). A thread that can take a step outside a mutex
takes one some day (weak fairness: the scheduler runs every thread). A mutex
that is free again and again is obtained (strong fairness, one condition per
thread: `parking_lot` mutexes are eventually fair). Every guard is dropped some
day. Calls are never forced. Even so two waits can last for ever and the
properties say so: a scan that meets, each time, the counter of a refused
reader (`[]<><<ScanDisturbed>>_vars`), and a reader that meets, each time, a
new writer. Nothing in the code excludes either. For the wait group
(`WaitGroup!Fairness`) a thread that is in a method and can go on does, and a
value that nobody uses is dropped some day: the tasks that own the clones end,
which is what a wait group is for. Nobody is forced to clone or to wait.

Findings. (1) `map_hash.rs:131-135` forbids write methods under a guard; that is
not enough: a read method under a read guard deadlocks with a writer that
raised the flag in between, although `map_hash.rs:283-284` says that reads never
block each other. `"one_guard"` is the rule that is enough, and `NoDeadlock`
proves it. (2) A panic of a key's `Eq` in `contains_key` leaves the counter
above zero; every later write spins for ever. (3) The items of
`iter` and `iter_mut` are `&'a V` and `&'a mut V`, where `'a` is the borrow of the
container: collected, they outlive the iterator and its lock, and another
thread (or the same one, with `iter_mut`) changes the contents under them in safe
code. `README.md:41-42` and `vec.rs:93-95` exclude that; of `Index` the comments
warn, of items they do not. (4) `add` is a load and a store: two clones made at
once are counted once, and a wait then returns too early.

Two more disagreements that no run of their own refutes. `eq` waits for its second
guard with the first in hand (`vec.rs:420`): `a == b`, `b == a` and a writer of each
wait for one another for ever, and so do `v == v` and a writer, though every caller
keeps to `vec.rs:83-87`. `CirclesAreRings` says that every circle has such a ring of
comparisons in it, and comparing in one order avoids it (`NeverInACircle`). And `mod.rs:21-22` says that
a counter is only written by its owning thread; a `VecIter` dropped elsewhere
writes it there (`vec.rs:23-25` allows that). Nothing else breaks by it: the counts
are exact in `any_calls`, and `memory_orders` has such guards.

## 4. Proofs

`SlotLockProofs`, for every set of threads, finite set of guards, number of
panics and discipline, from `SlotLockAssumption` only:

* `Invariance`: `Spec => []IInv`. `Exclusion` by itself is not inductive. `IInv`
  adds: who is in a write phase or has a write guard owns the mutex (`LockInv`),
  and then the flag is up (`FlagInv`); the registry mutex is held exactly during
  a scan (`RegInv`); an unregistered slot is not in use (`RegisteredInv`), so a
  completed scan has seen everybody; nobody reads through a slot that the scan
  has passed (`ScanInv`); the counters are exact (`CountersExact`), so a zero
  means that nobody reads through the slot. One lemma per group of actions
  (`ReadStep`, `WriteStep`, `GuardStep`), in it one step per action and one per
  group of conjuncts; the counting is in `PinAdded` and `PinRemoved`.
* `TypeCorrect`, `MutualExclusion`, `ExactCounters`: the parts of it that the
  runs check.
* `Refinement`: `Spec => ImplementsRwLock`. `Admit` is the abstract `StartRead`,
  `KeepGuard` its `HandOver`, `EndRead`, `PanicInRead` and `DropGuard` its
  `EndRead`, `EnterWrite` its `StartWrite`, `EndWrite` and `DropWriteGuard` its
  `EndWrite`; everything else is a stutter.
* `NoDeadlock`: with `"one_guard"`, `[]NoCircularWait`. A thread with a guard is
  outside the methods (`IdleInv`) and waits for nobody; a scan waits only for
  those; who waits for the registry waits for a scan or for those; all others
  wait for the writer, which is one of the former or waits for nobody.

`ContainerProofs`, for any contents and calls that satisfy
`ContainerAssumption`, any threads and guards, with `Contract = TRUE`:

* `Invariance`: `Spec => []CInv`. `StableViews` needs that the lock agrees with
  the labels and the guards (`LockInv`: who reads or has a guard is in `reading`,
  who is in a write phase or has the write guard is `writer`), that what a call
  has seen is what is there until it returns (`SeenInv`), that calls are where
  they belong (`CallInv`), and that while a reference without lock lives nobody
  is in a write (`RawInv`, `RawEditInv`).
* `TypeCorrect`, `ViewsStable`: the parts of it that `vec_calls` checks.
* `ReadersApart`: `[]ReaderNeverMeetsWriter`. A write that is under way holds the
  lock, so there is no guard (`LockInv`), and under the contract no reference
  without a lock either (`RawInv`, `RawEditInv`). `vec_items` refutes it of callers
  that keep items; the theorem shows that these are the only ones who can.
* `Refinement`: `Spec => ImplementsAtomic`, that is, every container is
  linearizable. `EndRead`, `IndexNothing` and `EditNothing` are the abstract
  `Read`, `FinishChange` is its `Write`, `KeepGuard` and `Index` its `Open`,
  `Deref` its `Peek`, `DropGuard` its `Close`, `KeepWriteGuard`, `Assign`,
  `DropWriteGuard` its `OpenEdit`, `Store`, `CloseEdit`, and `Call` its `Begin`;
  the rest are stutters.

`SyncVecProofs`, for every set of threads, guards and values and every `MaxLen`,
with `Contract = TRUE`; of the constants it assumes only that `MaxLen` is at least 2,
that no thread is a guard and that `None` is neither (`SyncVecAssumption`):

* `VecTypes`, `VecViewsStable`, `VecReadersApart`, `VecRefinement`: the calls of a vector are what
  `ContainerAssumption` asks for (lemma `Fits`: they are of one kind each, and what
  they refer to lies within the vector), so the theorems above hold of `SyncVec`
  as it is checked. `SameInit`, `SameNext` and `SameSpec` carry them over.
* `VecConserved`: `Spec => Conserved`. The occurrences of a value in two parts of a
  vector add up (`OccurrencesConcat`, by a bijection of places), each write method
  cuts the vector and puts it together again (`EffectsConserve`), and by `SeenInv`
  of `ContainerProofs` it does so with what is in the vector when it is done.

`SyncMapProofs`, for every set of threads and guards and every finite set of
entries, in both orders and with and without panics of keys (the callers keep the
contract: the module fixes it); of the constants it assumes
(`SyncMapAssumption`) that entries are pairs whose keys are numbers, that no
thread is a guard, and that `None` is none of the values it is compared with:

* `MapTypes`, `MapViewsStable`, `MapReadersApart`, `MapAtomic`: as for a vector, from
  lemma `Fits` and the theorems of `ContainerProofs`.
* What the write methods do with the sequence of entries comes first, one lemma
  each: `Grown` and `GrownInOrder` (a new entry, at its place in the order of the
  keys), `Placed` (a value in the place of another), `Shrunk` and `SwapShrunk`
  (`remove` of a btree, `swap_remove`). `EffectsFit` gathers them: a call on a map in
  form leaves one in form, moves no entry that `PositionsKept` forbids to move, and
  does to the function what `FunctionEffects` says; `StoresFit`, `LookIs` and
  `AnswerIs` say the like of stores, looks and answers.
* `MapWellFormed`, `MapPositionsKept`, `MapRefinement`: these are shown of the atomic
  container, whose steps a map takes by `MapAtomic`, and not of the steps of
  `Container`: there, what a call has seen would have to be carried along. `MapInv`
  is the inductive invariant: the contents are in form, and the keys that a guard,
  an iterator or a write guard refers to are in the map (`WellFormed` alone does not
  tell where a store through a guard goes). It stays true because nothing is
  removed while a guard lives.

`WaitGroupProofs`, for every set of threads and finite set of values:

* `Invariance`, `TypeCorrect`, `WaitNeverOvercounts`: if adds do not overlap
  (`OneAdder`), what a thread has received, what is in the channel and what is
  alive are together at most `total + 1`, the 1 being the value of `new()` that no
  add has counted. The invariant adds that a sum not yet stored is at least the
  total, and for a clone more. Each thread's count is bounded on its own, so it
  holds with any number of waiters.
* `WaitLosesNothing`: with `OneWait` and clones only the bound is exact
  (`NothingLost`).
* `Refinement`: `Spec => ImplementsLatch` under `OneAdder`: a wait that returns has
  received `total` messages, so by the bound one value is left, its own.
* `WaitReturnsAlone`: `Spec => DoneMeansAlone` under `OneAdder`, by the same argument: what
  `wg_racing_adds` refutes fails only because of adds that overlap. It speaks of the
  values that are alive; a clone of the very value that waits may be under way.

`SlotMemoryProofs`, for every set of threads, readers, writers and guards, with
the orderings of the code and no bound but that of the guards:

* `Invariance`: `Spec => []IInv`, then `MemoryTypes` and `NoDataRace`. A `SeqCst` load of
  a location whose last write is `SeqCst` returns that write. The flag is written
  with `SeqCst` only (`FlagInv`), so a reader that finds it down has read the last
  `Lower` and has all writes behind it (`WritesInv`). A counter leaves zero only by
  a `SeqCst` pin, and is the number of its guards and pins under way (`CountInv`), so
  a scan that loads a zero has loaded the last value, nobody reads through that
  slot (`ScanInv`), and the value passes on every read that was made through it,
  by whichever thread (`ReadsInv`).
* `MemoryRefinement`: `Spec => ImplementsRwLock`, from the same invariant. `Admit` is the
  abstract `StartRead`: the flag that it finds down is the last value of the flag
  (`NobodyChanging`). `EnterWrite` is `StartWrite`: the zeros of a whole scan mean that
  no guard is left. `DropGuard` is `EndRead`, `Lower` is `EndWrite`. So the lock that
  the containers are built on does not rest on the sequential consistency that
  `SlotLock` assumes.

`ReaderSlotsProofs`, for every set of threads, places, addresses and ids:

* `SlotsInvariance`, `SlotsTypes`, `NeverDangling`, `NeverShared`: an id is given out
  once (`IdsInv`), a counter belongs to one live container (`OwnedInv`), so an entry
  with the id of a live container was made for it and its counter is still in that
  registry, of which nothing is removed; it is the only one of its thread and of no
  other (`CacheInv`); a guard pins such a counter, or one that no cache knows any
  more (`GuardInv`).

`OthersProofs`, three parts with nothing in common.

`VecEq`, for every set of callers and vectors, compared in any order:

* `EqInvariance`: who holds which lock (`LockInv`), who has which guards (`PinInv`),
  nobody has one of a vector that is written (`DrainedInv`).
* `AnswersTrue`: a write finds no guards and none are made while the lock is held,
  so what was seen of the first vector is still there at the answer.
* `OnlyByARing`: `CirclesAreRings`, whatever is compared. In a circle somebody holds a
  guard and waits for the other vector; whoever has locked that drains, and waits
  for somebody in the circle who holds a guard of it and waits for a third vector,
  and so on: these comparisons are the ring.
* `NeverInACircle`: `NoCircle`, if the vectors have any ranks such that each `a == b` goes
  from the higher to the lower. A ring would have no lowest.

`DeferGuard`, for any closures and any depth of scopes:

* `DeferInvariance`: a closure is in one guard, has run once, or is disarmed
  (`Accounted`); the guards lie on their stack in the order in which they were made
  (`Stacked`); each scope has its own end of that stack, and the outermost all of it
  (`Nested`), so that nothing is left when it has been left.
* `NoneForgotten`, `YoungestFirst`: `NothingForgotten` from the first and the last of
  these; `LastInFirstOut` because `DeferDrop` takes the end of the stack.

`AtomicDuration`: `RoundedUp`, `NeverShorter` for every width of the integers.

All safety properties of the passing runs are proved. Only model-checked:
`WriterEnters`, `ReaderAdmitted`, `WaitReturns` (liveness under fairness is out of
the prover's reach), and the four violations, which are counterexamples.

## 5. Not modelled

`errors/mod.rs` (formatting and conversions without state), `fmt`, `serialize`,
`clone` and the macros beyond the guard they take, `into_iter` and `into_inner` (by
value, when nobody else has the container), tests and benches.

Beyond the models: what happens after `CONTAINER_ID` has come round (the code has
nothing against two live containers with one id); the use of a container in the
destructor of a thread-local, when `SLOTS` may be gone and `SLOTS.with` panics;
user code that calls the container it is called from (`Hash`, `Eq`, `Ord`, `Drop`
under the write lock), which waits for itself; `usize` overflow of a counter, for
which a thread would have to leak 2^w guards.

What would come next: `ThreadEnd`, a panic of a key and the registration of a slot
in one model with the containers' contents, which now meet only in `RwLock`; and a
model of `CONTAINER_ID` coming round, with the two containers that would share a slot.
