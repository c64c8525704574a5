------------------------------ MODULE WaitGroup ------------------------------
(***************************************************************************)
(* dark_std::sync::WaitGroup (wg.rs): a shared total of the clones ever    *)
(* made, and a channel on which every dropped value sends a 1.  A wait     *)
(* counts what it receives itself, and compares it with the total.         *)
(*                                                                         *)
(* A value is Send and Sync: any thread may use any live value by          *)
(* reference, and whoever owns it may drop it once nobody uses it.  One    *)
(* action is one access to the total or to the channel; add has two.       *)
(* The Err arm of recv is never taken: a waiter's own value keeps a Sender *)
(* alive, so the channel is not disconnected while somebody waits.         *)
(***************************************************************************)
EXTENDS Integers, FiniteSets

CONSTANTS
  Threads,
  Handles,   (* names for the WaitGroup values that may be alive at once   *)
  Main,      (* the one that new() returns                                 *)
  None,
  Amounts,   (* the v of direct calls of add(v); {} if there are none      *)
  MaxAdds,   (* how often add is called, by clone or directly              *)
  OneAdder,  (* TRUE: calls of add do not overlap                          *)
  OneWait    (* TRUE: there is one call of wait, and it is not cancelled   *)

ASSUME WaitGroupAssumption ==
  /\ Main \in Handles
  /\ None \notin Handles
  /\ IsFiniteSet(Handles)
  /\ Amounts \subseteq Nat
  /\ MaxAdds \in Nat
  /\ OneAdder \in BOOLEAN
  /\ OneWait \in BOOLEAN

VARIABLES
  pc,        (* where each thread is                                       *)
  using,     (* the value a thread has called a method of                  *)
  alive,     (* the live WaitGroup values                                  *)
  total,     (* the shared AtomicU64                                       *)
  queue,     (* the number of 1s in the channel                            *)
  sum,       (* what add will store: the total it loaded, plus v           *)
  current,   (* what a waiting thread has received                         *)
  adds,      (* the calls of add so far, for the bound                     *)
  waited,    (* has wait been called?                                      *)
  done       (* threads whose last wait has returned                       *)

vars == <<pc, using, alive, total, queue, sum, current, adds, waited, done>>

Labels == {"user",          \* outside
           "add", "clone",  \* between the load and the store of an add
           "recv",          \* in the loop of wait, at the receive
           "check"}         \* in the loop of wait, with a message

Adding(t)  == pc[t] \in {"add", "clone"}
Waiting(t) == pc[t] \in {"recv", "check"}

Init ==
  /\ pc = [t \in Threads |-> "user"]
  /\ using = [t \in Threads |-> None]
  /\ alive = {Main}
  /\ total = 0
  /\ queue = 0
  /\ sum = [t \in Threads |-> 0]
  /\ current = [t \in Threads |-> 0]
  /\ adds = 0
  /\ waited = FALSE
  /\ done = {}

Enter(t, h, label) ==
  /\ pc[t] = "user"
  /\ h \in alive
  /\ pc' = [pc EXCEPT ![t] = label]
  /\ using' = [using EXCEPT ![t] = h]

Leave(t) ==
  /\ pc' = [pc EXCEPT ![t] = "user"]
  /\ using' = [using EXCEPT ![t] = None]

-----------------------------------------------------------------------------
(* Slips that the properties below would not survive.                      *)

(* The waiter counts its own value as done.                                *)
ReturnEarly(t) ==
  /\ pc[t] = "check"
  /\ current[t] + 1 >= total
  /\ Leave(t)
  /\ current' = [current EXCEPT ![t] = 0]
  /\ done' = done \cup {t}
  /\ UNCHANGED <<alive, total, queue, sum, adds, waited>>

(* Drop sends only if it is not the value that new() returned.             *)
DropSilently(h) ==
  /\ h \in alive
  /\ \A t \in Threads : using[t] # h
  /\ alive' = alive \ {h}
  /\ queue' = IF h = Main THEN queue ELSE queue + 1
  /\ UNCHANGED <<pc, using, total, sum, current, adds, waited, done>>

(* The waiter expects one message more than there will be.                 *)
ReturnLate(t) ==
  /\ pc[t] = "check"
  /\ current[t] > total
  /\ Leave(t)
  /\ current' = [current EXCEPT ![t] = 0]
  /\ done' = done \cup {t}
  /\ UNCHANGED <<alive, total, queue, sum, adds, waited>>

(* A receive that does not wait for a message.                             *)
ReceiveAnyway(t) ==
  /\ pc[t] = "recv"
  /\ pc' = [pc EXCEPT ![t] = "check"]
  /\ queue' = queue - 1
  /\ current' = [current EXCEPT ![t] = @ + 1]
  /\ UNCHANGED <<using, alive, total, sum, adds, waited, done>>

(* Clones a value and forgets to add it.                                   *)
FinishCloneUncounted(t, h) ==
  /\ pc[t] = "clone"
  /\ h \notin alive
  /\ alive' = alive \cup {h}
  /\ Leave(t)
  /\ UNCHANGED <<total, queue, sum, current, adds, waited, done>>

-----------------------------------------------------------------------------
(* add, clone, drop.                                                       *)

(* add(v) loads the total ...                                              *)
BeginAdd(t, h, v, label) ==
  /\ adds < MaxAdds
  /\ OneAdder => \A u \in Threads : ~Adding(u)
  /\ Enter(t, h, label)
  /\ sum' = [sum EXCEPT ![t] = total + v]
  /\ adds' = adds + 1
  /\ UNCHANGED <<alive, total, queue, current, waited, done>>

(* ... and stores the sum, whatever the total is by then.                  *)
FinishAdd(t) ==
  /\ pc[t] = "add"
  /\ total' = sum[t]
  /\ Leave(t)
  /\ UNCHANGED <<alive, queue, sum, current, adds, waited, done>>

(* clone is add(1), and then there is one more value.                      *)
FinishClone(t, h) ==
  /\ pc[t] = "clone"
  /\ h \notin alive
  /\ total' = sum[t]
  /\ alive' = alive \cup {h}
  /\ Leave(t)
  /\ UNCHANGED <<queue, sum, current, adds, waited, done>>

(* Nobody uses the value any more; its drop sends a 1.                     *)
Drop(h) ==
  /\ h \in alive
  /\ \A t \in Threads : using[t] # h
  /\ alive' = alive \ {h}
  /\ queue' = queue + 1
  /\ UNCHANGED <<pc, using, total, sum, current, adds, waited, done>>

-----------------------------------------------------------------------------
(* wait and wait_async.                                                    *)

MayWait == OneWait => ~waited

(* The total is zero: wait returns at once.                                *)
PassWait(t, h) ==
  /\ MayWait
  /\ pc[t] = "user"
  /\ h \in alive
  /\ total = 0
  /\ waited' = TRUE
  /\ done' = done \cup {t}
  /\ UNCHANGED <<pc, using, alive, total, queue, sum, current, adds>>

BeginWait(t, h) ==
  /\ MayWait
  /\ Enter(t, h, "recv")
  /\ total # 0
  /\ current' = [current EXCEPT ![t] = 0]
  /\ waited' = TRUE
  /\ done' = done \ {t}
  /\ UNCHANGED <<alive, total, queue, sum, adds>>

(* Each message goes to one of the receivers.                              *)
Receive(t) ==
  /\ pc[t] = "recv"
  /\ queue > 0
  /\ pc' = [pc EXCEPT ![t] = "check"]
  /\ queue' = queue - 1
  /\ current' = [current EXCEPT ![t] = @ + 1]
  /\ UNCHANGED <<using, alive, total, sum, adds, waited, done>>

Continue(t) ==
  /\ pc[t] = "check"
  /\ current[t] < total
  /\ pc' = [pc EXCEPT ![t] = "recv"]
  /\ UNCHANGED <<using, alive, total, queue, sum, current, adds, waited, done>>

Return(t) ==
  /\ pc[t] = "check"
  /\ current[t] >= total
  /\ Leave(t)
  /\ current' = [current EXCEPT ![t] = 0]
  /\ done' = done \cup {t}
  /\ UNCHANGED <<alive, total, queue, sum, adds, waited>>

(* The future of wait_async is dropped at its await, and with it what it   *)
(* has counted; a message that it has not taken stays in the channel.      *)
Cancel(t) ==
  /\ ~OneWait
  /\ pc[t] = "recv"
  /\ Leave(t)
  /\ current' = [current EXCEPT ![t] = 0]
  /\ UNCHANGED <<alive, total, queue, sum, adds, waited, done>>

-----------------------------------------------------------------------------

Run(t) ==
  \/ FinishAdd(t) \/ (\E h \in Handles : FinishClone(t, h))
  \/ Receive(t) \/ Continue(t) \/ Return(t)

Call(t) == \E h \in Handles :
  \/ \E v \in Amounts : BeginAdd(t, h, v, "add")
  \/ BeginAdd(t, h, 1, "clone")
  \/ PassWait(t, h)
  \/ BeginWait(t, h)

Next ==
  \/ \E t \in Threads : Run(t) \/ Call(t) \/ Cancel(t)
  \/ \E h \in Handles : Drop(h)

Spec == Init /\ [][Next]_vars

(* A thread that is in a method goes on; every value that nobody uses is   *)
(* dropped some day (wg.rs:16-19: the task that owns it ends).             *)
Fairness ==
  /\ \A t \in Threads : WF_vars(Run(t))
  /\ \A h \in Handles : WF_vars(Drop(h))

FairSpec == Spec /\ Fairness

-----------------------------------------------------------------------------
(* Properties.                                                             *)

(* Every variable has its type; the channel never holds less than nothing. *)
TypeOK ==
  /\ pc \in [Threads -> Labels]
  /\ using \in [Threads -> Handles \cup {None}]
  /\ \A t \in Threads : using[t] = None <=> pc[t] = "user"
  /\ alive \subseteq Handles
  /\ total \in Nat
  /\ queue \in Nat
  /\ sum \in [Threads -> Nat]
  /\ current \in [Threads -> Nat]
  /\ adds \in 0 .. MaxAdds
  /\ waited \in BOOLEAN
  /\ done \subseteq Threads

(* No wait counts more than was dropped: what a thread has received, what  *)
(* is in the channel and what is still alive are together at most what the *)
(* total accounts for and the value of new() (which no add has counted).   *)
(* Waits on several threads, cancelled waits and add(v) keep it.           *)
NeverOvercounted ==
  \A t \in Threads :
    current[t] + queue + Cardinality(alive) <= total + 1

(* With one wait nothing is lost either: what the wait has yet to receive  *)
(* is exactly what the other live values will send.                        *)
NothingLost ==
  \A t \in Threads : Waiting(t) =>
    total - current[t] - queue = Cardinality(alive \ {using[t]})

(* "all done" (wg.rs:21, wg.rs:38): when a wait returns, its own value is  *)
(* the only one that is alive.                                             *)
DoneMeansAlone ==
  [][\A t \in Threads : pc[t] = "check" /\ pc'[t] = "user" => alive = {using[t]}]_vars

(* A wait whose value's clones are all dropped returns (test_wg.rs:5-16).  *)
WaitReturns == \A t \in Threads : Waiting(t) ~> t \in done

(* The abstract latch: the handles are counted by the total and the        *)
(* channel, but a wait returns when it should.                             *)
Abstract == INSTANCE Latch WITH
  waits <- [t \in Threads |-> IF Waiting(t) THEN using[t] ELSE None]

ImplementsLatch == Abstract!Spec

=============================================================================
