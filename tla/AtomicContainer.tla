--------------------------- MODULE AtomicContainer ---------------------------
(***************************************************************************)
(* What a container of dark_std::sync promises to the threads that share   *)
(* it (README:1-6): every call takes effect at once, at some moment        *)
(* between its begin and its return; what a guard gives access to does not *)
(* change while the guard lives, and what a write guard changes is seen by *)
(* its owner only until it is dropped.  What the calls do is a parameter.  *)
(***************************************************************************)
CONSTANTS
  Threads,
  Guards,         (* names for the guards and references to the contents   *)
  None,
  Start,          (* what the container may be created with                *)
  Reads,          (* calls that look at the contents and return a value    *)
  Borrows,        (* calls that return access to a place, or to none       *)
  Writes,         (* calls that change the contents                        *)
  Edits,          (* calls that return write access to a place, or to none *)
  Answer(_, _),   (* what a call that changes nothing returns              *)
  Effects(_, _),  (* the possible outcomes of a write: contents and result *)
  Place(_, _),    (* what a borrow or an edit gives access to, or None     *)
  Look(_, _),     (* what there is to see at a place                       *)
  Stores(_, _)    (* what the contents may be after a store at a place     *)

VARIABLES
  contents,
  call,           (* the call each thread has begun                        *)
  told,           (* the last answer and who got it, until the next call   *)
  open,           (* the place each guard gives access to                  *)
  edit            (* the live write guard, its owner and its place         *)

vars == <<contents, call, told, open, edit>>

Init ==
  /\ contents \in Start
  /\ call = [t \in Threads |-> None]
  /\ told = None
  /\ open = [g \in Guards |-> None]
  /\ edit = None

Begin(t, c) ==
  /\ call[t] = None
  /\ call' = [call EXCEPT ![t] = c]
  /\ told' = None
  /\ UNCHANGED <<contents, open, edit>>

(* Nobody may read, or nobody else may do anything.                        *)
Unedited == edit = None
Unread   == \A g \in Guards : open[g] = None

Tell(t, x) ==
  /\ call' = [call EXCEPT ![t] = None]
  /\ told' = <<t, x>>

Read(t) ==
  /\ Unedited
  /\ \/ call[t] \in Reads
     \/ call[t] \in Borrows \cup Edits /\ Place(call[t], contents) = None
  /\ Tell(t, Answer(call[t], contents))
  /\ UNCHANGED <<contents, open, edit>>

Write(t) ==
  /\ Unedited /\ Unread
  /\ call[t] \in Writes
  /\ \E e \in Effects(call[t], contents) :
       contents' = e.contents /\ Tell(t, e.result)
  /\ UNCHANGED <<open, edit>>

Open(t, g) ==
  /\ Unedited
  /\ call[t] \in Borrows
  /\ Place(call[t], contents) # None
  /\ open[g] = None
  /\ open' = [open EXCEPT ![g] = Place(call[t], contents)]
  /\ Tell(t, None)
  /\ UNCHANGED <<contents, edit>>

Peek(t, g) ==
  /\ call[t] = None
  /\ open[g] # None
  /\ told' = <<t, Look(open[g], contents)>>
  /\ UNCHANGED <<contents, call, open, edit>>

Close(g) ==
  /\ open[g] # None
  /\ open' = [open EXCEPT ![g] = None]
  /\ UNCHANGED <<contents, call, told, edit>>

OpenEdit(t) ==
  /\ Unedited /\ Unread
  /\ call[t] \in Edits
  /\ Place(call[t], contents) # None
  /\ edit' = [owner |-> t, place |-> Place(call[t], contents)]
  /\ Tell(t, None)
  /\ UNCHANGED <<contents, open>>

Store(t) ==
  /\ edit # None /\ edit.owner = t
  /\ contents' \in Stores(edit.place, contents)
  /\ UNCHANGED <<call, told, open, edit>>

CloseEdit(t) ==
  /\ edit # None /\ edit.owner = t
  /\ edit' = None
  /\ UNCHANGED <<contents, call, told, open>>

Next ==
  \/ \E t \in Threads :
       \/ \E c \in Reads \cup Borrows \cup Writes \cup Edits : Begin(t, c)
       \/ Read(t) \/ Write(t) \/ OpenEdit(t) \/ Store(t) \/ CloseEdit(t)
       \/ \E g \in Guards : Open(t, g) \/ Peek(t, g)
  \/ \E g \in Guards : Close(g)

Spec == Init /\ [][Next]_vars

=============================================================================
