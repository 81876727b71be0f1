---------------------------- MODULE EventRouter ----------------------------
(***************************************************************************)
(* event_router_t of src/include/dpp/event_router.h, through which D++     *)
(* hands every event of a shard to the bot's handlers.  call() runs the    *)
(* listeners on the thread of the shard, in the order of their handles,    *)
(* under a shared lock; attach() and detach() change the map under the     *)
(* exclusive one, each in one critical section.  Threads of several shards *)
(* may call at once.                                                       *)
(*                                                                         *)
(* A listener may cancel the event, and may itself call attach() or        *)
(* detach(): its thread then waits for the lock that it shares.            *)
(***************************************************************************)
EXTENDS Integers, FiniteSets

CONSTANTS
    Threads,
    MaxHandle      \* bound: the last handle that is given out

ASSUME BoundIsNat == MaxHandle \in Nat

VARIABLES
    next_handle,
    dispatch_container,   \* the handles in the map
    readers,              \* the threads that hold the lock shared
    pc,                   \* pc[t]: "idle", "calling", "in" a listener, or waiting
    arg,                  \* arg[t]: the handle that t wants to detach
    todo,                 \* todo[t]: listeners that for_each has still to come to
    cancelled,            \* cancelled[t]: event.is_cancelled()
    (* History: observes what the code does. *)
    detached,             \* handles for which detach() has returned
    last                  \* last[t]: the latest listener of the call, 0 for none

locals  == <<arg, todo, cancelled>>
history == <<detached, last>>
vars    == <<next_handle, dispatch_container, readers, pc, locals, history>>

Handles == Nat \ {0}
Given   == 1..(next_handle - 1)
Calling(t) == pc[t] \in {"calling", "in", "attach in", "detach in"}

TypeOK ==
    /\ next_handle \in Handles
    /\ dispatch_container \subseteq Given
    /\ readers \subseteq Threads
    /\ pc \in [Threads -> {"idle", "calling", "in", "attach", "detach", "attach in", "detach in"}]
    /\ arg \in [Threads -> Nat]
    /\ \A t \in Threads : pc[t] = "detach" => arg[t] \in Given
    /\ todo \in [Threads -> SUBSET Given]
    /\ cancelled \in [Threads -> BOOLEAN]
    /\ detached \subseteq Given
    /\ last \in [Threads -> Nat]

Init ==
    /\ next_handle = 1
    /\ dispatch_container = {}
    /\ readers = {}
    /\ pc = [t \in Threads |-> "idle"]
    /\ arg = [t \in Threads |-> 0]
    /\ todo = [t \in Threads |-> {}]
    /\ cancelled = [t \in Threads |-> FALSE]
    /\ detached = {}
    /\ last = [t \in Threads |-> 0]

Go(t, from, to) ==
    /\ pc[t] = from
    /\ pc' = [pc EXCEPT ![t] = to]

(* What the exclusive lock waits for. *)
NoReader == readers = {}

-----------------------------------------------------------------------------
(* call() *)

CallLock(t) ==
    /\ Go(t, "idle", "calling")
    /\ readers' = readers \union {t}
    /\ todo' = [todo EXCEPT ![t] = dispatch_container]
    /\ cancelled' = [cancelled EXCEPT ![t] = FALSE]
    /\ last' = [last EXCEPT ![t] = 0]
    /\ UNCHANGED <<next_handle, dispatch_container, arg, detached>>

(* Seeded error: the map is not an ordered one. *)
IsNext_AnyOrder(t, h) == h \in todo[t]

IsNext(t, h) == h \in todo[t] /\ \A g \in todo[t] : h <= g

(* for_each comes to the next listener and calls it. *)
Enter(t, h) ==
    /\ ~cancelled[t] /\ IsNext(t, h)
    /\ Go(t, "calling", "in")
    /\ todo' = [todo EXCEPT ![t] = @ \ {h}]
    /\ last' = [last EXCEPT ![t] = h]
    /\ UNCHANGED <<next_handle, dispatch_container, readers, arg, cancelled, detached>>

(* The listener returns; it may have called event.cancel_event(). *)
Leave(t) ==
    /\ Go(t, "in", "calling")
    /\ \E c \in BOOLEAN : cancelled' = [cancelled EXCEPT ![t] = @ \/ c]
    /\ UNCHANGED <<next_handle, dispatch_container, readers, arg, todo, history>>

(* The listeners are through, or for_each skips what is left of them. *)
CallReturn(t) ==
    /\ todo[t] = {} \/ cancelled[t]
    /\ Go(t, "calling", "idle")
    /\ readers' = readers \ {t}
    /\ todo' = [todo EXCEPT ![t] = {}]
    /\ UNCHANGED <<next_handle, dispatch_container, arg, cancelled, history>>

-----------------------------------------------------------------------------
(* attach() and detach() *)

(* Called from outside, or by a listener, which then waits for itself. *)
WantAttach(t) ==
    /\ \/ Go(t, "idle", "attach")
       \/ Go(t, "in", "attach in")
    /\ UNCHANGED <<next_handle, dispatch_container, readers, locals, history>>

WantDetach(t, h) ==
    /\ \/ Go(t, "idle", "detach")
       \/ Go(t, "in", "detach in")
    /\ arg' = [arg EXCEPT ![t] = h]
    /\ UNCHANGED <<next_handle, dispatch_container, readers, todo, cancelled, history>>

Attach(t) ==
    /\ NoReader /\ next_handle <= MaxHandle
    /\ Go(t, "attach", "idle")
    /\ dispatch_container' = dispatch_container \union {next_handle}
    /\ next_handle' = next_handle + 1
    /\ UNCHANGED <<readers, locals, history>>

(* Seeded error: detach() takes the lock shared. *)
Detach_Shared(t) ==
    /\ Go(t, "detach", "idle")
    /\ dispatch_container' = dispatch_container \ {arg[t]}
    /\ detached' = detached \union {arg[t]}
    /\ UNCHANGED <<next_handle, readers, locals, last>>

Detach(t) ==
    /\ NoReader
    /\ Go(t, "detach", "idle")
    /\ dispatch_container' = dispatch_container \ {arg[t]}
    /\ detached' = detached \union {arg[t]}
    /\ UNCHANGED <<next_handle, readers, locals, last>>

-----------------------------------------------------------------------------
Next ==
    \E t \in Threads :
        \/ CallLock(t) \/ Leave(t) \/ CallReturn(t)
        \/ \E h \in todo[t] : Enter(t, h)
        \/ WantAttach(t) \/ Attach(t) \/ Detach(t)
        \/ \E h \in Given : WantDetach(t, h)

Spec == Init /\ [][Next]_vars

-----------------------------------------------------------------------------
(* Properties *)

(* When detach() has returned, the listener is not running on any thread and *)
(* will not be called again: what it refers to may be destroyed.            *)
NoCallAfterDetach ==
    \A t \in Threads : Calling(t) /\ pc[t] # "calling" => last[t] \notin detached

(* The iterator of a call stays valid: no listener that for_each has still   *)
(* to come to leaves the map under it.                                      *)
IteratorsValid ==
    \A t \in Threads : Calling(t) => todo[t] \subseteq dispatch_container

(* Both: a listener runs, or is still to come, only while it is attached.    *)
ListenersAttached == NoCallAfterDetach /\ IteratorsValid

(* event_router.h: "they will always be called in they order they are bound *)
(* to the event", and none is called behind one that cancels.               *)
InOrderUntilCancelled ==
    [][ \A t \in Threads :
            last'[t] # last[t] /\ last'[t] # 0 => last'[t] > last[t] /\ ~cancelled[t] ]_vars

(* A handle is given out once: detaching it again cannot hit a listener that *)
(* was attached later.                                                      *)
HandlesNotReused ==
    [][ \A h \in dispatch_container' \ dispatch_container :
            h \notin detached /\ \A g \in dispatch_container : g < h ]_vars
=============================================================================
