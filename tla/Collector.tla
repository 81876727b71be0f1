------------------------------ MODULE Collector ------------------------------
(***************************************************************************)
(* A collector (src/include/dpp/collector.h) and its timed_listener        *)
(* (timed_listener.h) on an EventRouter.  The collector's lambda, handle 1 *)
(* of the event, stores what filter() accepts.  The timer's tick, cancel() *)
(* and the destructor each detach the lambda and then stop the timer,      *)
(* whose on_stop calls completed() with the list; cancel() and the         *)
(* destructor also free the timed_listener, whose lambda the tick runs.    *)
(*                                                                         *)
(* stop_timer is not in the repository: by its documentation in cluster.h  *)
(* it calls on_stop if the timer exists, and a stopped timer is gone.      *)
(***************************************************************************)
EXTENDS EventRouter, Sequences

CONSTANTS
    WaySets,      \* what may happen in a behaviour: a set of subsets of
                  \* {"tick", "cancel", "destroy", "inside"}
    MaxEvents     \* bound: events that the shards deliver

VARIABLES
    ways,         \* the member of WaySets, which does not change
    stored, triggered,
    tl,           \* the timed_listener: "live", "freed", or "null" after cancel()
    timer,        \* the timer exists
    object,       \* "new" until the derived class's constructor begins, then
                  \* "derived", "base" inside ~collector, or "gone"
    op,           \* op[t]: the way that t is going, or "none"
    pushing,      \* pushing[t]: the list that push_back works on, <<0>> for none
    event,        \* event[t]: the event that t delivers
    (* History: observes what the code does. *)
    events,       \* events so far
    captured,     \* what filter() accepted, in order
    results,      \* the lists that completed() has got
    crashed       \* why the process ended: "no", "pure virtual call" or "freed memory"

collector == <<stored, triggered, tl, timer, object>>
observed  == <<events, captured, results, crashed>>
collecting == <<ways, collector, op, pushing, event, observed>>
allVars   == <<vars, collecting>>

(* The collector's constructor has attached the lambda and started the timer. *)
LambdaAttached ==
    /\ next_handle = 2 /\ dispatch_container = {1}
    /\ readers = {} /\ detached = {}
    /\ pc = [t \in Threads |-> "idle"] /\ arg = [t \in Threads |-> 0]
    /\ todo = [t \in Threads |-> {}] /\ cancelled = [t \in Threads |-> FALSE]
    /\ last = [t \in Threads |-> 0]

CollectingInit ==
    /\ ways \in WaySets
    /\ stored = <<>> /\ triggered = FALSE /\ tl = "live" /\ timer = TRUE /\ object = "new"
    /\ op = [t \in Threads |-> "none"]
    /\ pushing = [t \in Threads |-> <<0>>]
    /\ event = [t \in Threads |-> 0]
    /\ events = 0 /\ captured = <<>> /\ results = <<>> /\ crashed = "no"

CInit == LambdaAttached /\ CollectingInit

Free(t) == op[t] = "none" /\ pc[t] = "idle" /\ crashed = "no"

-----------------------------------------------------------------------------
(* The constructor of the derived class begins. *)
Construct ==
    /\ crashed = "no" /\ object = "new" /\ object' = "derived"
    /\ UNCHANGED <<vars, stored, triggered, tl, timer, op, pushing, event, observed>>

(* The event reaches the lambda, or nobody. *)
Deliver(t) ==
    /\ Free(t) /\ events < MaxEvents
    /\ CallLock(t)
    /\ events' = events + 1
    /\ event' = [event EXCEPT ![t] = events + 1]
    /\ UNCHANGED <<collector, op, pushing, captured, results, crashed>>

(* The lambda calls filter(), or the call of the event is through. *)
Called(t) ==
    /\ crashed = "no" /\ ((object = "derived" /\ Enter(t, 1)) \/ CallReturn(t))
    /\ UNCHANGED <<collector, op, pushing, event, observed>>

(* filter() is pure virtual while the object is only a collector: the lambda   *)
(* is there before the derived class's constructor and until ~collector.     *)
CallsPure(t) ==
    /\ crashed = "no" /\ object # "derived" /\ Enter(t, 1)
    /\ crashed' = "pure virtual call"
    /\ UNCHANGED <<collector, op, pushing, event, events, captured, results>>

(* filter() returned nullptr. *)
Reject(t) ==
    /\ crashed = "no" /\ pushing[t] = <<0>> /\ op[t] = "none"
    /\ Leave(t)
    /\ UNCHANGED <<collector, op, pushing, event, observed>>

(* It accepted: push_back, which other threads do not wait for. *)
Accept(t) ==
    /\ crashed = "no" /\ pc[t] = "in" /\ pushing[t] = <<0>> /\ op[t] = "none"
    /\ captured' = Append(captured, event[t])
    /\ pushing' = [pushing EXCEPT ![t] = stored]
    /\ UNCHANGED <<vars, collector, op, event, events, results, crashed>>

Push(t) ==
    /\ crashed = "no" /\ pushing[t] # <<0>>
    /\ stored' = Append(pushing[t], event[t])
    /\ pushing' = [pushing EXCEPT ![t] = <<0>>]
    /\ Leave(t)
    /\ UNCHANGED <<triggered, tl, timer, object, op, event, observed>>

-----------------------------------------------------------------------------
(* The timer ticks, or somebody calls cancel() or destroys the collector. *)
Begin(t, way) ==
    /\ way \in ways \ {"inside"} /\ Free(t)
    /\ object = "derived" \/ (object = "new" /\ way = "tick")
    /\ way = "tick" => timer /\ \A r \in Threads : op[r] # "tick"
    /\ way = "cancel" => tl = "live"
    /\ way = "destroy" => \A r \in Threads : op[r] = "none"
    /\ op' = [op EXCEPT ![t] = way]
    /\ object' = IF way = "destroy" THEN "base" ELSE object
    /\ IF way = "destroy" /\ tl = "null" THEN UNCHANGED vars ELSE WantDetach(t, 1)
    /\ UNCHANGED <<stored, triggered, tl, timer, pushing, event, observed>>

(* filter() has seen what it waited for and calls cancel(). *)
BeginInside(t) ==
    /\ "inside" \in ways /\ crashed = "no" /\ pc[t] = "in" /\ pushing[t] = <<0>> /\ tl = "live"
    /\ op' = [op EXCEPT ![t] = "cancel"]
    /\ WantDetach(t, 1)
    /\ UNCHANGED <<collector, pushing, event, observed>>

(* ev.detach(listener_handle), through the timed_listener. *)
Detaching(t) ==
    /\ crashed = "no" /\ tl = "live"
    /\ Detach(t)
    /\ UNCHANGED <<collector, op, pushing, event, observed>>

(* Seeded error: the sense of the flag is reversed. *)
OnStop_Reversed ==
    /\ triggered' = TRUE
    /\ IF ~triggered
       THEN UNCHANGED <<results, crashed>>
       ELSE results' = Append(results, stored) /\ UNCHANGED crashed

(* on_stop: completed() is virtual, and pure without the derived part.       *)
OnStop ==
    /\ triggered' = TRUE
    /\ IF triggered
       THEN UNCHANGED <<results, crashed>>
       ELSE IF object = "derived"
            THEN results' = Append(results, stored) /\ UNCHANGED crashed
            ELSE crashed' = "pure virtual call" /\ UNCHANGED results

(* Seeded error: cancel() calls completed() as well. *)
Stop_CancelCompletes(t) ==
    /\ crashed = "no" /\ op[t] # "none" /\ pc[t] = "idle"
    /\ op[t] = "tick" => tl = "live"
    /\ timer' = FALSE /\ triggered' = TRUE
    /\ results' = results \o (IF timer THEN <<stored>> ELSE <<>>)
                          \o (IF op[t] = "cancel" THEN <<stored>> ELSE <<>>)
    /\ tl' = IF op[t] = "tick" THEN tl ELSE "null"
    /\ object' = IF op[t] = "destroy" THEN "gone" ELSE object
    /\ op' = [op EXCEPT ![t] = "none"]
    /\ UNCHANGED <<vars, stored, pushing, event, events, captured, crashed>>

(* owner->stop_timer(th), and the return. *)
Stop(t) ==
    /\ crashed = "no" /\ op[t] # "none" /\ pc[t] = "idle"
    /\ op[t] = "tick" => tl = "live"
    /\ timer' = FALSE
    /\ IF timer /\ tl = "live" THEN OnStop ELSE UNCHANGED <<triggered, results, crashed>>
    /\ tl' = IF op[t] = "tick" THEN tl ELSE "null"
    /\ object' = IF op[t] = "destroy" THEN "gone" ELSE object
    /\ op' = [op EXCEPT ![t] = "none"]
    /\ UNCHANGED <<vars, stored, pushing, event, events, captured>>

(* The tick goes on in a timed_listener that cancel() has freed; the second  *)
(* of two cancel() frees it again.                                          *)
UseFreed(t) ==
    /\ crashed = "no" /\ tl = "null" /\ op[t] \in {"tick", "cancel"} /\ pc[t] # "detach in"
    /\ crashed' = "freed memory"
    /\ UNCHANGED <<vars, collector, op, pushing, event, events, captured, results>>

Proceed(t) ==
    \/ Called(t) \/ CallsPure(t) \/ Reject(t) \/ Accept(t) \/ Push(t)
    \/ Detaching(t) \/ Stop(t) \/ UseFreed(t)

CNext ==
    /\ \/ Construct
       \/ \E t \in Threads :
             \/ Deliver(t) \/ BeginInside(t) \/ Proceed(t)
             \/ \E way \in ways : Begin(t, way)
    /\ UNCHANGED ways

(* Threads run on, and a timer that exists comes to tick. *)
Fairness ==
    /\ \A t \in Threads : WF_allVars(Proceed(t) /\ UNCHANGED ways)
    /\ WF_allVars((\E t \in Threads : Begin(t, "tick")) /\ UNCHANGED ways)

CSpec == CInit /\ [][CNext]_allVars /\ Fairness

-----------------------------------------------------------------------------
(* Properties *)

(* completed() is called once, however the timeout, cancel() and the         *)
(* destructor fall together.  When it has its list the collecting is over:   *)
(* no thread is inside the lambda, and the list does not change any more.   *)
CompletedOnce ==
    /\ Len(results) <= 1
    /\ results # <<>> =>
          /\ stored = results[1]
          /\ \A t \in Threads : pc[t] \notin {"in", "detach in"} /\ pushing[t] = <<0>>

(* The timeout brings completed(), whatever the shards deliver meanwhile and *)
(* whoever calls cancel(), as long as it is not a listener: that one waits   *)
(* for a lock that its own thread holds.                                    *)
CompletedAtLast ==
    ways \in {{"tick"}, {"tick", "cancel"}} => <>(results # <<>> \/ crashed # "no")
=============================================================================
