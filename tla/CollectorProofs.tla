-------------------------- MODULE CollectorProofs --------------------------
(***************************************************************************)
(* Proofs about EventRouter, for every set of threads and any number of    *)
(* handles, and about Collector, which runs on it.                         *)
(***************************************************************************)
EXTENDS Collector, SequenceTheorems, TLAPS

-----------------------------------------------------------------------------
(* The router *)

(* The threads that hold the lock are those inside call().                  *)
ReadersCall == \A t \in Threads : t \in readers <=> Calling(t)

(* A listener that runs is in the map, as are those that a call has still    *)
(* to come to: the map does not change while anybody reads it.              *)
CurrentInMap == \A t \in Threads :
                    pc[t] \in {"in", "attach in", "detach in"} => last[t] \in dispatch_container

(* No handle that has been detached is in the map. *)
DetachedGone == detached \intersect dispatch_container = {}

(* The listeners still to come are behind the latest one. *)
Ahead == \A t \in Threads : Calling(t) => \A h \in todo[t] : last[t] < h

IInv == TypeOK /\ ReadersCall /\ IteratorsValid /\ CurrentInMap /\ DetachedGone /\ Ahead

-----------------------------------------------------------------------------
LEMMA IInvInit == Init => IInv
BY BoundIsNat DEF Init, IInv, TypeOK, ReadersCall, IteratorsValid, CurrentInMap, DetachedGone,
                  Ahead, Calling, Handles, Given

(* Handles are positive. *)
LEMMA GivenPositive == TypeOK => \A h \in Given : h \in Nat /\ 0 < h
<1>1. \A n \in Nat : \A h \in 1..(n - 1) : h \in Nat /\ 0 < h
  OBVIOUS
<1>2. TypeOK => next_handle \in Nat
  BY DEF TypeOK, Handles
<1> QED BY <1>1, <1>2 DEF Given

(* attach() makes its handle one that has been given out. *)
LEMMA GivenGrows ==
    ASSUME TypeOK, NEW t \in Threads, Attach(t)
    PROVE  /\ Given' = Given \union {next_handle}
           /\ next_handle \in Handles /\ next_handle' \in Handles
           /\ next_handle \notin Given
<1>1. next_handle \in Nat \ {0} /\ next_handle' = next_handle + 1
  BY DEF TypeOK, Attach, Handles
<1>2. 1..(next_handle' - 1) = (1..(next_handle - 1)) \union {next_handle}
  BY <1>1
<1>3. next_handle \notin 1..(next_handle - 1) /\ next_handle' \in Nat \ {0}
  BY <1>1
<1> QED BY <1>1, <1>2, <1>3 DEF Given, Handles

(* TypeOK is inductive. *)
LEMMA TypeNext == TypeOK /\ [Next]_vars => TypeOK'
<1>1. SUFFICES ASSUME TypeOK, [Next]_vars
               PROVE  TypeOK'
  OBVIOUS
<1>2. CASE UNCHANGED vars
  BY <1>1, <1>2 DEF TypeOK, vars, locals, history, Given
<1>3. ASSUME NEW t \in Threads,
             \/ CallLock(t) \/ Leave(t) \/ CallReturn(t) \/ WantAttach(t)
             \/ \E h \in todo[t] : Enter(t, h)
             \/ \E h \in Given : WantDetach(t, h)
             \/ Detach(t)
      PROVE  TypeOK'
  <2>a. next_handle' = next_handle
    BY <1>3 DEF CallLock, Leave, CallReturn, WantAttach, Enter, WantDetach, Detach
  <2>b. Given' = Given
    BY <2>a DEF Given
  <2>c. Given \subseteq Nat
    BY <1>1, GivenPositive
  <2> USE <1>1, <2>a, <2>b, <2>c DEF TypeOK, Go, locals, history
  <2>1. CASE CallLock(t)
    BY <2>1 DEF CallLock
  <2>2. CASE Leave(t)
    BY <2>2 DEF Leave
  <2>3. CASE CallReturn(t)
    BY <2>3 DEF CallReturn
  <2>4. CASE WantAttach(t)
    BY <2>4 DEF WantAttach
  <2>5. ASSUME NEW h \in todo[t], Enter(t, h)
        PROVE  TypeOK'
    BY <2>5 DEF Enter
  <2>6. ASSUME NEW h \in Given, WantDetach(t, h)
        PROVE  TypeOK'
    BY <2>6 DEF WantDetach
  <2>7. CASE Detach(t)
    BY <2>7 DEF Detach
  <2> QED BY <1>3, <2>1, <2>2, <2>3, <2>4, <2>5, <2>6, <2>7
<1>4. ASSUME NEW t \in Threads, Attach(t)
      PROVE  TypeOK'
  <2>1. Given' = Given \union {next_handle} /\ next_handle' \in Handles
    BY <1>1, <1>4, GivenGrows
  <2> QED BY <1>1, <1>4, <2>1 DEF TypeOK, Attach, Go, locals, history
<1> QED BY <1>1, <1>2, <1>3, <1>4 DEF Next

LEMMA StrictlyLess == \A g, h \in Nat : h <= g /\ g # h => h < g
OBVIOUS

(* A step of call(): the map does not change. *)
LEMMA CallKeeps ==
    ASSUME IInv, NEW t \in Threads,
           \/ CallLock(t) \/ Leave(t) \/ CallReturn(t)
           \/ \E h \in todo[t] : Enter(t, h)
    PROVE  ReadersCall' /\ IteratorsValid' /\ CurrentInMap' /\ DetachedGone' /\ Ahead'
<1> USE DEF IInv, TypeOK, Go, locals, history,
            ReadersCall, IteratorsValid, CurrentInMap, DetachedGone, Ahead, Calling
<1>1. CASE CallLock(t)
  <2>1. \A h \in dispatch_container : 0 < h
    BY GivenPositive
  <2> QED BY <1>1, <2>1 DEF CallLock
<1>2. CASE Leave(t)
  BY <1>2 DEF Leave
<1>3. CASE CallReturn(t)
  BY <1>3 DEF CallReturn
<1>4. ASSUME NEW h \in todo[t], Enter(t, h)
      PROVE  ReadersCall' /\ IteratorsValid' /\ CurrentInMap' /\ DetachedGone' /\ Ahead'
  <2>1. \A g \in todo[t] \ {h} : h < g
    <3>1. h \in Nat /\ \A g \in todo[t] : g \in Nat /\ h <= g
      BY <1>4, GivenPositive DEF Enter, IsNext
    <3> QED BY <3>1, StrictlyLess, Zenon
  <2>2. h \in dispatch_container
    BY <1>4 DEF Enter
  <2> QED BY <1>4, <2>1, <2>2 DEF Enter
<1> QED BY <1>1, <1>2, <1>3, <1>4

(* A thread that is going to wait, inside a listener or outside: also when   *)
(* it waits for itself, nothing changes until the lock is free.             *)
LEMMA WantKeeps ==
    ASSUME IInv, NEW t \in Threads,
           WantAttach(t) \/ \E h \in Given : WantDetach(t, h)
    PROVE  ReadersCall' /\ IteratorsValid' /\ CurrentInMap' /\ DetachedGone' /\ Ahead'
<1> USE DEF IInv, TypeOK, Go, locals, history,
            ReadersCall, IteratorsValid, CurrentInMap, DetachedGone, Ahead, Calling
<1>1. CASE WantAttach(t)
  BY <1>1 DEF WantAttach
<1>2. ASSUME NEW h \in Given, WantDetach(t, h)
      PROVE  ReadersCall' /\ IteratorsValid' /\ CurrentInMap' /\ DetachedGone' /\ Ahead'
  <2>1. /\ \/ pc[t] = "idle" /\ pc' = [pc EXCEPT ![t] = "detach"]
           \/ pc[t] = "in" /\ pc' = [pc EXCEPT ![t] = "detach in"]
        /\ UNCHANGED <<next_handle, dispatch_container, readers, todo, last, cancelled, detached>>
    BY <1>2 DEF WantDetach
  <2>2. \A u \in Threads : Calling(u)' <=> Calling(u)
    BY <2>1
  <2>3. ReadersCall'
    BY <2>1, <2>2
  <2>4. IteratorsValid' /\ DetachedGone'
    BY <2>1 DEF IteratorsValid
  <2>5. CurrentInMap'
    BY <2>1
  <2>6. Ahead'
    BY <2>1, <2>2
  <2> QED BY <2>3, <2>4, <2>5, <2>6
<1> QED BY <1>1, <1>2

(* The exclusive lock is there when no thread is inside call(). *)
LEMMA NobodyCalls ==
    ASSUME IInv, NoReader, NEW t \in Threads
    PROVE  ~Calling(t)
BY DEF IInv, NoReader, ReadersCall

LEMMA ChangeKeeps ==
    ASSUME IInv, NEW t \in Threads, Attach(t) \/ Detach(t)
    PROVE  ReadersCall' /\ IteratorsValid' /\ CurrentInMap' /\ DetachedGone' /\ Ahead'
<1>1. \A r \in Threads : ~Calling(r)
  BY NobodyCalls DEF Attach, Detach
<1>2. \A r \in Threads : ~Calling(r)'
  BY <1>1 DEF Attach, Detach, Go, Calling, IInv, TypeOK
<1>3. ReadersCall' /\ IteratorsValid' /\ CurrentInMap' /\ Ahead'
  BY <1>2 DEF IInv, Attach, Detach, NoReader, ReadersCall, IteratorsValid, CurrentInMap,
              Ahead, Calling
<1>4. CASE Attach(t)
  <2>1. next_handle \notin detached
    BY <1>4, GivenGrows DEF IInv, TypeOK
  <2> QED BY <1>3, <1>4, <2>1 DEF IInv, Attach, DetachedGone, history
<1>5. CASE Detach(t)
  BY <1>3, <1>5 DEF IInv, Detach, DetachedGone
<1> QED BY <1>4, <1>5

LEMMA IInvNext == IInv /\ [Next]_vars => IInv'
<1>1. ASSUME IInv, UNCHANGED vars
      PROVE  ReadersCall' /\ IteratorsValid' /\ CurrentInMap' /\ DetachedGone' /\ Ahead'
  BY <1>1 DEF vars, locals, history, IInv, ReadersCall, IteratorsValid, CurrentInMap,
              DetachedGone, Ahead, Calling
<1>2. IInv /\ [Next]_vars => TypeOK'
  BY TypeNext DEF IInv
<1> QED BY <1>1, <1>2, CallKeeps, WantKeeps, ChangeKeeps DEF Next, IInv

(* IInv holds in every reachable state. *)
THEOREM Inductive == Spec => []IInv
BY IInvInit, IInvNext, PTL DEF Spec

(* TypeOK for every set of threads and every bound on the handles. *)
THEOREM TypeCorrect == Spec => []TypeOK
BY Inductive, PTL DEF IInv

(* A listener is neither running nor called once detach() has returned. *)
THEOREM DetachIsFinal == Spec => []NoCallAfterDetach
<1>1. IInv => NoCallAfterDetach
  BY DEF IInv, NoCallAfterDetach, CurrentInMap, DetachedGone, Calling
<1> QED BY <1>1, Inductive, PTL

(* The iterators of running calls stay valid. *)
THEOREM IteratorsStayValid == Spec => []IteratorsValid
BY Inductive, PTL DEF IInv

(* A listener runs, or is still to come, only while it is attached. *)
THEOREM OnlyAttachedRun == Spec => []ListenersAttached
BY DetachIsFinal, IteratorsStayValid, PTL DEF ListenersAttached

(* A step that comes to another listener comes to a later one. *)
LEMMA StepInOrder ==
    ASSUME IInv, [Next]_vars, NEW t \in Threads, last'[t] # last[t], last'[t] # 0
    PROVE  last'[t] > last[t] /\ ~cancelled[t]
<1>1. PICK r \in Threads : \E h \in todo[r] : Enter(r, h)
  <2>1. ASSUME NEW r \in Threads, CallLock(r)
        PROVE  FALSE
    BY <2>1 DEF CallLock, IInv, TypeOK
  <2> QED BY <2>1 DEF Next, vars, history, locals, Leave, CallReturn, WantAttach, WantDetach,
                      Attach, Detach
<1>4. PICK h \in todo[r] : Enter(r, h)
  BY <1>1
<1>2. r = t /\ last'[t] = h
  BY <1>4 DEF Enter, IInv, TypeOK
<1>3. last[t] < h
  BY <1>4, <1>2 DEF Enter, Go, IInv, Ahead, Calling
<1> QED BY <1>4, <1>2, <1>3 DEF Enter, IInv, TypeOK, Given

(* Listeners are called in the order they were bound, up to a cancellation. *)
THEOREM CallsInOrder == Spec => InOrderUntilCancelled
<1>1. IInv /\ [Next]_vars =>
        [ \A t \in Threads :
            last'[t] # last[t] /\ last'[t] # 0 => last'[t] > last[t] /\ ~cancelled[t] ]_vars
  BY StepInOrder
<1> QED BY <1>1, Inductive, PTL DEF Spec, InOrderUntilCancelled

(* attach() gives out a handle that no listener, past or present, has had. *)
THEOREM HandlesAreFresh == Spec => HandlesNotReused
<1>1. IInv /\ [Next]_vars =>
        [ \A h \in dispatch_container' \ dispatch_container :
            h \notin detached /\ \A g \in dispatch_container : g < h ]_vars
  <2>1. SUFFICES ASSUME IInv, [Next]_vars, NEW h \in dispatch_container' \ dispatch_container
                 PROVE  h \notin detached /\ \A g \in dispatch_container : g < h
    OBVIOUS
  <2>2. PICK t \in Threads : Attach(t)
    BY <2>1 DEF Next, vars, locals, history, CallLock, Leave, CallReturn, Enter, WantAttach,
                WantDetach, Detach
  <2>3. h = next_handle
    BY <2>1, <2>2 DEF Attach
  <2>4. next_handle \in Nat /\ dispatch_container \subseteq 1..(next_handle - 1)
        /\ detached \subseteq 1..(next_handle - 1)
    BY <2>1 DEF IInv, TypeOK, Given, Handles
  <2> QED BY <2>3, <2>4
<1> QED BY <1>1, Inductive, PTL DEF Spec, HandlesNotReused

-----------------------------------------------------------------------------
(* The collector *)

(* The collector's lambda is the one listener there is: detach() only ever   *)
(* takes it away.                                                           *)
OnlyLambda ==
    /\ next_handle = 2
    /\ dispatch_container \subseteq {1}
    /\ \A t \in Threads : pc[t] \notin {"attach", "attach in"}
    /\ \A t \in Threads : pc[t] = "detach" => arg[t] = 1

CollectingOK ==
    /\ tl \in {"live", "null"} /\ timer \in BOOLEAN
    /\ op \in [Threads -> ways \union {"none", "cancel"}]
    /\ pushing \in [Threads -> Seq(Nat)] /\ event \in [Threads -> Nat] /\ events \in Nat
    /\ stored \in Seq(Nat) /\ results \in Seq(Seq(Nat))

(* A thread in one of the ways to stop has its detach before it, and one     *)
(* that pushes is in the lambda.                                            *)
WayGoes ==
    /\ \A t \in Threads : op[t] # "none" => pc[t] \in {"idle", "detach", "detach in"}
    /\ \A t \in Threads : pushing[t] # <<0>> => pc[t] = "in" /\ op[t] = "none"

(* Behind the detach the lambda is out of the map, also for a destructor     *)
(* that leaves it out because cancel() made it.                             *)
GoneFromMap ==
    \/ \E t \in Threads : op[t] # "none" /\ pc[t] = "idle"
    \/ tl = "null" \/ ~timer
    => dispatch_container = {}

(* completed() has got its list when the timer is gone, and only then. *)
OneResult ==
    /\ timer => results = <<>>
    /\ results # <<>> => Len(results) = 1 /\ stored = results[1]

CInv == IInv /\ OnlyLambda /\ CollectingOK /\ WayGoes /\ GoneFromMap /\ OneResult

-----------------------------------------------------------------------------
LEMMA CInvInit == CInit => CInv
<1>1. SUFFICES ASSUME CInit PROVE CInv
  OBVIOUS
<1> USE <1>1 DEF CInit, LambdaAttached, CollectingInit
<1>2. IInv
  <2>1. Given = {1}
    BY DEF Given
  <2>2. TypeOK
    BY <2>1 DEF TypeOK, Handles
  <2> QED BY <2>2 DEF IInv, ReadersCall, IteratorsValid, CurrentInMap, DetachedGone, Ahead, Calling
<1>3. OnlyLambda /\ WayGoes /\ GoneFromMap /\ OneResult
  BY DEF OnlyLambda, WayGoes, GoneFromMap, OneResult
<1>4. <<0>> \in Seq(Nat) /\ <<>> \in Seq(Nat) /\ <<>> \in Seq(Seq(Nat))
  OBVIOUS
<1>5. CollectingOK
  <2>1. pushing \in [Threads -> Seq(Nat)] /\ event \in [Threads -> Nat]
    BY <1>4
  <2>2. op \in [Threads -> ways \union {"none", "cancel"}]
    OBVIOUS
  <2> QED BY <1>4, <2>1, <2>2 DEF CollectingOK
<1> QED BY <1>2, <1>3, <1>5 DEF CInv

(* What a step of the collector does to the router. *)
Routes(t) ==
    \/ CallLock(t) \/ Enter(t, 1) \/ Leave(t) \/ CallReturn(t)
    \/ WantDetach(t, 1) \/ Detach(t) \/ UNCHANGED vars

StepOf(t) ==
    \/ Deliver(t) \/ BeginInside(t) \/ Proceed(t) \/ \E way \in ways : Begin(t, way)

LEMMA StepRoutes == ASSUME NEW t \in Threads, StepOf(t) PROVE Routes(t)
BY DEF StepOf, Proceed, Routes, Deliver, Called, CallsPure, Reject, Accept, Push, Begin, BeginInside,
       Detaching, Stop, UseFreed

(* The collector's steps are steps of the router, which keeps its invariant. *)
LEMMA RoutesIsNext == ASSUME OnlyLambda, NEW t \in Threads, Routes(t) PROVE [Next]_vars
<1>1. 1 \in Given
  <2>1. next_handle = 2
    BY DEF OnlyLambda
  <2>2. 1 \in 1..(2 - 1)
    OBVIOUS
  <2> QED BY <2>1, <2>2, Zenon DEF Given
<1>2. Enter(t, 1) => \E h \in todo[t] : Enter(t, h)
  BY DEF Enter, IsNext
<1> QED BY <1>1, <1>2 DEF Routes, Next

LEMMA OnlyLambdaKept ==
    ASSUME IInv, OnlyLambda, NEW t \in Threads, Routes(t) PROVE OnlyLambda'
<1> USE DEF OnlyLambda, IInv, TypeOK, Go
<1>1. CASE CallLock(t) \/ Enter(t, 1) \/ Leave(t) \/ CallReturn(t)
  <2>1. UNCHANGED <<next_handle, dispatch_container, arg>>
    BY <1>1 DEF CallLock, Enter, Leave, CallReturn, locals
  <2>2. /\ pc'[t] \in {"idle", "calling", "in"}
        /\ \A r \in Threads \ {t} : pc'[r] = pc[r]
    BY <1>1 DEF CallLock, Enter, Leave, CallReturn
  <2> QED BY <2>1, <2>2
<1>4. CASE UNCHANGED vars
  BY <1>4 DEF vars, locals
<1>2. CASE WantDetach(t, 1)
  BY <1>2 DEF WantDetach
<1>3. CASE Detach(t)
  BY <1>3 DEF Detach, locals
<1> QED BY <1>1, <1>2, <1>3, <1>4 DEF Routes

(* Facts about lists of lists. *)
LEMMA AppendList ==
    ASSUME NEW lists \in Seq(Seq(Nat)), NEW list \in Seq(Nat)
    PROVE  Append(lists, list) \in Seq(Seq(Nat))
BY AppendProperties

LEMMA AtMostOne == ASSUME NEW lists, lists = <<>> \/ Len(lists) = 1 PROVE Len(lists) <= 1
<1>1. Len(<<>>) = 0
  OBVIOUS
<1>2. CASE lists = <<>>
  BY <1>1, <1>2
<1>3. CASE Len(lists) = 1
  BY <1>3
<1> QED BY <1>2, <1>3

LEMMA CollectingOKKept ==
    ASSUME CollectingOK, NEW t \in Threads, StepOf(t), UNCHANGED ways PROVE CollectingOK'
<1> USE DEF CollectingOK
<1>1. CASE Deliver(t)
  BY <1>1 DEF Deliver, collector
<1>2. CASE BeginInside(t)
  BY <1>2 DEF BeginInside, collector, observed
<1>3. CASE Called(t) \/ CallsPure(t) \/ Reject(t) \/ Detaching(t) \/ UseFreed(t)
  BY <1>3 DEF Called, CallsPure, Reject, Detaching, UseFreed, collector, observed
<1>4. CASE Accept(t)
  BY <1>4 DEF Accept, collector
<1>5. CASE Push(t)
  BY <1>5 DEF Push, observed
<1>6. CASE Stop(t)
  <2>1. results' \in Seq(Seq(Nat))
    <3>1. results' = results \/ results' = Append(results, stored)
      BY <1>6 DEF Stop, OnStop
    <3> QED BY <3>1, AppendList
  <2>2. tl' \in {"live", "null"} /\ timer' \in BOOLEAN
    BY <1>6 DEF Stop
  <2>3. op' \in [Threads -> ways \union {"none", "cancel"}]
    BY <1>6 DEF Stop
  <2> QED BY <1>6, <2>1, <2>2, <2>3 DEF Stop
<1>7. ASSUME NEW way \in ways, Begin(t, way) PROVE CollectingOK'
  BY <1>7 DEF Begin, observed
<1> QED BY <1>1, <1>2, <1>3, <1>4, <1>5, <1>6, <1>7 DEF StepOf, Proceed

LEMMA WayGoesKept ==
    ASSUME IInv, OnlyLambda, CollectingOK, WayGoes, NEW t \in Threads, StepOf(t), UNCHANGED ways
    PROVE  WayGoes'
<1> USE DEF WayGoes, IInv, TypeOK, CollectingOK, Go
<1>1. CASE Deliver(t)
  BY <1>1 DEF Deliver, Free, CallLock
<1>2. CASE BeginInside(t)
  BY <1>2 DEF BeginInside, WantDetach
<1>3. CASE Called(t) \/ CallsPure(t)
  BY <1>3 DEF Called, CallsPure, Enter, CallReturn
<1>4. CASE Reject(t)
  BY <1>4 DEF Reject, Leave
<1>5. CASE Accept(t)
  BY <1>5 DEF Accept, vars
<1>6. CASE Push(t)
  BY <1>6 DEF Push, Leave
<1>7. CASE Detaching(t)
  BY <1>7 DEF Detaching, Detach
<1>8. CASE Stop(t)
  BY <1>8 DEF Stop, vars
<1>9. CASE UseFreed(t)
  BY <1>9 DEF UseFreed, vars
<1>10. ASSUME NEW way \in ways, Begin(t, way) PROVE WayGoes'
  BY <1>10 DEF Begin, Free, WantDetach, vars
<1> QED BY <1>1, <1>2, <1>3, <1>4, <1>5, <1>6, <1>7, <1>8, <1>9, <1>10 DEF StepOf, Proceed

(* The lambda is out of the map when its way to the stop is past the detach; *)
(* nothing puts it back.                                                    *)
LEMMA GoneFromMapKept ==
    ASSUME IInv, OnlyLambda, CollectingOK, WayGoes, GoneFromMap, NEW t \in Threads, StepOf(t)
    PROVE  GoneFromMap'
<1> USE DEF IInv, TypeOK, CollectingOK, Go
<1>0. Routes(t)
  BY StepRoutes
<1>1. dispatch_container' \subseteq dispatch_container
  BY <1>0 DEF Routes, CallLock, Enter, Leave, CallReturn, WantDetach, Detach, vars
<1>2. CASE Deliver(t)
  BY <1>1, <1>2 DEF Deliver, Free, CallLock, GoneFromMap, collector
<1>3. CASE BeginInside(t)
  BY <1>1, <1>3 DEF BeginInside, WantDetach, GoneFromMap, collector
<1>4. CASE Called(t) \/ CallsPure(t)
  BY <1>1, <1>4 DEF Called, CallsPure, Enter, CallReturn, WayGoes, GoneFromMap, collector
<1>5. CASE Reject(t) \/ Push(t)
  BY <1>1, <1>5 DEF Reject, Push, Leave, GoneFromMap, collector
<1>6. CASE Accept(t) \/ UseFreed(t)
  BY <1>1, <1>6 DEF Accept, UseFreed, vars, GoneFromMap, collector
<1>7. CASE Detaching(t)
  <2>1. arg[t] = 1
    BY <1>7 DEF Detaching, Detach, OnlyLambda
  <2> QED BY <1>7, <2>1 DEF Detaching, Detach, OnlyLambda, GoneFromMap
<1>8. CASE Stop(t)
  BY <1>1, <1>8 DEF Stop, GoneFromMap, vars
<1>9. ASSUME NEW way \in ways, Begin(t, way) PROVE GoneFromMap'
  BY <1>1, <1>9 DEF Begin, Free, WantDetach, vars, GoneFromMap
<1> QED BY <1>2, <1>3, <1>4, <1>5, <1>6, <1>7, <1>8, <1>9 DEF StepOf, Proceed

(* The list is complete when completed() gets it: the lambda is out of the   *)
(* map, and nobody is inside one that is not in it.                         *)
LEMMA OneResultKept ==
    ASSUME IInv, CollectingOK, WayGoes, GoneFromMap, OneResult, NEW t \in Threads, StepOf(t)
    PROVE  OneResult'
<1>1. CASE Push(t)
  <2>1. last[t] \in dispatch_container
    BY <1>1 DEF Push, WayGoes, IInv, CurrentInMap
  <2>2. timer
    BY <2>1 DEF GoneFromMap, CollectingOK
  <2> QED BY <1>1, <2>2 DEF Push, OneResult, observed
<1>2. CASE Stop(t)
  <2>1. CASE results' = Append(results, stored) /\ timer
    BY <1>2, <2>1 DEF OneResult, CollectingOK, Stop
  <2>2. CASE results' = results
    BY <1>2, <2>2 DEF OneResult, Stop
  <2> QED BY <1>2, <2>1, <2>2 DEF Stop, OnStop
<1>3. CASE Deliver(t) \/ BeginInside(t) \/ Called(t) \/ CallsPure(t) \/ Reject(t) \/ Accept(t)
           \/ Detaching(t) \/ UseFreed(t) \/ \E way \in ways : Begin(t, way)
  <2>1. UNCHANGED <<timer, results, stored>>
    BY <1>3 DEF Deliver, BeginInside, Called, CallsPure, Reject, Accept, Detaching, UseFreed, Begin,
                collector, observed
  <2> QED BY <2>1 DEF OneResult
<1> QED BY <1>1, <1>2, <1>3 DEF StepOf, Proceed

LEMMA CInvNext == CInv /\ [CNext]_allVars => CInv'
<1>1. ASSUME CInv, NEW t \in Threads, StepOf(t), UNCHANGED ways PROVE CInv'
  BY <1>1, StepRoutes, RoutesIsNext, IInvNext, OnlyLambdaKept, CollectingOKKept, WayGoesKept,
     GoneFromMapKept, OneResultKept DEF CInv
<1>2. ASSUME CInv, UNCHANGED allVars PROVE CInv'
  <2>1. IInv'
    BY <1>2, IInvNext DEF CInv, allVars
  <2> QED BY <1>2, <2>1 DEF CInv, allVars, vars, locals, history, collecting, collector, observed,
                            OnlyLambda, CollectingOK, WayGoes, GoneFromMap, OneResult
<1>3. ASSUME CInv, Construct, UNCHANGED ways PROVE CInv'
  <2>1. UNCHANGED <<vars, stored, triggered, tl, timer, op, pushing, event, observed, ways>>
    BY <1>3 DEF Construct
  <2>2. IInv'
    BY <2>1, <1>3, IInvNext DEF CInv
  <2> QED BY <1>3, <2>1, <2>2 DEF CInv, vars, locals, observed, OnlyLambda, CollectingOK, WayGoes,
                                  GoneFromMap, OneResult
<1> QED BY <1>1, <1>2, <1>3 DEF CNext, StepOf

THEOREM CollectorInductive == CSpec => []CInv
BY CInvInit, CInvNext, PTL DEF CSpec

(* completed() is called at most once, and what it got is the list as it     *)
(* stays, with nobody in the lambda, for every number of threads and events *)
(* and every combination of the ways.                                       *)
THEOREM CompletesOnce == CSpec => []CompletedOnce
<1>1. CInv => CompletedOnce
  <2>1. SUFFICES ASSUME CInv PROVE CompletedOnce
    OBVIOUS
  <2>2. Len(results) <= 1
    <3>1. results = <<>> \/ Len(results) = 1
      BY <2>1 DEF CInv, OneResult
    <3> QED BY <3>1, AtMostOne
  <2>3. ASSUME results # <<>>, NEW t \in Threads
        PROVE  pc[t] \notin {"in", "detach in"} /\ pushing[t] = <<0>>
    <3>1. dispatch_container = {}
      BY <2>1, <2>3 DEF CInv, OneResult, GoneFromMap, CollectingOK
    <3> QED BY <2>1, <3>1 DEF CInv, IInv, CurrentInMap, WayGoes
  <2> QED BY <2>1, <2>2, <2>3 DEF CInv, OneResult, CompletedOnce
<1> QED BY <1>1, CollectorInductive, PTL

(* A listener that a collector uses runs only while it is attached. *)
THEOREM CollectorListens == CSpec => []ListenersAttached
<1>1. CInv => ListenersAttached
  BY DEF CInv, IInv, ListenersAttached, NoCallAfterDetach, CurrentInMap, DetachedGone, Calling
<1> QED BY <1>1, CollectorInductive, PTL
=============================================================================
