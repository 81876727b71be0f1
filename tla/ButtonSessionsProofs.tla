------------------------ MODULE ButtonSessionsProofs ------------------------
(***************************************************************************)
(* Proofs about ButtonSessions, for every set of threads and of callbacks, *)
(* every width of the id and of long int, and every cache_duration.        *)
(***************************************************************************)
EXTENDS ButtonSessions, TLAPS

-----------------------------------------------------------------------------
(* Helpers *)

(* std::time_t to long int never gives more than it was given ... *)
LEMMA LongAtMost == \A time \in Nat : Long(time) \in Int /\ Long(time) <= time
<1> SUFFICES ASSUME NEW time \in Nat
             PROVE  Long(time) \in Int /\ Long(time) <= time
  OBVIOUS
<1> DEFINE half == LongMax + 1
           m    == 2 * half
           y    == time + LongMax + 1
<1>1. half \in Nat \ {0} /\ m \in Nat \ {0} /\ y \in Nat
  BY WidthsArePositive
<1> HIDE DEF m, y
<1>2. y % m <= y /\ y % m \in 0..(m - 1)
  BY <1>1
<1>3. Long(time) = (y % m) - half
  BY DEF Long, m, y
<1>4. y = time + half
  BY WidthsArePositive DEF y
<1> HIDE DEF half
<1> QED BY <1>1, <1>2, <1>3, <1>4

(* ... and is exact as long as the time fits. *)
LEMMA LongExact == \A time \in Nat : time <= LongMax => Long(time) = time
<1> SUFFICES ASSUME NEW time \in Nat, time <= LongMax
             PROVE  Long(time) = time
  OBVIOUS
<1> DEFINE half == LongMax + 1
           m    == 2 * half
           y    == time + LongMax + 1
<1>1. half \in Nat \ {0} /\ m \in Nat \ {0} /\ y \in Nat /\ y < m
  BY WidthsArePositive
<1>2. Long(time) = (y % m) - half
  BY DEF Long
<1>3. y = time + half
  BY WidthsArePositive
<1> HIDE DEF m, y
<1>4. y % m = y
  BY <1>1
<1> HIDE DEF half
<1> QED BY <1>1, <1>2, <1>3, <1>4

(* A drawn id is in range. *)
LEMMA NextIdType == TypeOK => NextId \in Ids
BY WidthsArePositive DEF TypeOK, NextId, Ids

LEMMA ExpiryIsMonotonic ==
    ASSUME NEW session \in Sessions, NEW early \in Nat, NEW late \in Nat, early <= late,
           ExpiredAt(session, early)
    PROVE  ExpiredAt(session, late)
<1> DEFINE limit == session.cache_duration * Minute
<1>1. session.created_at \in Nat /\ session.cache_duration \in Nat
  BY DurationsAreNat DEF Sessions
<1>2. limit \in Nat
  BY <1>1, WidthsArePositive
<1>3. early - session.created_at > limit
  BY DEF ExpiredAt
<1> HIDE DEF limit
<1>4. late - session.created_at > limit
  BY <1>1, <1>2, <1>3
<1> QED BY <1>4 DEF limit, ExpiredAt

(* Taking sessions out of the map, and putting one in. *)
LEMMA WithoutType ==
    ASSUME TypeOK, NEW id
    PROVE  /\ DOMAIN Without(id) = Live \ {id}
           /\ Without(id) \in [Live \ {id} -> Sessions]
           /\ \A i \in Live \ {id} : Without(id)[i] = cached_sessions[i]
BY DEF Without, TypeOK, Live

LEMMA WithType ==
    ASSUME TypeOK, NEW id, NEW session \in Sessions
    PROVE  /\ DOMAIN With(id, session) = Live \union {id}
           /\ With(id, session) \in [Live \union {id} -> Sessions]
           /\ With(id, session)[id] = session
           /\ \A i \in Live \ {id} : With(id, session)[i] = cached_sessions[i]
BY DEF With, TypeOK, Live

-----------------------------------------------------------------------------
(* Type correctness *)

LEMMA TypeInit == Init => TypeOK
<1> SUFFICES ASSUME Init PROVE TypeOK
  OBVIOUS
<1>1. DOMAIN cached_sessions = {} /\ cached_sessions \in [{} -> Sessions]
  BY DEF Init
<1>2. pc \in [Threads -> Steps] /\ \A t \in Threads : pc[t] = "idle"
  BY DEF Init, Steps, Resting
<1>3. custom_id_counter \in 0..MaxId
  BY WidthsArePositive DEF Init
<1> QED BY <1>1, <1>2, <1>3 DEF Init, TypeOK, Binding, Clicking

LEMMA TypeNext == TypeOK /\ [Next]_vars => TypeOK'
<1> SUFFICES ASSUME TypeOK, [Next]_vars
             PROVE  TypeOK'
  OBVIOUS
<1> USE DEF cacheVars, observed, Steps, Resting, Binding, Clicking
<1>1. ASSUME NEW t \in Threads, NEW fn \in Callbacks, NEW duration \in Durations,
             BindCall(t, fn, duration)
      PROVE  TypeOK'
  <2>1. [fn |-> fn, cache_duration |-> duration] \in Calls
    BY DEF Calls
  <2> QED BY <1>1, <2>1 DEF BindCall, TypeOK
<1>2. ASSUME NEW t \in Threads, NEW component \in components, ClickCall(t, component)
      PROVE  TypeOK'
  BY <1>2 DEF ClickCall, TypeOK
<1>3. ASSUME NEW t \in Threads, ClearLock(t) PROVE TypeOK'
  BY <1>3 DEF ClearLock, Take, TypeOK, Live
<1>4. ASSUME NEW t \in Threads, BindLock(t) PROVE TypeOK'
  BY <1>4 DEF BindLock, Take, TypeOK
<1>5. ASSUME NEW t \in Threads, ClickLock(t) PROVE TypeOK'
  BY <1>5 DEF ClickLock, Take, TypeOK
<1>6. ASSUME NEW t \in Threads, NEW id \in todo[t], Sweep(t, id) PROVE TypeOK'
  <2>1. /\ DOMAIN cached_sessions' \subseteq Ids
        /\ cached_sessions' \in [DOMAIN cached_sessions' -> Sessions]
    BY <1>6, WithoutType DEF Sweep, TypeOK, Live
  <2> QED BY <1>6, <2>1 DEF Sweep, TypeOK
<1>7. ASSUME NEW t \in Threads, ClearUnlock(t) PROVE TypeOK'
  BY <1>7 DEF ClearUnlock, TypeOK
<1>8. ASSUME NEW t \in Threads, Draw(t) PROVE TypeOK'
  <2> DEFINE session   == [created_at |-> now, cache_duration |-> arg[t].cache_duration,
                           function |-> arg[t].fn]
             component == [id |-> NextId, stamp |-> Stamp, fn |-> arg[t].fn, born |-> now]
  <2>1. NextId \in Ids /\ Ids \subseteq 0..MaxId
    BY NextIdType, WidthsArePositive DEF Ids
  <2>2. arg[t] \in Calls
    BY <1>8 DEF Draw, TypeOK
  <2>3. now \in Nat
    BY DEF TypeOK
  <2>4. session \in Sessions
    BY <2>2, <2>3 DEF Calls, Sessions
  <2>5. component \in Components
    BY <2>1, <2>2, <2>3, LongAtMost DEF Calls, Components, Stamp
  <2> HIDE DEF session, component
  <2>6. CASE Taken(NextId)
    BY <1>8, <2>1, <2>6 DEF Draw, TypeOK
  <2>7. CASE ~Taken(NextId)
    <3>1. cached_sessions' = With(NextId, session) /\ Return(t, "idle")
          /\ components' = components \union {component}
      BY <1>8, <2>7 DEF Draw, session, component
    <3>2. /\ DOMAIN cached_sessions' \subseteq Ids
          /\ cached_sessions' \in [DOMAIN cached_sessions' -> Sessions]
      <4>1. /\ DOMAIN cached_sessions' = Live \union {NextId}
            /\ cached_sessions' \in [Live \union {NextId} -> Sessions]
        BY <2>4, <3>1, WithType
      <4>2. Live \subseteq Ids
        BY DEF TypeOK, Live
      <4> QED BY <2>1, <4>1, <4>2
    <3> QED BY <1>8, <2>1, <2>5, <3>1, <3>2 DEF Draw, Return, TypeOK
  <2> QED BY <2>6, <2>7
<1>9. ASSUME NEW t \in Threads, Lookup(t) PROVE TypeOK'
  BY <1>9 DEF Lookup, Return, TypeOK
<1>10. ASSUME NEW t \in Threads, Forget(t) PROVE TypeOK'
  <2>1. /\ DOMAIN cached_sessions' \subseteq Ids
        /\ cached_sessions' \in [DOMAIN cached_sessions' -> Sessions]
    BY <1>10, WithoutType DEF Forget, TypeOK, Live
  <2>2. arg[t].fn \in Callbacks
    BY <1>10 DEF Forget, TypeOK, Components
  <2> QED BY <1>10, <2>1, <2>2 DEF Forget, Return, TypeOK
<1>11. ASSUME NEW t \in Threads, Keep(t) PROVE TypeOK'
  BY <1>11 DEF Keep, Return, TypeOK
<1>12. ASSUME NEW t \in Threads, Rebind(t) PROVE TypeOK'
  BY <1>12 DEF Rebind, TypeOK
<1>13. CASE Tick
  BY <1>13 DEF Tick, TypeOK
<1>14. CASE Restart
  <2>1. DOMAIN cached_sessions' = {} /\ cached_sessions' \in [{} -> Sessions]
    BY <1>14 DEF Restart
  <2>2. custom_id_counter' \in 0..MaxId
    BY <1>14, WidthsArePositive DEF Restart
  <2> QED BY <1>14, <2>1, <2>2 DEF Restart, TypeOK
<1>15. CASE UNCHANGED vars
  BY <1>15 DEF vars, TypeOK
<1> QED BY <1>1, <1>2, <1>3, <1>4, <1>5, <1>6, <1>7, <1>8, <1>9, <1>10, <1>11, <1>12,
           <1>13, <1>14, <1>15 DEF Next, Hold

(* Every variable keeps its type, whatever the threads, the clock and the   *)
(* process do: ids stay in the width of the counter.                        *)
THEOREM TypeCorrect == Spec => []TypeOK
BY TypeInit, TypeNext, PTL DEF Spec

-----------------------------------------------------------------------------
(* The inductive invariant, part by part *)

(* The one thread in a critical section is the one that holds the mutex. *)
Mutex == \A t \in Threads : pc[t] \in Critical <=> holder = t

(* Each callback is bound to one component, by one call. *)
BoundOnce ==
    /\ \A c, d \in components : c.fn = d.fn => c = d
    /\ \A t \in Threads : pc[t] \in Binding => \A c \in components : c.fn # arg[t].fn
    /\ \A t, r \in Threads :
          pc[t] \in Binding /\ pc[r] \in Binding /\ arg[t].fn = arg[r].fn => t = r

(* The second of its birth is in the stamp, and tells the components of an  *)
(* id apart.                                                                *)
Births ==
    /\ sweptAt <= now
    /\ \A c \in components : /\ c.stamp = Long(c.born)
                             /\ c.born <= now
                             /\ c.born = now => c.id \in drawn
    /\ \A c, d \in components : c.id = d.id /\ c.born = d.born => c = d

(* A session belongs to the youngest component of its id. *)
OfYoungest ==
    \A id \in Live :
        /\ \E c \in components : /\ c.id = id
                                 /\ c.fn = cached_sessions[id].function
                                 /\ c.born = cached_sessions[id].created_at
        /\ \A c \in components : c.id = id => c.born <= cached_sessions[id].created_at

(* A callback that asked to be forgotten was bound, and has no session. *)
NoneForgotten ==
    /\ \A fn \in forgotten : \E c \in components : c.fn = fn
    /\ \A id \in Live : cached_sessions[id].function \notin forgotten

(* The sessions that clear() has passed had not expired when it began. *)
Sweeping ==
    \A t \in Threads :
        pc[t] = "sweep" =>
            \A id \in Live \ todo[t] : ~ExpiredAt(cached_sessions[id], sweptAt)

IInv == /\ TypeOK /\ Mutex /\ BoundOnce /\ Births /\ OfYoungest /\ NoneForgotten /\ Sweeping
        /\ ClickRunsBoundFunction /\ NoRunAfterForget

LEMMA IInvInit == Init => IInv
<1> SUFFICES ASSUME Init PROVE IInv
  OBVIOUS
<1>1. TypeOK
  BY TypeInit
<1>2. \A t \in Threads : pc[t] = "idle"
  BY DEF Init
<1>3. components = {} /\ forgotten = {} /\ sweptAt = 0 /\ now = 0 /\ holder = None
  BY DEF Init
<1>4. Live = {}
  BY DEF Init, Live
<1>5. Mutex
  BY <1>2, <1>3, NoneIsNoThread DEF Mutex, Critical
<1>6. BoundOnce
  BY <1>2, <1>3 DEF BoundOnce, Binding
<1>7. Births
  BY <1>3 DEF Births
<1>8. OfYoungest /\ NoneForgotten
  BY <1>3, <1>4 DEF OfYoungest, NoneForgotten
<1>9. Sweeping /\ ClickRunsBoundFunction /\ NoRunAfterForget
  BY <1>2 DEF Sweeping, ClickRunsBoundFunction, NoRunAfterForget
<1> QED BY <1>1, <1>5, <1>6, <1>7, <1>8, <1>9 DEF IInv

(* Mutual exclusion *)
LEMMA MutexNext == TypeOK /\ Mutex /\ [Next]_vars => Mutex'
<1> SUFFICES ASSUME TypeOK, Mutex, [Next]_vars
             PROVE  Mutex'
  OBVIOUS
<1> USE NoneIsNoThread DEF Critical, Resting
<1>0. pc \in [Threads -> Steps]
  BY DEF TypeOK
<1>1. ASSUME NEW t \in Threads, NEW fn \in Callbacks, NEW duration \in Durations,
             BindCall(t, fn, duration)
      PROVE  Mutex'
  BY <1>0, <1>1 DEF BindCall, Mutex
<1>2. ASSUME NEW t \in Threads, NEW component \in components, ClickCall(t, component)
      PROVE  Mutex'
  BY <1>0, <1>2 DEF ClickCall, Mutex
<1>3. ASSUME NEW t \in Threads, ClearLock(t) \/ BindLock(t) \/ ClickLock(t) PROVE Mutex'
  BY <1>0, <1>3 DEF ClearLock, BindLock, ClickLock, Take, Mutex
<1>4. ASSUME NEW t \in Threads, NEW id \in todo[t], Sweep(t, id) PROVE Mutex'
  BY <1>4 DEF Sweep, Mutex
<1>5. ASSUME NEW t \in Threads, ClearUnlock(t) PROVE Mutex'
  BY <1>0, <1>5 DEF ClearUnlock, Mutex
<1>6. ASSUME NEW t \in Threads, Draw(t) PROVE Mutex'
  BY <1>0, <1>6 DEF Draw, Return, Mutex
<1>7. ASSUME NEW t \in Threads, Lookup(t) PROVE Mutex'
  BY <1>0, <1>7 DEF Lookup, Return, Mutex
<1>8. ASSUME NEW t \in Threads, Forget(t) \/ Keep(t) PROVE Mutex'
  BY <1>0, <1>8 DEF Forget, Keep, Return, Mutex
<1>9. ASSUME NEW t \in Threads, Rebind(t) PROVE Mutex'
  BY <1>0, <1>9 DEF Rebind, Mutex
<1>10. CASE Tick
  BY <1>10 DEF Tick, Mutex
<1>11. CASE Restart
  BY <1>11 DEF Restart, Mutex
<1>12. CASE UNCHANGED vars
  BY <1>12 DEF vars, Mutex
<1> QED BY <1>1, <1>2, <1>3, <1>4, <1>5, <1>6, <1>7, <1>8, <1>9, <1>10, <1>11, <1>12
        DEF Next, Hold

-----------------------------------------------------------------------------
(* What a drawn id does *)

(* The session and the component that Draw(t) makes. *)
NewSession(t)   == [created_at |-> now, cache_duration |-> arg[t].cache_duration,
                    function |-> arg[t].fn]
NewComponent(t) == [id |-> NextId, stamp |-> Stamp, fn |-> arg[t].fn, born |-> now]

LEMMA DrawBinds ==
    ASSUME TypeOK, NEW t \in Threads, Draw(t)
    PROVE  /\ NextId \notin drawn /\ drawn' = drawn \union {NextId}
           /\ UNCHANGED <<now, todo, forgotten, sweptAt>>
           /\ pc[t] = "draw" /\ arg[t] \in Calls
           /\ \/ /\ UNCHANGED <<cached_sessions, components, pc, arg>>
              \/ /\ NextId \notin Live
                 /\ Live' = Live \union {NextId}
                 /\ cached_sessions'[NextId] = NewSession(t)
                 /\ \A id \in Live : cached_sessions'[id] = cached_sessions[id]
                 /\ components' = components \union {NewComponent(t)}
                 /\ pc' = [pc EXCEPT ![t] = "idle"]
                 /\ arg' = [arg EXCEPT ![t] = NoArg]
<1>1. /\ NextId \notin drawn /\ drawn' = drawn \union {NextId}
      /\ UNCHANGED <<now, todo, forgotten, sweptAt>>
      /\ pc[t] = "draw"
  BY DEF Draw
<1>2. arg[t] \in Calls /\ now \in Nat
  BY <1>1 DEF TypeOK, Binding
<1>3. CASE Taken(NextId)
  BY <1>1, <1>2, <1>3 DEF Draw
<1>4. CASE ~Taken(NextId)
  <2>1. NewSession(t) \in Sessions
    BY <1>2 DEF NewSession, Calls, Sessions
  <2>2. /\ cached_sessions' = With(NextId, NewSession(t))
        /\ components' = components \union {NewComponent(t)}
        /\ pc' = [pc EXCEPT ![t] = "idle"]
        /\ arg' = [arg EXCEPT ![t] = NoArg]
    BY <1>4 DEF Draw, Return, NewSession, NewComponent
  <2>3. NextId \notin Live
    BY <1>4 DEF Taken
  <2>4. /\ Live' = Live \union {NextId}
        /\ cached_sessions'[NextId] = NewSession(t)
        /\ \A id \in Live : cached_sessions'[id] = cached_sessions[id]
    BY <2>1, <2>2, <2>3, WithType DEF Live
  <2> QED BY <1>1, <1>2, <2>2, <2>3, <2>4
<1> QED BY <1>3, <1>4

(* Sweep and Forget leave every session but one as it is. *)
LEMMA Dropped ==
    ASSUME TypeOK, NEW gone, cached_sessions' = Without(gone)
    PROVE  /\ Live' = Live \ {gone}
           /\ \A id \in Live' : cached_sessions'[id] = cached_sessions[id]
BY WithoutType DEF Live

(* Sessions, components and forgotten callbacks change in these steps only. *)
Changes(t) == (\E id \in todo[t] : Sweep(t, id)) \/ Draw(t) \/ Forget(t)

LEMMA Writers ==
    ASSUME [Next]_vars
    PROVE  \/ UNCHANGED <<cached_sessions, components, forgotten>>
           \/ \E t \in Threads : Changes(t)
           \/ Restart
<1> USE DEF cacheVars, observed
<1>1. ASSUME NEW t \in Threads, NEW fn \in Callbacks, NEW duration \in Durations,
             BindCall(t, fn, duration)
      PROVE  UNCHANGED <<cached_sessions, components, forgotten>>
  BY <1>1 DEF BindCall
<1>2. ASSUME NEW t \in Threads, NEW component \in components, ClickCall(t, component)
      PROVE  UNCHANGED <<cached_sessions, components, forgotten>>
  BY <1>2 DEF ClickCall
<1>3. ASSUME NEW t \in Threads, ClearLock(t) \/ BindLock(t) \/ ClickLock(t)
      PROVE  UNCHANGED <<cached_sessions, components, forgotten>>
  BY <1>3 DEF ClearLock, BindLock, ClickLock
<1>4. ASSUME NEW t \in Threads, ClearUnlock(t) \/ Lookup(t) \/ Keep(t) \/ Rebind(t)
      PROVE  UNCHANGED <<cached_sessions, components, forgotten>>
  BY <1>4 DEF ClearUnlock, Lookup, Keep, Rebind
<1>5. CASE Tick
  BY <1>5 DEF Tick
<1>6. CASE UNCHANGED vars
  BY <1>6 DEF vars
<1> QED BY <1>1, <1>2, <1>3, <1>4, <1>5, <1>6 DEF Next, Hold, Changes

-----------------------------------------------------------------------------
(* Each part is kept *)

LEMMA BoundOnceNext == TypeOK /\ BoundOnce /\ [Next]_vars => BoundOnce'
<1> SUFFICES ASSUME TypeOK, BoundOnce, [Next]_vars
             PROVE  BoundOnce'
  OBVIOUS
<1> USE DEF Binding, Clicking, Resting, cacheVars, observed
<1>0. pc \in [Threads -> Steps] /\ DOMAIN arg = Threads
  BY DEF TypeOK
<1>1. ASSUME NEW t \in Threads, NEW fn \in Callbacks, NEW duration \in Durations,
             BindCall(t, fn, duration)
      PROVE  BoundOnce'
  <2>1. /\ \A c \in components : c.fn # fn
        /\ \A r \in Threads : pc[r] \in Binding => arg[r].fn # fn
    BY <1>1 DEF BindCall, Bound
  <2>2. /\ components' = components
        /\ pc' = [pc EXCEPT ![t] = "clear"]
        /\ \A r \in Threads \ {t} : arg'[r] = arg[r]
        /\ arg'[t] = [fn |-> fn, cache_duration |-> duration]
    BY <1>0, <1>1 DEF BindCall
  <2> QED BY <1>0, <2>1, <2>2 DEF BoundOnce
<1>2. ASSUME NEW t \in Threads, NEW component \in components, ClickCall(t, component)
      PROVE  BoundOnce'
  BY <1>0, <1>2 DEF ClickCall, BoundOnce
<1>3. ASSUME NEW t \in Threads, ClearLock(t) \/ BindLock(t) \/ ClickLock(t)
      PROVE  BoundOnce'
  BY <1>0, <1>3 DEF ClearLock, BindLock, ClickLock, Take, BoundOnce
<1>4. ASSUME NEW t \in Threads, NEW id \in todo[t], Sweep(t, id) PROVE BoundOnce'
  BY <1>4 DEF Sweep, BoundOnce
<1>5. ASSUME NEW t \in Threads, ClearUnlock(t) PROVE BoundOnce'
  BY <1>0, <1>5 DEF ClearUnlock, BoundOnce
<1>6. ASSUME NEW t \in Threads, Draw(t) PROVE BoundOnce'
  <2>1. NewComponent(t).fn = arg[t].fn /\ pc[t] = "draw"
    BY <1>6 DEF NewComponent, Draw
  <2> QED BY <1>0, <1>6, <2>1, DrawBinds DEF BoundOnce
<1>7. ASSUME NEW t \in Threads, Lookup(t) PROVE BoundOnce'
  BY <1>0, <1>7 DEF Lookup, Return, BoundOnce
<1>8. ASSUME NEW t \in Threads, Forget(t) \/ Keep(t) PROVE BoundOnce'
  BY <1>0, <1>8 DEF Forget, Keep, Return, BoundOnce
<1>9. ASSUME NEW t \in Threads, Rebind(t) PROVE BoundOnce'
  BY <1>0, <1>9 DEF Rebind, BoundOnce
<1>10. CASE Tick
  BY <1>10 DEF Tick, BoundOnce
<1>11. CASE Restart
  BY <1>11 DEF Restart, BoundOnce
<1>12. CASE UNCHANGED vars
  BY <1>12 DEF vars, BoundOnce
<1> QED BY <1>1, <1>2, <1>3, <1>4, <1>5, <1>6, <1>7, <1>8, <1>9, <1>10, <1>11, <1>12
        DEF Next, Hold

LEMMA BirthsNext == TypeOK /\ Births /\ [Next]_vars => Births'
<1> SUFFICES ASSUME TypeOK, Births, [Next]_vars
             PROVE  Births'
  OBVIOUS
<1> USE DEF cacheVars, observed
<1>0. /\ now \in Nat /\ sweptAt \in Nat
      /\ \A c \in components : c.born \in Nat
  BY DEF TypeOK, Components
<1>1. ASSUME UNCHANGED <<components, now, drawn>>, sweptAt' \in {sweptAt, now}
      PROVE  Births'
  BY <1>0, <1>1 DEF Births
<1>2. ASSUME NEW t \in Threads, Draw(t) PROVE Births'
  <2> DEFINE c == NewComponent(t)
  <2>1. c.id = NextId /\ c.stamp = Long(now) /\ c.born = now
    BY DEF NewComponent, Stamp
  <2>2. NextId \notin drawn /\ drawn' = drawn \union {NextId} /\ UNCHANGED <<now, sweptAt>>
        /\ components' \subseteq components \union {c} /\ components \subseteq components'
    BY <1>2, DrawBinds
  <2> HIDE DEF c
  <2>3. \A d \in components : d.born = c.born => d.id # c.id
    BY <2>1, <2>2 DEF Births
  <2> QED BY <1>0, <2>1, <2>2, <2>3 DEF Births
<1>3. ASSUME components' = components, now' = now + 1, drawn' = {}, sweptAt' = sweptAt
      PROVE  Births'
  BY <1>0, <1>3 DEF Births
<1>4. ASSUME NEW t \in Threads, NEW fn \in Callbacks, NEW duration \in Durations,
             BindCall(t, fn, duration)
      PROVE  Births'
  BY <1>1, <1>4 DEF BindCall
<1>5. ASSUME NEW t \in Threads, NEW component \in components, ClickCall(t, component)
      PROVE  Births'
  BY <1>1, <1>5 DEF ClickCall
<1>6. ASSUME NEW t \in Threads, ClearLock(t) \/ BindLock(t) \/ ClickLock(t) PROVE Births'
  BY <1>1, <1>6 DEF ClearLock, BindLock, ClickLock
<1>7. ASSUME NEW t \in Threads, NEW id \in todo[t], Sweep(t, id) PROVE Births'
  BY <1>1, <1>7 DEF Sweep
<1>8. ASSUME NEW t \in Threads, ClearUnlock(t) \/ Lookup(t) \/ Forget(t) \/ Keep(t) \/ Rebind(t)
      PROVE  Births'
  BY <1>1, <1>8 DEF ClearUnlock, Lookup, Forget, Keep, Rebind
<1>9. CASE Tick
  BY <1>3, <1>9 DEF Tick
<1>10. CASE Restart
  BY <1>3, <1>10 DEF Restart
<1>11. CASE UNCHANGED vars
  BY <1>1, <1>11 DEF vars
<1> QED BY <1>2, <1>4, <1>5, <1>6, <1>7, <1>8, <1>9, <1>10, <1>11 DEF Next, Hold

LEMMA OfYoungestNext == TypeOK /\ Births /\ OfYoungest /\ [Next]_vars => OfYoungest'
<1> SUFFICES ASSUME TypeOK, Births, OfYoungest, [Next]_vars
             PROVE  OfYoungest'
  OBVIOUS
<1>1. CASE UNCHANGED <<cached_sessions, components, forgotten>>
  BY <1>1 DEF OfYoungest, Live
<1>2. ASSUME NEW gone, cached_sessions' = Without(gone), components' = components
      PROVE  OfYoungest'
  BY <1>2, Dropped DEF OfYoungest
<1>3. ASSUME NEW t \in Threads, NEW id \in todo[t], Sweep(t, id) PROVE OfYoungest'
  <2>1. CASE IsExpired(cached_sessions[id])
    BY <1>2, <1>3, <2>1 DEF Sweep
  <2>2. CASE ~IsExpired(cached_sessions[id])
    BY <1>3, <2>2 DEF Sweep, OfYoungest, Live
  <2> QED BY <2>1, <2>2
<1>4. ASSUME NEW t \in Threads, Draw(t) PROVE OfYoungest'
  <2>1. CASE UNCHANGED <<cached_sessions, components>>
    BY <2>1 DEF OfYoungest, Live
  <2>2. CASE ~ UNCHANGED <<cached_sessions, components>>
    <3> DEFINE c == NewComponent(t)
    <3>1. /\ Live' = Live \union {NextId}
          /\ cached_sessions'[NextId] = NewSession(t)
          /\ \A id \in Live : cached_sessions'[id] = cached_sessions[id]
          /\ components' = components \union {c}
          /\ NextId \notin Live
      BY <1>4, <2>2, DrawBinds
    <3>2. /\ c.id = NextId /\ c.fn = arg[t].fn /\ c.born = now
          /\ NewSession(t).function = arg[t].fn /\ NewSession(t).created_at = now
      BY DEF NewComponent, NewSession
    <3>3. now \in Nat /\ \A d \in components : d.born <= now
      BY DEF TypeOK, Births
    <3> HIDE DEF c
    <3>4. ASSUME NEW id \in Live
          PROVE  /\ \E d \in components' : /\ d.id = id
                                           /\ d.fn = cached_sessions'[id].function
                                           /\ d.born = cached_sessions'[id].created_at
                 /\ \A d \in components' : d.id = id => d.born <= cached_sessions'[id].created_at
      BY <3>1, <3>2, <3>4 DEF OfYoungest
    <3>5. /\ \E d \in components' : /\ d.id = NextId
                                    /\ d.fn = cached_sessions'[NextId].function
                                    /\ d.born = cached_sessions'[NextId].created_at
          /\ \A d \in components' :
                d.id = NextId => d.born <= cached_sessions'[NextId].created_at
      BY <3>1, <3>2, <3>3
    <3> QED BY <3>1, <3>4, <3>5 DEF OfYoungest
  <2> QED BY <2>1, <2>2
<1>5. ASSUME NEW t \in Threads, Forget(t) PROVE OfYoungest'
  BY <1>2, <1>5 DEF Forget
<1>6. CASE Restart
  BY <1>6 DEF Restart, OfYoungest, Live
<1> QED BY <1>1, <1>3, <1>4, <1>5, <1>6, Writers DEF Changes

LEMMA NoneForgottenNext == IInv /\ [Next]_vars => NoneForgotten'
<1> SUFFICES ASSUME IInv, [Next]_vars
             PROVE  NoneForgotten'
  OBVIOUS
<1>0. TypeOK /\ BoundOnce /\ OfYoungest /\ NoneForgotten /\ ClickRunsBoundFunction
  BY DEF IInv
<1>1. CASE UNCHANGED <<cached_sessions, components, forgotten>>
  BY <1>0, <1>1 DEF NoneForgotten, Live
<1>2. ASSUME NEW t \in Threads, NEW id \in todo[t], Sweep(t, id) PROVE NoneForgotten'
  <2>1. CASE IsExpired(cached_sessions[id])
    BY <1>0, <1>2, <2>1, Dropped DEF Sweep, NoneForgotten, observed
  <2>2. CASE ~IsExpired(cached_sessions[id])
    BY <1>0, <1>2, <2>2 DEF Sweep, NoneForgotten, Live, observed
  <2> QED BY <2>1, <2>2
<1>3. ASSUME NEW t \in Threads, Draw(t) PROVE NoneForgotten'
  <2>1. CASE UNCHANGED <<cached_sessions, components>>
    BY <1>0, <1>3, <2>1, DrawBinds DEF NoneForgotten, Live
  <2>2. CASE ~ UNCHANGED <<cached_sessions, components>>
    <3>1. /\ Live' = Live \union {NextId}
          /\ cached_sessions'[NextId] = NewSession(t)
          /\ \A id \in Live : cached_sessions'[id] = cached_sessions[id]
          /\ components \subseteq components'
          /\ forgotten' = forgotten
          /\ pc[t] = "draw"
      BY <1>0, <1>3, <2>2, DrawBinds
    <3>2. arg[t].fn \notin forgotten
      BY <1>0, <3>1 DEF BoundOnce, NoneForgotten, Binding
    <3>3. NewSession(t).function = arg[t].fn
      BY DEF NewSession
    <3> QED BY <1>0, <3>1, <3>2, <3>3 DEF NoneForgotten
  <2> QED BY <2>1, <2>2
<1>4. ASSUME NEW t \in Threads, Forget(t) PROVE NoneForgotten'
  <2> DEFINE c == arg[t]
  <2>1. /\ pc[t] = "running" /\ cached_sessions' = Without(c.id)
        /\ forgotten' = forgotten \union {c.fn} /\ components' = components
    BY <1>4 DEF Forget
  <2>2. c \in components
    BY <1>0, <2>1 DEF TypeOK, Clicking
  <2>3. c.id \in Live /\ cached_sessions[c.id].function = c.fn
    BY <1>0, <2>1 DEF ClickRunsBoundFunction
  <2>4. /\ Live' = Live \ {c.id}
        /\ \A id \in Live' : cached_sessions'[id] = cached_sessions[id]
    BY <1>0, <2>1, Dropped
  <2> HIDE DEF c
  <2>5. ASSUME NEW id \in Live \ {c.id} PROVE cached_sessions[id].function # c.fn
    <3>1. PICK d \in components : d.id = id /\ d.fn = cached_sessions[id].function
      BY <1>0, <2>5 DEF OfYoungest
    <3>2. d # c
      BY <3>1
    <3> QED BY <1>0, <2>2, <3>1, <3>2 DEF BoundOnce
  <2> QED BY <1>0, <2>1, <2>2, <2>4, <2>5 DEF NoneForgotten
<1>5. CASE Restart
  BY <1>0, <1>5 DEF Restart, NoneForgotten, Live
<1> QED BY <1>1, <1>2, <1>3, <1>4, <1>5, Writers DEF Changes

(* The session that a click finds is the one made for the component. *)
LEMMA FoundIsOwn ==
    ASSUME TypeOK, BoundOnce, Births, OfYoungest, NEW c \in components, Found(c)
    PROVE  c.id \in Live /\ cached_sessions[c.id].function = c.fn
<1>1. c.id \in Live /\ cached_sessions[c.id].created_at = c.stamp
  BY DEF Found
<1>2. c.stamp = Long(c.born) /\ c.born \in Nat
  BY DEF Births, TypeOK, Components
<1>3. PICK d \in components : /\ d.id = c.id
                              /\ d.fn = cached_sessions[c.id].function
                              /\ d.born = cached_sessions[c.id].created_at
  BY <1>1 DEF OfYoungest
<1>4. c.born <= d.born /\ d.born \in Nat
  BY <1>1, <1>3 DEF OfYoungest, TypeOK, Components
<1>5. d.born <= c.born
  BY <1>1, <1>2, <1>3, LongAtMost
<1>6. d.born = c.born
  BY <1>2, <1>4, <1>5
<1>7. d = c
  BY <1>3, <1>6 DEF Births
<1> QED BY <1>1, <1>3, <1>7

(* And the session of a button that can be used is found. *)
LEMMA UsableIsFound ==
    ASSUME TypeOK, BoundOnce, Births, OfYoungest, NEW c \in components, Usable(c)
    PROVE  Found(c)
<1>1. /\ c.id \in Live /\ cached_sessions[c.id].function = c.fn
      /\ now - c.born <= cached_sessions[c.id].cache_duration * Minute
      /\ c.born <= LongMax
  BY DEF Usable
<1>2. PICK d \in components : /\ d.id = c.id
                              /\ d.fn = cached_sessions[c.id].function
                              /\ d.born = cached_sessions[c.id].created_at
  BY <1>1 DEF OfYoungest
<1>3. d = c
  BY <1>1, <1>2 DEF BoundOnce
<1>4. c.stamp = c.born /\ c.born \in Nat
  BY <1>1, LongExact DEF Births, TypeOK, Components
<1>5. ~IsExpired(cached_sessions[c.id])
  <2> DEFINE limit == cached_sessions[c.id].cache_duration * Minute
  <2>1. cached_sessions[c.id].cache_duration \in Nat
    BY <1>1, DurationsAreNat DEF TypeOK, Live, Sessions
  <2>2. limit \in Nat /\ now \in Nat
    BY <2>1, WidthsArePositive DEF TypeOK
  <2>3. now - c.born <= limit /\ cached_sessions[c.id].created_at = c.born
    BY <1>1, <1>2, <1>3
  <2> HIDE DEF limit
  <2>4. ~(now - cached_sessions[c.id].created_at > limit)
    BY <1>4, <2>2, <2>3
  <2> QED BY <2>4 DEF limit, IsExpired, ExpiredAt
<1> QED BY <1>1, <1>2, <1>3, <1>4, <1>5 DEF Found

(* A callback runs because it ran before, or because its session was found. *)
LEMMA StartsRunning ==
    ASSUME TypeOK, [Next]_vars, NEW t \in Threads, pc'[t] \in {"running", "rebinding"}
    PROVE  \/ /\ pc[t] = "running" \/ pc[t] = pc'[t]
              /\ pc[t] \in {"running", "rebinding"} /\ arg'[t] = arg[t]
           \/ /\ pc[t] = "lookup" /\ Found(arg[t]) /\ arg'[t] = arg[t]
              /\ UNCHANGED <<cached_sessions, components, forgotten>>
<1> USE DEF cacheVars, observed, Resting
<1>0. pc \in [Threads -> Steps] /\ DOMAIN arg = Threads
  BY DEF TypeOK
<1>1. ASSUME NEW r \in Threads, NEW fn \in Callbacks, NEW duration \in Durations,
             BindCall(r, fn, duration)
      PROVE  r # t /\ pc'[t] = pc[t] /\ arg'[t] = arg[t]
  BY <1>0, <1>1 DEF BindCall
<1>2. ASSUME NEW r \in Threads, NEW component \in components, ClickCall(r, component)
      PROVE  r # t /\ pc'[t] = pc[t] /\ arg'[t] = arg[t]
  BY <1>0, <1>2 DEF ClickCall
<1>3. ASSUME NEW r \in Threads, ClearLock(r) \/ BindLock(r) \/ ClickLock(r)
      PROVE  r # t /\ pc'[t] = pc[t] /\ arg'[t] = arg[t]
  BY <1>0, <1>3 DEF ClearLock, BindLock, ClickLock, Take
<1>4. ASSUME NEW r \in Threads, NEW id \in todo[r], Sweep(r, id)
      PROVE  pc'[t] = pc[t] /\ arg'[t] = arg[t]
  BY <1>4 DEF Sweep
<1>5. ASSUME NEW r \in Threads, ClearUnlock(r)
      PROVE  r # t /\ pc'[t] = pc[t] /\ arg'[t] = arg[t]
  BY <1>0, <1>5 DEF ClearUnlock
<1>6. ASSUME NEW r \in Threads, Draw(r)
      PROVE  pc'[t] = pc[t] /\ arg'[t] = arg[t]
  BY <1>0, <1>6, DrawBinds
<1>7. ASSUME NEW r \in Threads, Lookup(r)
      PROVE  \/ pc'[t] = pc[t] /\ arg'[t] = arg[t]
             \/ /\ pc[t] = "lookup" /\ Found(arg[t]) /\ arg'[t] = arg[t]
                /\ UNCHANGED <<cached_sessions, components, forgotten>>
  BY <1>0, <1>7 DEF Lookup, Return
<1>8. ASSUME NEW r \in Threads, Forget(r) \/ Keep(r)
      PROVE  r # t /\ pc'[t] = pc[t] /\ arg'[t] = arg[t]
  BY <1>0, <1>8 DEF Forget, Keep, Return
<1>9. ASSUME NEW r \in Threads, Rebind(r)
      PROVE  pc[t] \in {"running", pc'[t]} /\ arg'[t] = arg[t]
  BY <1>0, <1>9 DEF Rebind
<1>10. CASE Tick
  BY <1>10 DEF Tick
<1>11. CASE Restart
  BY <1>11 DEF Restart
<1>12. CASE UNCHANGED vars
  BY <1>12 DEF vars
<1> QED BY <1>1, <1>2, <1>3, <1>4, <1>5, <1>6, <1>7, <1>8, <1>9, <1>10, <1>11, <1>12
        DEF Next, Hold

LEMMA RunningNext == IInv /\ [Next]_vars => (ClickRunsBoundFunction /\ NoRunAfterForget)'
<1> SUFFICES ASSUME IInv, [Next]_vars, NEW t \in Threads, pc'[t] \in {"running", "rebinding"}
             PROVE  /\ arg'[t].id \in Live'
                    /\ cached_sessions'[arg'[t].id].function = arg'[t].fn
                    /\ pc'[t] = "running" => arg'[t].fn \notin forgotten'
  BY DEF ClickRunsBoundFunction, NoRunAfterForget
<1>0. /\ TypeOK /\ Mutex /\ BoundOnce /\ Births /\ OfYoungest /\ NoneForgotten
      /\ ClickRunsBoundFunction /\ NoRunAfterForget
  BY DEF IInv
<1>1. CASE /\ pc[t] = "lookup" /\ Found(arg[t]) /\ arg'[t] = arg[t]
           /\ UNCHANGED <<cached_sessions, components, forgotten>>
  <2>1. arg[t] \in components
    BY <1>0, <1>1 DEF TypeOK, Clicking
  <2>2. arg[t].id \in Live /\ cached_sessions[arg[t].id].function = arg[t].fn
    BY <1>0, <1>1, <2>1, FoundIsOwn
  <2> QED BY <1>0, <1>1, <2>2 DEF NoneForgotten, Live
<1>2. CASE /\ pc[t] = "running" \/ pc[t] = pc'[t]
           /\ pc[t] \in {"running", "rebinding"} /\ arg'[t] = arg[t]
  <2>1. holder = t
    BY <1>0, <1>2 DEF Mutex, Critical
  <2>2. CASE UNCHANGED <<cached_sessions, components, forgotten>>
    BY <1>0, <1>2, <2>2 DEF ClickRunsBoundFunction, NoRunAfterForget, Live
  <2>3. ASSUME NEW r \in Threads, Changes(r) PROVE FALSE
    <3>1. pc[r] \in {"sweep", "draw", "running"}
      BY <2>3 DEF Changes, Sweep, Draw, Forget
    <3>2. r = t
      BY <1>0, <2>1, <3>1 DEF Mutex, Critical
    <3>3. Forget(t)
      BY <1>2, <2>3, <3>2 DEF Changes, Sweep, Draw
    <3>4. pc' = [pc EXCEPT ![t] = "idle"] /\ pc \in [Threads -> Steps]
      BY <1>0, <3>3 DEF Forget, Return, TypeOK
    <3> QED BY <3>4
  <2>4. CASE Restart
    BY <2>4 DEF Restart
  <2> QED BY <2>2, <2>3, <2>4, Writers
<1> QED BY <1>0, <1>1, <1>2, StartsRunning

(* A thread sweeps because it did before, or because it took the mutex now. *)
LEMMA StartsSweeping ==
    ASSUME TypeOK, Mutex, [Next]_vars, NEW t \in Threads, pc'[t] = "sweep"
    PROVE  \/ /\ todo'[t] = Live /\ cached_sessions' = cached_sessions
           \/ /\ pc[t] = "sweep" /\ sweptAt' = sweptAt
              /\ todo'[t] = todo[t] \/ \E id \in todo[t] : Sweep(t, id)
<1> USE NoneIsNoThread DEF cacheVars, observed, Resting, Critical
<1>0. pc \in [Threads -> Steps] /\ todo \in [Threads -> SUBSET Ids]
  BY DEF TypeOK
<1>1. ASSUME NEW r \in Threads, NEW fn \in Callbacks, NEW duration \in Durations,
             BindCall(r, fn, duration)
      PROVE  pc[t] = "sweep" /\ sweptAt' = sweptAt /\ todo'[t] = todo[t]
  BY <1>0, <1>1 DEF BindCall
<1>2. ASSUME NEW r \in Threads, NEW component \in components, ClickCall(r, component)
      PROVE  pc[t] = "sweep" /\ sweptAt' = sweptAt /\ todo'[t] = todo[t]
  BY <1>0, <1>2 DEF ClickCall
<1>3. ASSUME NEW r \in Threads, ClearLock(r)
      PROVE  todo'[t] = Live /\ cached_sessions' = cached_sessions
  <2>1. holder = None
    BY <1>3 DEF ClearLock, Take
  <2>2. pc[t] # "sweep"
    BY <2>1 DEF Mutex
  <2>3. r = t
    BY <1>0, <1>3, <2>2 DEF ClearLock, Take
  <2> QED BY <1>0, <1>3, <2>3 DEF ClearLock
<1>4. ASSUME NEW r \in Threads, BindLock(r) \/ ClickLock(r)
      PROVE  pc[t] = "sweep" /\ sweptAt' = sweptAt /\ todo'[t] = todo[t]
  BY <1>0, <1>4 DEF BindLock, ClickLock, Take
<1>5. ASSUME NEW r \in Threads, NEW id \in todo[r], Sweep(r, id)
      PROVE  /\ pc[t] = "sweep" /\ sweptAt' = sweptAt
             /\ todo'[t] = todo[t] \/ \E i \in todo[t] : Sweep(t, i)
  <2>1. pc[t] = "sweep" /\ sweptAt' = sweptAt /\ pc[r] = "sweep"
    BY <1>5 DEF Sweep
  <2>2. r = t
    BY <2>1 DEF Mutex
  <2> QED BY <1>5, <2>1, <2>2
<1>6. ASSUME NEW r \in Threads, ClearUnlock(r) \/ Lookup(r) \/ Forget(r) \/ Keep(r) \/ Rebind(r)
      PROVE  pc[t] = "sweep" /\ sweptAt' = sweptAt /\ todo'[t] = todo[t]
  BY <1>0, <1>6 DEF ClearUnlock, Lookup, Forget, Keep, Rebind, Return
<1>7. ASSUME NEW r \in Threads, Draw(r)
      PROVE  pc[t] = "sweep" /\ sweptAt' = sweptAt /\ todo'[t] = todo[t]
  BY <1>0, <1>7, DrawBinds
<1>8. CASE Tick
  BY <1>8 DEF Tick
<1>9. CASE Restart
  BY <1>9 DEF Restart
<1>10. CASE UNCHANGED vars
  BY <1>10 DEF vars
<1> QED BY <1>1, <1>2, <1>3, <1>4, <1>5, <1>6, <1>7, <1>8, <1>9, <1>10 DEF Next, Hold

LEMMA SweepingNext == IInv /\ [Next]_vars => Sweeping'
<1> SUFFICES ASSUME IInv, [Next]_vars, NEW t \in Threads, pc'[t] = "sweep",
                    NEW id \in Live' \ todo'[t]
             PROVE  ~ExpiredAt(cached_sessions'[id], sweptAt')
  BY DEF Sweeping, ExpiredAt
<1>0. TypeOK /\ Mutex /\ Births /\ Sweeping
  BY DEF IInv
<1>1. CASE todo'[t] = Live /\ cached_sessions' = cached_sessions
  BY <1>1 DEF Live
<1>2. CASE pc[t] = "sweep" /\ sweptAt' = sweptAt /\ todo'[t] = todo[t]
  <2>1. CASE UNCHANGED <<cached_sessions, components, forgotten>>
    BY <1>0, <1>2, <2>1 DEF Sweeping, Live
  <2>2. ASSUME NEW r \in Threads, Changes(r) PROVE FALSE
    <3>1. pc[r] \in {"sweep", "draw", "running"}
      BY <2>2 DEF Changes, Sweep, Draw, Forget
    <3>2. r = t
      BY <1>0, <1>2, <3>1 DEF Mutex, Critical
    <3>3. PICK i \in todo[t] : Sweep(t, i)
      BY <1>2, <2>2, <3>2 DEF Changes, Draw, Forget
    <3>4. i \notin todo'[t]
      BY <1>0, <3>3 DEF Sweep, TypeOK
    <3> QED BY <1>2, <3>4
  <2>3. CASE Restart
    BY <2>3 DEF Restart
  <2> QED BY <2>1, <2>2, <2>3, Writers
<1>3. ASSUME pc[t] = "sweep", sweptAt' = sweptAt, NEW i \in todo[t], Sweep(t, i)
      PROVE  ~ExpiredAt(cached_sessions'[id], sweptAt')
  <2>1. todo'[t] = todo[t] \ {i}
    BY <1>0, <1>3 DEF Sweep, TypeOK
  <2>2. ASSUME id # i, id \in Live, cached_sessions'[id] = cached_sessions[id]
        PROVE  ~ExpiredAt(cached_sessions'[id], sweptAt')
    BY <1>0, <1>3, <2>1, <2>2 DEF Sweeping
  <2>3. CASE IsExpired(cached_sessions[i])
    <3>1. id # i /\ id \in Live /\ cached_sessions'[id] = cached_sessions[id]
      BY <1>0, <1>3, <2>3, Dropped DEF Sweep
    <3> QED BY <2>2, <3>1
  <2>4. CASE ~IsExpired(cached_sessions[i])
    <3>1. cached_sessions' = cached_sessions /\ id \in Live
      BY <1>3, <2>4 DEF Sweep, Live
    <3>2. CASE id = i
      <4>1. cached_sessions[i] \in Sessions /\ now \in Nat /\ sweptAt \in Nat /\ sweptAt <= now
        BY <1>0, <3>1, <3>2 DEF TypeOK, Live, Births
      <4>2. ~ExpiredAt(cached_sessions[i], now)
        BY <2>4 DEF IsExpired
      <4>3. ~ExpiredAt(cached_sessions[i], sweptAt)
        BY <4>1, <4>2, ExpiryIsMonotonic
      <4> QED BY <1>3, <3>1, <3>2, <4>3
    <3> QED BY <2>2, <3>1, <3>2
  <2> QED BY <2>3, <2>4
<1> QED BY <1>0, <1>1, <1>2, <1>3, StartsSweeping

-----------------------------------------------------------------------------
(* The inductive invariant, and what follows from it *)

LEMMA IInvNext == IInv /\ [Next]_vars => IInv'
<1> SUFFICES ASSUME IInv, [Next]_vars PROVE IInv'
  OBVIOUS
<1>1. TypeOK /\ Mutex /\ BoundOnce /\ Births /\ OfYoungest
  BY DEF IInv
<1>2. TypeOK' /\ Mutex' /\ BoundOnce' /\ Births' /\ OfYoungest'
  BY <1>1, TypeNext, MutexNext, BoundOnceNext, BirthsNext, OfYoungestNext
<1>3. NoneForgotten' /\ Sweeping'
  BY NoneForgottenNext, SweepingNext
<1>4. ClickRunsBoundFunction' /\ NoRunAfterForget'
  BY RunningNext
<1> QED BY <1>2, <1>3, <1>4 DEF IInv

LEMMA Invariant == Spec => []IInv
BY IInvInit, IInvNext, PTL DEF Spec

(* A click runs the callback bound to the component that was clicked, and   *)
(* the session stays in the map while button_builder's iterator is in use:  *)
(* for every number of threads, every width of the counter and of the       *)
(* numbers that parse, and across every restart.                            *)
THEOREM ClicksRunTheirCallback == Spec => []ClickRunsBoundFunction
<1>1. IInv => ClickRunsBoundFunction
  BY DEF IInv
<1> QED BY <1>1, Invariant, PTL

(* A callback whose return value told button_builder to erase its session   *)
(* is never called again, whatever clicks were waiting.                     *)
THEOREM ForgottenForGood == Spec => []NoRunAfterForget
<1>1. IInv => NoRunAfterForget
  BY DEF IInv
<1> QED BY <1>1, Invariant, PTL

(* clear() leaves no session that had expired when it took the mutex. *)
THEOREM ClearIsComplete == Spec => []SweepComplete
<1>1. IInv => SweepComplete
  BY DEF IInv, Sweeping, SweepComplete
<1> QED BY <1>1, Invariant, PTL

(* No step of clear(), button_bind or button_builder takes away a session   *)
(* that is in use: neither a drawn id nor an erased one.                    *)
THEOREM SessionsAreKept == Spec => SessionKept
<1> DEFINE Kept(id) == \/ id \in Live' /\ cached_sessions'[id] = cached_sessions[id]
                       \/ IsExpired(cached_sessions[id])
                       \/ cached_sessions[id].function \in forgotten'
           KeptStep == Restart \/ \A id \in Live : Kept(id)
<1>1. IInv /\ [Next]_vars => KeptStep
  <2> SUFFICES ASSUME IInv, [Next]_vars, ~Restart, NEW id \in Live
               PROVE  Kept(id)
    OBVIOUS
  <2>0. TypeOK /\ ClickRunsBoundFunction
    BY DEF IInv
  <2>1. CASE UNCHANGED <<cached_sessions, components, forgotten>>
    BY <2>1 DEF Live
  <2>2. ASSUME NEW t \in Threads, NEW i \in todo[t], Sweep(t, i) PROVE Kept(id)
    <3>1. CASE IsExpired(cached_sessions[i])
      BY <2>0, <2>2, <3>1, Dropped DEF Sweep
    <3>2. CASE ~IsExpired(cached_sessions[i])
      BY <2>2, <3>2 DEF Sweep, Live
    <3> QED BY <3>1, <3>2
  <2>3. ASSUME NEW t \in Threads, Draw(t) PROVE Kept(id)
    BY <2>0, <2>3, DrawBinds DEF Live
  <2>4. ASSUME NEW t \in Threads, Forget(t) PROVE Kept(id)
    <3>1. /\ cached_sessions' = Without(arg[t].id) /\ pc[t] = "running"
          /\ forgotten' = forgotten \union {arg[t].fn}
      BY <2>4 DEF Forget
    <3>2. cached_sessions[arg[t].id].function = arg[t].fn
      BY <2>0, <3>1 DEF ClickRunsBoundFunction
    <3> QED BY <2>0, <3>1, <3>2, Dropped
  <2> QED BY <2>1, <2>2, <2>3, <2>4, Writers DEF Changes
<1>2. IInv /\ [Next]_vars => [KeptStep]_vars
  BY <1>1
<1> QED BY <1>2, Invariant, PTL DEF Spec, SessionKept

(* A click on a button whose session lives and has not expired is never     *)
(* dropped, as long as std::time_t fits a long int.                         *)
THEOREM UsableButtonsAnswer == Spec => UsableButtonRuns
<1> DEFINE Answers == \A t \in Threads :
                          pc[t] = "lookup" /\ pc'[t] = "ignored" => ~Usable(arg[t])
<1>1. IInv /\ [Next]_vars => Answers
  <2> SUFFICES ASSUME IInv, [Next]_vars, NEW t \in Threads,
                      pc[t] = "lookup", pc'[t] = "ignored"
               PROVE  ~Usable(arg[t])
    OBVIOUS
  <2>0. TypeOK /\ BoundOnce /\ Births /\ OfYoungest /\ pc \in [Threads -> Steps]
    BY DEF IInv, TypeOK
  <2>1. ~Found(arg[t])
    <3> USE <2>0 DEF Resting
    <3>1. \A r \in Threads, fn \in Callbacks, duration \in Durations : ~BindCall(r, fn, duration)
      BY DEF BindCall
    <3>2. \A r \in Threads, component \in components : ~ClickCall(r, component)
      BY DEF ClickCall
    <3>3. \A r \in Threads : ~(ClearLock(r) \/ BindLock(r) \/ ClickLock(r))
      BY DEF ClearLock, BindLock, ClickLock, Take
    <3>4. \A r \in Threads : /\ \A id \in todo[r] : ~Sweep(r, id)
                             /\ ~(ClearUnlock(r) \/ Forget(r) \/ Keep(r) \/ Rebind(r))
      BY DEF Sweep, ClearUnlock, Forget, Keep, Rebind, Return
    <3>5. \A r \in Threads : ~Draw(r)
      BY DrawBinds
    <3>6. ~Tick /\ ~Restart /\ ~UNCHANGED vars
      BY DEF Tick, Restart, vars
    <3>7. PICK r \in Threads : Lookup(r)
      BY <3>1, <3>2, <3>3, <3>4, <3>5, <3>6 DEF Next, Hold
    <3> QED BY <3>7 DEF Lookup, Return
  <2>2. arg[t] \in components
    BY <2>0 DEF TypeOK, Clicking
  <2> QED BY <2>0, <2>1, <2>2, UsableIsFound
<1>2. IInv /\ [Next]_vars => [Answers]_vars
  BY <1>1
<1> QED BY <1>2, Invariant, PTL DEF Spec, UsableButtonRuns
=============================================================================
