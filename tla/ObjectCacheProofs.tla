------------------------- MODULE ObjectCacheProofs -------------------------
(***************************************************************************)
(* Proofs about ObjectCache, for all threads, ids and objects, every       *)
(* period, and any choice of the threads that change an id.                *)
(***************************************************************************)
EXTENDS ObjectCache, TLAPS

(* Objects in the map or in the queue have been stored. *)
StoredFirst == /\ deletion_queue \subseteq stored
               /\ \A id \in Ids : cache_map[id] # None => cache_map[id] \in stored

(* A sole changer of an id holds no pointer to an object that has been       *)
(* replaced: it let go of it when it replaced it.                           *)
ChangerUpToDate ==
    \A id \in Ids : \A t \in Changers[id] :
        Sole(id) /\ found[t] # None /\ IdOf[found[t]] = id => cache_map[id] = found[t]

(* A pointer in use is at most Hold old, and if its object has left the map  *)
(* it did so after the pointer was found, which leaves it the whole Period. *)
InUse ==
    \A t \in Threads :
        found[t] # None =>
            /\ foundAt[t] <= now /\ now - foundAt[t] <= Hold
            /\ found[t] \in stored \ freed
            /\ found[t] \in deletion_queue => foundAt[t] <= deletedAt[found[t]]

IInv == TypeOK /\ MapAlive /\ FreedOnce /\ Managed /\ StoredFirst /\ ChangerUpToDate /\ InUse

-----------------------------------------------------------------------------
LEMMA IInvInit == Init => IInv
BY NoneIsNoObject, IdsMatch
   DEF Init, IInv, TypeOK, MapAlive, FreedOnce, Managed, StoredFirst, ChangerUpToDate, InUse

LEMMA DropOwnType ==
    ASSUME TypeOK, NEW t \in Threads, NEW id \in Ids, DropOwn(t, id)
    PROVE  /\ found' \in [Threads -> Objects \union {None}]
           /\ foundAt' = foundAt
           /\ \A r \in Threads : found'[r] = found[r] \/ found'[r] = None
           /\ found'[t] # None => IdOf[found'[t]] # id
BY NoneIsNoObject DEF TypeOK, DropOwn

(* Letting go of pointers, and changing one id, leave the changers up to date. *)
LEMMA ChangersKept ==
    ASSUME IInv, NEW t \in Threads, NEW id \in Ids, t \in Changers[id],
           \A r \in Threads : found'[r] = found[r] \/ found'[r] = None,
           found'[t] # None => IdOf[found'[t]] # id,
           \A i \in Ids : i # id => cache_map'[i] = cache_map[i]
    PROVE  ChangerUpToDate'
<1> SUFFICES ASSUME NEW i \in Ids, NEW r \in Changers[i],
                    Sole(i), found'[r] # None, IdOf[found'[r]] = i
             PROVE  cache_map'[i] = found'[r]
  BY DEF ChangerUpToDate
<1>1. r \in Threads
  BY IdsMatch
<1>2. i # id
  BY DEF Sole
<1>3. found'[r] = found[r] /\ cache_map[i] = found[r]
  BY <1>1 DEF IInv, ChangerUpToDate
<1> QED BY <1>2, <1>3

(* Pointers that are kept stay good while an object goes to the queue. *)
LEMMA UsesKept ==
    ASSUME IInv, NEW x \in Objects, Enqueue(x),
           \A r \in Threads : found'[r] = found[r] \/ found'[r] = None,
           foundAt' = foundAt, now' = now, freed' = freed, stored \subseteq stored'
    PROVE  InUse'
<1> SUFFICES ASSUME NEW r \in Threads, found'[r] # None
             PROVE  /\ foundAt[r] <= now /\ now - foundAt[r] <= Hold
                    /\ found[r] \in stored' \ freed
                    /\ found[r] \in deletion_queue' => foundAt[r] <= deletedAt'[found[r]]
  BY DEF InUse
<1>1. /\ foundAt[r] <= now /\ now - foundAt[r] <= Hold
      /\ found[r] \in stored \ freed
      /\ found[r] \in deletion_queue => foundAt[r] <= deletedAt[found[r]]
  BY DEF IInv, InUse
<1>2. CASE found[r] = x
  BY <1>1, <1>2 DEF Enqueue, IInv, TypeOK
<1>3. CASE found[r] # x
  BY <1>1, <1>3 DEF Enqueue, IInv, TypeOK
<1> QED BY <1>2, <1>3

(* store(): the object that is replaced goes to the queue now, later than    *)
(* any find() that gave it.                                                 *)
LEMMA StoreKeeps ==
    ASSUME IInv, NEW t \in Threads, NEW o \in Objects, Store(t, o)
    PROVE  IInv'
<1> DEFINE id == IdOf[o]
           existing == cache_map[id]
<1>1. id \in Ids /\ o # None
  BY IdsMatch, NoneIsNoObject
<1>2. /\ found' \in [Threads -> Objects \union {None}]
      /\ foundAt' = foundAt
      /\ \A r \in Threads : found'[r] = found[r] \/ found'[r] = None
      /\ found'[t] # None => IdOf[found'[t]] # id
  BY <1>1, DropOwnType DEF Store, IInv
<1>3. o \in stored => existing = o
  BY <1>1 DEF Store, IInv, ChangerUpToDate
<1>4. /\ cache_map' = [cache_map EXCEPT ![id] = o]
      /\ stored' = stored \union {o} /\ freed' = freed /\ now' = now
      /\ t \in Changers[id]
  BY DEF Store
<1>5. CASE existing \in {None, o}
  <2>1. UNCHANGED queue
    BY <1>5 DEF Store
  <2>2. TypeOK'
    BY <1>1, <1>2, <1>4, <2>1 DEF IInv, TypeOK, queue
  <2>3. MapAlive' /\ FreedOnce' /\ StoredFirst'
    <3>1. o \notin freed \union deletion_queue
      BY <1>1, <1>3 DEF IInv, TypeOK, MapAlive, StoredFirst
    <3> QED BY <1>1, <1>4, <2>1, <3>1 DEF IInv, TypeOK, MapAlive, FreedOnce, StoredFirst, queue
  <2>6. ASSUME NEW p \in stored'
        PROVE  Sole(IdOf[p]) => cache_map'[IdOf[p]] = p \/ p \in deletion_queue' \/ p \in freed'
    <3>1. p \in Objects /\ p # None /\ IdOf[p] \in Ids
      BY <1>4, NoneIsNoObject, IdsMatch DEF IInv, TypeOK
    <3>2. CASE p = o
      BY <1>1, <1>4, <3>2 DEF IInv, TypeOK
    <3>3. CASE p # o
      <4>1. Sole(IdOf[p]) => cache_map[IdOf[p]] = p \/ p \in deletion_queue \/ p \in freed
        BY <1>4, <3>3 DEF IInv, Managed
      <4>2. cache_map[IdOf[p]] = p => IdOf[p] # id
        BY <1>5, <3>1, <3>3
      <4> QED BY <1>1, <1>4, <2>1, <3>1, <4>1, <4>2 DEF IInv, TypeOK, queue
    <3> QED BY <3>2, <3>3
  <2>4. ChangerUpToDate'
    BY <1>1, <1>2, <1>4, ChangersKept DEF IInv, TypeOK
  <2>5. InUse'
    BY <1>2, <1>4, <2>1 DEF IInv, TypeOK, InUse, queue
  <2> QED BY <2>2, <2>3, <2>4, <2>5, <2>6 DEF IInv, Managed
<1>6. CASE existing \notin {None, o}
  <2>1. Enqueue(existing) /\ existing \in Objects /\ o \notin stored
    BY <1>1, <1>3, <1>6 DEF Store, IInv, TypeOK
  <2>2. TypeOK'
    BY <1>1, <1>2, <1>4, <2>1 DEF IInv, TypeOK, Enqueue
  <2>3. MapAlive'
    <3> SUFFICES ASSUME NEW i \in Ids PROVE cache_map'[i] \notin freed' \union deletion_queue'
      BY DEF MapAlive
    <3>1. CASE i = id
      BY <1>1, <1>4, <1>6, <2>1, <3>1 DEF IInv, TypeOK, StoredFirst, Enqueue
    <3>2. CASE i # id
      BY <1>1, <1>4, <2>1, <3>2, NoneIsNoObject DEF IInv, TypeOK, MapAlive, Enqueue
    <3> QED BY <3>1, <3>2
  <2>6. StoredFirst'
    <3>1. existing \in stored
      BY <1>1, <1>6 DEF IInv, StoredFirst
    <3> QED BY <1>1, <1>4, <2>1, <3>1 DEF IInv, TypeOK, StoredFirst, Enqueue
  <2>7. ASSUME NEW p \in stored'
        PROVE  Sole(IdOf[p]) => cache_map'[IdOf[p]] = p \/ p \in deletion_queue' \/ p \in freed'
    <3>1. IdOf[p] \in Ids
      BY <1>4, IdsMatch DEF IInv, TypeOK
    <3>2. CASE p = o
      BY <1>1, <1>4, <3>2 DEF IInv, TypeOK
    <3>3. CASE p = existing
      BY <2>1, <3>3 DEF Enqueue
    <3>4. CASE p # o /\ p # existing
      <4>1. Sole(IdOf[p]) => cache_map[IdOf[p]] = p \/ p \in deletion_queue \/ p \in freed
        BY <1>4, <3>4 DEF IInv, Managed
      <4>2. cache_map[IdOf[p]] = p => IdOf[p] # id
        BY <3>4
      <4> QED BY <1>1, <1>4, <2>1, <3>1, <4>1, <4>2 DEF IInv, TypeOK, Enqueue
    <3> QED BY <3>2, <3>3, <3>4
  <2>4. ChangerUpToDate'
    BY <1>1, <1>2, <1>4, ChangersKept DEF IInv, TypeOK
  <2>5. InUse'
    BY <1>2, <1>4, <2>1, UsesKept
  <2>8. FreedOnce'
    BY <1>1, <1>4, <2>1 DEF IInv, MapAlive, FreedOnce, Enqueue
  <2> QED BY <2>2, <2>3, <2>4, <2>5, <2>6, <2>7, <2>8 DEF IInv, Managed
<1> QED BY <1>5, <1>6

(* remove(): a sole changer holds the object that is there.  Another thread  *)
(* may hold one that is queued already, which then stays there longer, but  *)
(* none that has been freed.                                                *)
LEMMA RemoveKeeps ==
    ASSUME IInv, NEW t \in Threads, NEW o \in Objects, Remove(t, o)
    PROVE  IInv'
<1> DEFINE id == IdOf[o]
<1>1. id \in Ids /\ o # None
  BY IdsMatch, NoneIsNoObject
<1>2. /\ o \in stored \ freed
      /\ cache_map[id] # None /\ Sole(id) => cache_map[id] = o
  BY <1>1 DEF Remove, IInv, InUse, ChangerUpToDate
<1>3. /\ found' \in [Threads -> Objects \union {None}]
      /\ foundAt' = foundAt
      /\ \A r \in Threads : found'[r] = found[r] \/ found'[r] = None
      /\ found'[t] # None => IdOf[found'[t]] # id
  BY <1>1, DropOwnType DEF Remove, IInv
<1>4. stored' = stored /\ freed' = freed /\ now' = now /\ t \in Changers[id]
  BY DEF Remove
<1>5. CASE cache_map[id] = None
  <2>1. UNCHANGED <<cache_map, queue>>
    BY <1>5 DEF Remove
  <2>2. TypeOK' /\ MapAlive' /\ FreedOnce' /\ Managed' /\ StoredFirst'
    BY <1>3, <1>4, <2>1 DEF IInv, TypeOK, MapAlive, FreedOnce, Managed, StoredFirst, queue
  <2>3. ChangerUpToDate'
    BY <1>1, <1>3, <1>4, <2>1, ChangersKept
  <2>4. InUse'
    BY <1>3, <1>4, <2>1 DEF IInv, TypeOK, InUse, queue
  <2> QED BY <2>2, <2>3, <2>4 DEF IInv
<1>6. CASE cache_map[id] # None
  <2>1. cache_map' = [cache_map EXCEPT ![id] = None] /\ Enqueue(o)
    BY <1>6 DEF Remove
  <2>2. TypeOK'
    BY <1>1, <1>3, <1>4, <2>1 DEF IInv, TypeOK, Enqueue
  <2>3. MapAlive' /\ FreedOnce' /\ StoredFirst'
    BY <1>1, <1>2, <1>4, <2>1, NoneIsNoObject
       DEF IInv, TypeOK, MapAlive, FreedOnce, StoredFirst, Enqueue
  <2>4. ASSUME NEW p \in stored', Sole(IdOf[p])
        PROVE  cache_map'[IdOf[p]] = p \/ p \in deletion_queue' \/ p \in freed'
    <3>1. p \in Objects /\ IdOf[p] \in Ids /\ p \in stored
      BY <1>4, IdsMatch DEF IInv, TypeOK
    <3>2. cache_map[IdOf[p]] = p \/ p \in deletion_queue \/ p \in freed
      BY <2>4, <3>1 DEF IInv, Managed
    <3>3. CASE IdOf[p] = id
      <4>1. cache_map[id] = o
        BY <1>2, <1>6, <2>4, <3>3
      <4> QED BY <1>4, <2>1, <3>2, <3>3, <4>1 DEF Enqueue
    <3>4. CASE IdOf[p] # id
      BY <1>4, <2>1, <3>1, <3>2, <3>4 DEF IInv, TypeOK, Enqueue
    <3> QED BY <3>3, <3>4
  <2>5. ChangerUpToDate'
    BY <1>1, <1>3, <1>4, <2>1, ChangersKept DEF IInv, TypeOK
  <2>6. InUse'
    BY <1>3, <1>4, <2>1, UsesKept
  <2> QED BY <2>2, <2>3, <2>4, <2>5, <2>6 DEF IInv, Managed
<1> QED BY <1>5, <1>6

LEMMA FindKeeps ==
    ASSUME IInv, NEW t \in Threads, NEW id \in Ids, Find(t, id)
    PROVE  IInv'
<1>1. TypeOK'
  <2>1. cache_map[id] \in Objects \union {None} /\ now \in Nat
    BY DEF IInv, TypeOK
  <2>2. UNCHANGED <<cache_map, deletion_queue, deletedAt, now, stored, freed>>
    BY DEF Find, queue
  <2>3. found' \in [Threads -> Objects \union {None}] /\ foundAt' \in [Threads -> Nat]
    BY <2>1 DEF Find, IInv, TypeOK
  <2> QED BY <2>2, <2>3 DEF IInv, TypeOK
<1>4. MapAlive' /\ FreedOnce' /\ Managed' /\ StoredFirst'
  BY DEF Find, IInv, MapAlive, FreedOnce, Managed, StoredFirst, queue
<1>2. ChangerUpToDate'
  BY IdsMatch DEF Find, IInv, TypeOK, ChangerUpToDate
<1>3. InUse'
  BY HoldWithinPeriod DEF Find, IInv, TypeOK, InUse, MapAlive, StoredFirst, queue
<1> QED BY <1>1, <1>2, <1>3, <1>4 DEF IInv

(* What is due has left the map longer than Hold ago: nobody uses it. *)
LEMMA CollectKeeps ==
    ASSUME IInv, garbage_collection
    PROVE  IInv'
<1>1. TypeOK' /\ MapAlive' /\ FreedOnce' /\ Managed' /\ StoredFirst' /\ ChangerUpToDate'
  BY DEF garbage_collection, Due, IInv, TypeOK, MapAlive, FreedOnce, Managed, StoredFirst,
         ChangerUpToDate, uses
<1>2. ASSUME NEW t \in Threads, found[t] # None
      PROVE  ~Due(found[t])
  BY <1>2, HoldWithinPeriod DEF IInv, TypeOK, InUse, Due
<1>3. InUse'
  BY <1>2 DEF garbage_collection, IInv, InUse, uses
<1> QED BY <1>1, <1>3 DEF IInv

LEMMA TickKeeps ==
    ASSUME IInv, Tick
    PROVE  IInv'
<1>1. /\ UNCHANGED <<cache_map, deletion_queue, deletedAt, foundAt, stored, freed>>
      /\ now' = now + 1
      /\ found' = [t \in Threads |-> IF now - foundAt[t] < Hold THEN found[t] ELSE None]
  BY DEF Tick, queue
<1>3. TypeOK' /\ MapAlive' /\ FreedOnce' /\ Managed' /\ StoredFirst'
  BY <1>1 DEF IInv, TypeOK, MapAlive, FreedOnce, Managed, StoredFirst
<1>4. ChangerUpToDate'
  BY <1>1, IdsMatch DEF IInv, ChangerUpToDate
<1>2. InUse'
  BY HoldWithinPeriod DEF Tick, IInv, TypeOK, InUse, queue
<1> QED BY <1>2, <1>3, <1>4 DEF IInv

LEMMA IInvNext == IInv /\ [Next]_vars => IInv'
<1>1. IInv /\ UNCHANGED vars => IInv'
  BY DEF vars, queue, uses, IInv, TypeOK, MapAlive, FreedOnce, Managed, StoredFirst,
         ChangerUpToDate, InUse
<1> QED BY <1>1, StoreKeeps, RemoveKeeps, FindKeeps, CollectKeeps, TickKeeps DEF Next

(* The strengthened invariant. *)
THEOREM Inductive == Spec => []IInv
<1>1. IInv /\ [Next]_vars => IInv'
  BY IInvNext
<1> QED BY <1>1, IInvInit, PTL DEF Spec

(* No pointer that find() gave is freed while it is used. *)
THEOREM PointersStayAlive == Spec => []FoundStaysAlive
<1>1. IInv => FoundStaysAlive
  BY NoneIsNoObject DEF IInv, TypeOK, InUse, FoundStaysAlive
<1> QED BY <1>1, Inductive, PTL

(* The map leads to no object that has been freed or is queued. *)
THEOREM MapStaysAlive == Spec => []MapAlive
BY Inductive, PTL DEF IInv

(* No object is freed twice. *)
THEOREM NoneFreedTwice == Spec => []FreedOnce
BY Inductive, PTL DEF IInv

(* Every stored object whose id has one changer is in the map, in the queue, *)
(* or freed.                                                                *)
THEOREM NothingLost == Spec => []Managed
BY Inductive, PTL DEF IInv

(* What the cache promises of the objects that it is given. *)
THEOREM LifetimesKept == Spec => []LifetimeManaged
BY PointersStayAlive, MapStaysAlive, NoneFreedTwice, NothingLost, PTL DEF LifetimeManaged

(* TypeOK, for all threads, ids and objects. *)
THEOREM TypeCorrect == Spec => []TypeOK
BY Inductive, PTL DEF IInv
=============================================================================
