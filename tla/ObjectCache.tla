---------------------------- MODULE ObjectCache ----------------------------
(***************************************************************************)
(* dpp::cache of src/include/dpp/cache.h: the map from ids to the objects  *)
(* (users, guilds, channels) that events describe.  An object that leaves  *)
(* the map is put into deletion_queue with the time, and freed when it has *)
(* been there long enough; until then a thread may go on using a pointer   *)
(* that find() gave it.  store() and remove() are one critical section     *)
(* each, under cache_mutex and deletion_mutex.                             *)
(*                                                                         *)
(* Several threads may change one id: a user is described by the events of  *)
(* every shard whose guilds it is in.                                      *)
(*                                                                         *)
(* garbage_collection is not in the repository: by cache.h it frees what   *)
(* was "deleted over 60 seconds ago".                                      *)
(***************************************************************************)
EXTENDS Integers, FiniteSets

CONSTANTS
    Threads, Ids, Objects,
    IdOf,          \* IdOf[o]: the id of object o
    None,          \* no object
    Changers,      \* Changers[id]: the threads that store and remove objects of id
    Period,        \* the 60 seconds of garbage_collection
    Hold,          \* how long a thread uses a pointer that find() gave it
    MaxNow         \* bound: the clock stops there

ASSUME HoldWithinPeriod == Period \in Nat /\ Hold \in Nat /\ Hold <= Period
ASSUME IdsMatch == IdOf \in [Objects -> Ids] /\ Changers \in [Ids -> SUBSET Threads]
ASSUME NoneIsNoObject == None \notin Objects

VARIABLES
    cache_map,        \* cache_map[id]: the object, or None
    deletion_queue,   \* the objects in it
    deletedAt,        \* deletedAt[o]: its time in deletion_queue
    now,              \* time(NULL)
    found,            \* found[t]: the pointer that thread t uses, or None
    (* History *)
    foundAt,          \* foundAt[t]: when find() gave it
    stored,           \* objects that have been stored
    freed             \* objects that have been freed

queue == <<deletion_queue, deletedAt>>
uses  == <<found, foundAt>>
vars  == <<cache_map, queue, now, uses, stored, freed>>

TypeOK ==
    /\ cache_map \in [Ids -> Objects \union {None}]
    /\ \A id \in Ids : cache_map[id] # None => IdOf[cache_map[id]] = id
    /\ deletion_queue \subseteq Objects /\ deletedAt \in [Objects -> Nat]
    /\ now \in Nat
    /\ found \in [Threads -> Objects \union {None}] /\ foundAt \in [Threads -> Nat]
    /\ stored \subseteq Objects /\ freed \subseteq stored

Init ==
    /\ cache_map = [id \in Ids |-> None]
    /\ deletion_queue = {} /\ deletedAt = [o \in Objects |-> 0]
    /\ now = 0
    /\ found = [t \in Threads |-> None] /\ foundAt = [t \in Threads |-> 0]
    /\ stored = {} /\ freed = {}

(* deletion_queue[o] = time(NULL) *)
Enqueue(o) ==
    /\ deletion_queue' = deletion_queue \union {o}
    /\ deletedAt' = [deletedAt EXCEPT ![o] = now]

(* A thread that has changed an id does not use the pointer it had to it.    *)
DropOwn(t, id) ==
    /\ found' = IF found[t] # None /\ IdOf[found[t]] = id THEN [found EXCEPT ![t] = None] ELSE found
    /\ UNCHANGED foundAt

(* One thread only stores and removes objects of the id. *)
Sole(id) == \A r, t \in Changers[id] : r = t

(* store(): a new object, for a stored one belongs to the cache; the only    *)
(* thread that changes the id may store again what it has found.  Another   *)
(* object with the id goes to the queue.                                    *)
Store(t, o) ==
    LET existing == cache_map[IdOf[o]]
    IN  /\ t \in Changers[IdOf[o]]
        /\ o \notin stored \/ (found[t] = o /\ Sole(IdOf[o]))
        /\ cache_map' = [cache_map EXCEPT ![IdOf[o]] = o]
        /\ IF existing \in {None, o} THEN UNCHANGED queue ELSE Enqueue(existing)
        /\ stored' = stored \union {o}
        /\ DropOwn(t, IdOf[o])
        /\ UNCHANGED <<now, freed>>

(* remove(): the entry with the object's id is erased, whichever object is   *)
(* there, and the object that was passed is queued.                         *)
Remove(t, o) ==
    /\ t \in Changers[IdOf[o]] /\ found[t] = o
    /\ IF cache_map[IdOf[o]] = None
       THEN UNCHANGED <<cache_map, queue>>
       ELSE cache_map' = [cache_map EXCEPT ![IdOf[o]] = None] /\ Enqueue(o)
    /\ DropOwn(t, IdOf[o])
    /\ UNCHANGED <<now, stored, freed>>

Find(t, id) ==
    /\ found' = [found EXCEPT ![t] = cache_map[id]]
    /\ foundAt' = [foundAt EXCEPT ![t] = now]
    /\ UNCHANGED <<cache_map, queue, now, stored, freed>>

(* Seeded error: everything in the queue is freed. *)
Due_All(o) == o \in deletion_queue

Due(o) == o \in deletion_queue /\ now - deletedAt[o] > Period

garbage_collection ==
    /\ \E o \in Objects : Due(o)
    /\ freed' = freed \union {o \in Objects : Due(o)}
    /\ deletion_queue' = {o \in deletion_queue : ~Due(o)}
    /\ UNCHANGED <<cache_map, deletedAt, now, uses, stored>>

(* A second passes; by then a thread has let go of what it found Hold ago.   *)
Tick ==
    /\ now < MaxNow
    /\ now' = now + 1
    /\ found' = [t \in Threads |-> IF now - foundAt[t] < Hold THEN found[t] ELSE None]
    /\ UNCHANGED <<cache_map, queue, foundAt, stored, freed>>

Next ==
    \/ \E t \in Threads :
          \/ \E o \in Objects : Store(t, o) \/ Remove(t, o)
          \/ \E id \in Ids : Find(t, id)
    \/ garbage_collection \/ Tick

Spec == Init /\ [][Next]_vars

-----------------------------------------------------------------------------
(* Properties *)

(* A pointer that find() gave is good for Hold: whatever other threads store *)
(* and remove meanwhile, the object is not freed before Period is over.     *)
FoundStaysAlive == \A t \in Threads : found[t] \notin freed

(* The map never leads to an object that has been freed, or will be. *)
MapAlive == \A id \in Ids : cache_map[id] \notin freed \union deletion_queue

(* No object is freed twice: remove() does not look at what it queues, and   *)
(* may be given one that another thread has replaced, but none that is gone. *)
FreedOnce == deletion_queue \intersect freed = {}

(* cache.h: "Once stored in the cache the lifetime of the stored object is  *)
(* managed by the cache class": it is in the map, in the queue, or freed.   *)
(* So it is for the ids that one thread changes.  With two, remove() may be *)
(* given an object that has been replaced, and erases the newer one, which  *)
(* nothing frees.                                                           *)
Managed ==
    \A o \in stored :
        Sole(IdOf[o]) => cache_map[IdOf[o]] = o \/ o \in deletion_queue \/ o \in freed

(* Whichever threads change an id: no object is freed while it may be       *)
(* reached, or twice, and none is lost by a sole changer.                   *)
LifetimeManaged == FoundStaysAlive /\ MapAlive /\ FreedOnce /\ Managed
=============================================================================
