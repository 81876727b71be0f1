---------------------------- MODULE AsyncLogging ----------------------------
(***************************************************************************)
(* The asynchronous loggers of src/include/spdlog: threads post messages   *)
(* to the queue of a thread pool, whose workers write them to the sinks.   *)
(* Condition variables are modelled by the threads that wait on them; a    *)
(* queue operation is one critical section of queue_mutex_, and the        *)
(* notification comes after it.  The pool is destroyed by the thread that  *)
(* lets go of it last, and that is any thread that is posting when main    *)
(* calls shutdown().  The queue is the sequence that CircularQueue         *)
(* implements.                                                             *)
(***************************************************************************)
EXTENDS Integers, Sequences, FiniteSets

CONSTANTS
    Clients, Main,    \* threads that log, and the thread that calls shutdown()
    Workers,          \* threads of the pool
    QSize,            \* q_max_items
    Policy,           \* Policy[c]: overflow_policy_ of the logger that c uses
    Severe,           \* the clients that log at flush_level_ or above
    MaxPosts          \* bound: what each client posts

VARIABLES
    q,           \* q_: the messages
    overruns,    \* overrun_counter_
    owners,      \* threads that hold a shared_ptr to the pool; Main's is the registry's
    pc, msg,     \* what a thread does; the message that it posts
    terminates,  \* terminate messages that ~thread_pool has posted
    wpc, held,   \* what a worker does; the message that it took
    file,        \* what the sink was given
    flushed,     \* how much of it has been flushed
    (* History *)
    sent,        \* sent[c]: posts that c began
    posted,      \* messages enqueued by clients
    handled      \* of these, the ones that a worker is done with

pool  == <<q, overruns, owners, terminates>>
sink  == <<file, flushed>>
vars  == <<pool, pc, msg, wpc, held, sink, sent, posted, handled>>

Threads  == Clients \union {Main}
None     == [type |-> "none"]
Message  == [type: {"log", "flush"}, from: Clients, n: 1..MaxPosts]
Terminate == [type |-> "terminate"]
Messages == Message \union {Terminate}

Init ==
    /\ q = <<>> /\ overruns = 0 /\ owners = {Main} /\ terminates = 0
    /\ pc = [t \in Threads |-> "idle"] /\ msg = [t \in Threads |-> None]
    /\ wpc = [w \in Workers |-> "idle"] /\ held = [w \in Workers |-> None]
    /\ file = <<>> /\ flushed = 0
    /\ sent = [c \in Clients |-> 0] /\ posted = 0 /\ handled = 0

-----------------------------------------------------------------------------
(* The queue *)

(* Seeded error: an overrun is not counted. *)
push_back_NotCounted(m) ==
    IF Len(q) = QSize THEN q' = Append(Tail(q), m) /\ UNCHANGED overruns
                      ELSE q' = Append(q, m) /\ UNCHANGED overruns

push_back(m) ==
    IF Len(q) = QSize THEN q' = Append(Tail(q), m) /\ overruns' = overruns + 1
                      ELSE q' = Append(q, m) /\ UNCHANGED overruns

(* async_overflow_policy::block: the logger's choice, or that of ~thread_pool. *)
Blocks(t) == msg[t].type = "terminate" \/ Policy[msg[t].from] = "block"

(* enqueue() and enqueue_nowait(), under the mutex. *)
Enqueue(t) ==
    /\ pc[t] = "try"
    /\ IF Blocks(t) /\ Len(q) = QSize
       THEN pc' = [pc EXCEPT ![t] = "waiting"] /\ UNCHANGED <<q, overruns, posted>>
       ELSE /\ push_back(msg[t])
            /\ posted' = IF msg[t] = Terminate THEN posted ELSE posted + 1
            /\ pc' = [pc EXCEPT ![t] = "notify"]
    /\ UNCHANGED <<owners, terminates, msg, wpc, held, sink, sent, handled>>

(* notify_one(): one of the threads that wait, if any does, looks again. *)
NotifyOne(state, now, again) ==
    IF \E x \in DOMAIN state : state[x] = "waiting"
    THEN \E x \in DOMAIN state : state[x] = "waiting" /\ now = [state EXCEPT ![x] = again]
    ELSE now = state

-----------------------------------------------------------------------------
(* thread_pool and async_logger *)

After(t) == IF t = Main THEN "done" ELSE "idle"

(* A shared_ptr to the pool is dropped: the last one runs ~thread_pool. *)
Release(t) ==
    LET left == owners \ {t}
    IN  /\ owners' = left
        /\ IF left = {}
           THEN /\ pc' = [pc EXCEPT ![t] = "try"] /\ msg' = [msg EXCEPT ![t] = Terminate]
                /\ terminates' = 1
           ELSE /\ pc' = [pc EXCEPT ![t] = After(t)]
                /\ msg' = [msg EXCEPT ![t] = None]
                /\ UNCHANGED terminates

(* sink_it_() and flush_(): thread_pool_.lock(); without a pool they throw. *)
Post(c, type) ==
    /\ pc[c] = "idle" /\ sent[c] < MaxPosts
    /\ sent' = [sent EXCEPT ![c] = @ + 1]
    /\ IF owners = {} THEN UNCHANGED <<owners, pc, msg>>
       ELSE /\ owners' = owners \union {c}
            /\ pc' = [pc EXCEPT ![c] = "try"]
            /\ msg' = [msg EXCEPT ![c] = [type |-> type, from |-> c, n |-> sent[c] + 1]]
    /\ UNCHANGED <<q, overruns, terminates, wpc, held, sink, posted, handled>>

(* push_cv_.notify_one(), and what comes after: the caller drops its pointer; *)
(* ~thread_pool posts the next terminate message, or joins the workers.     *)
Notify(t) ==
    /\ pc[t] = "notify"
    /\ NotifyOne(wpc, wpc', "idle")
    /\ IF msg[t] # Terminate THEN Release(t)
       ELSE /\ IF terminates < Cardinality(Workers)
               THEN pc' = [pc EXCEPT ![t] = "try"] /\ terminates' = terminates + 1
               ELSE pc' = [pc EXCEPT ![t] = "join"] /\ UNCHANGED terminates
            /\ UNCHANGED <<owners, msg>>
    /\ UNCHANGED <<q, overruns, held, sink, sent, posted, handled>>

(* ~thread_pool: t.join() for each worker *)
Join(t) ==
    /\ pc[t] = "join" /\ \A w \in Workers : wpc[w] = "exit"
    /\ pc' = [pc EXCEPT ![t] = After(t)] /\ msg' = [msg EXCEPT ![t] = None]
    /\ UNCHANGED <<pool, wpc, held, sink, sent, posted, handled>>

(* registry::shutdown(): tp_.reset() *)
Shutdown ==
    /\ pc[Main] = "idle" /\ Main \in owners
    /\ Release(Main)
    /\ UNCHANGED <<q, overruns, wpc, held, sink, sent, posted, handled>>

(* Seeded error: nobody is told unless the queue was full. *)
Dequeue_QuietUnlessFull(w) ==
    /\ wpc[w] = "idle"
    /\ IF q = <<>> THEN wpc' = [wpc EXCEPT ![w] = "waiting"] /\ UNCHANGED <<q, held>>
       ELSE /\ held' = [held EXCEPT ![w] = Head(q)] /\ q' = Tail(q)
            /\ wpc' = [wpc EXCEPT ![w] = IF Len(q) = QSize THEN "notify" ELSE "work"]
    /\ UNCHANGED <<overruns, owners, terminates, pc, msg, sink, sent, posted, handled>>

(* dequeue_for(), under the mutex *)
Dequeue(w) ==
    /\ wpc[w] = "idle"
    /\ IF q = <<>> THEN wpc' = [wpc EXCEPT ![w] = "waiting"] /\ UNCHANGED <<q, held>>
       ELSE /\ held' = [held EXCEPT ![w] = Head(q)] /\ q' = Tail(q)
            /\ wpc' = [wpc EXCEPT ![w] = "notify"]
    /\ UNCHANGED <<overruns, owners, terminates, pc, msg, sink, sent, posted, handled>>

(* Ten seconds have passed: dequeue_for() gives false, and worker_loop_      *)
(* calls it again.                                                          *)
Timeout(w) ==
    /\ wpc[w] = "waiting" /\ wpc' = [wpc EXCEPT ![w] = "idle"]
    /\ UNCHANGED <<pool, pc, msg, held, sink, sent, posted, handled>>

(* pop_cv_.notify_one() *)
NotifyRoom(w) ==
    /\ wpc[w] = "notify" /\ wpc' = [wpc EXCEPT ![w] = "work"]
    /\ NotifyOne(pc, pc', "try")
    /\ UNCHANGED <<pool, msg, held, sink, sent, posted, handled>>

(* should_flush_(), and the flush message *)
Flushes(m) == m.type = "flush" \/ m.from \in Severe

(* process_next_msg_(): the sink writes, or throws and the handler is told.  *)
Process(w) ==
    /\ wpc[w] = "work"
    /\ held' = [held EXCEPT ![w] = None]
    /\ IF held[w] = Terminate
       THEN wpc' = [wpc EXCEPT ![w] = "exit"] /\ UNCHANGED <<sink, handled>>
       ELSE /\ wpc' = [wpc EXCEPT ![w] = "idle"] /\ handled' = handled + 1
            /\ \/ file' = IF held[w].type = "log" THEN Append(file, held[w]) ELSE file
               \/ held[w].type = "log" /\ UNCHANGED file
            /\ flushed' = IF Flushes(held[w]) THEN Len(file') ELSE flushed
    /\ UNCHANGED <<pool, pc, msg, sent, posted>>

Next ==
    \/ \E c \in Clients : Post(c, "log") \/ Post(c, "flush")
    \/ \E t \in Threads : Enqueue(t) \/ Notify(t) \/ Join(t)
    \/ \E w \in Workers : Dequeue(w) \/ Timeout(w) \/ NotifyRoom(w) \/ Process(w)
    \/ Shutdown

Spec == Init /\ [][Next]_vars

-----------------------------------------------------------------------------
(* Properties *)

Pending(S) == {i \in DOMAIN q : q[i].type \in S}
Holding(S) == {w \in Workers : held[w].type \in S}

(* ~thread_pool has returned. *)
Destroyed == owners = {} /\ \A t \in Threads : msg[t] # Terminate

(* A message that was enqueued is in the queue, with a worker, or handled,   *)
(* and overrun_counter() says how many are not.                             *)
Accounted ==
    posted = handled + overruns + Cardinality(Pending({"log", "flush"}))
                                + Cardinality(Holding({"log", "flush"}))

(* async_logger.h: "Upon destruction, logs all remaining messages in the     *)
(* queue before destructing": none is left once the workers are joined.     *)
DrainedAtEnd == Destroyed => q = <<>> /\ \A w \in Workers : held[w] = None

(* Each worker has one terminate message to come until it exits; one that    *)
(* is overrun would leave ~thread_pool waiting.                             *)
TerminatesArrive ==
    (\E t \in Threads : pc[t] = "join") =>
        Cardinality(Pending({"terminate"})) + Cardinality(Holding({"terminate"}))
          = Cardinality({w \in Workers : wpc[w] # "exit"})

(* With one worker, what a thread logs is written in the order it logged it. *)
WrittenInOrder ==
    \A i, j \in DOMAIN file : i < j /\ file[i].from = file[j].from => file[i].n < file[j].n
=============================================================================
