----------------------------- MODULE MCLogging -----------------------------
(***************************************************************************)
(* The parts of spdlog for TLC.  They share no state, so a behaviour        *)
(* explores one of them and leaves the others as they begin: the ring       *)
(* CircularQueue, a thread pool (AsyncLogging) with one worker or with two, *)
(* a rotating file, and calendar files: of the hourly sink, of the daily   *)
(* sink that rotates at midnight or at another time.                        *)
(***************************************************************************)
EXTENDS CircularQueue

CONSTANTS
    MaxOverruns,                                           \* of the ring; bound
    c1, c2, Main, w1, w2, QSize, MaxPosts,                 \* AsyncLogging
    MaxSize, MaxFiles, Sizes, Missing, MaxMessages, MaxFaults,   \* RotatingFile
    Period, Offset, Delays, Start, MaxNow, MaxRestarts     \* CalendarFiles

(* Two threads that log and the main thread; a queue that holds a message;   *)
(* what is no file is not the content of one; files are limited in number.   *)
ASSUME PoolAssumption == Main \notin {c1, c2} /\ QSize \in Nat \ {0} /\ MaxPosts \in Nat
ASSUME RotatingAssumption ==
    /\ MaxSize \in Nat /\ MaxFiles \in Nat /\ Sizes \subseteq Nat
    /\ Missing \notin Seq([n: 1..MaxMessages, size: Nat, whole: BOOLEAN])
ASSUME CalendarAssumption ==
    /\ Period \in Nat \ {0} /\ Offset \in 0..(Period - 1) /\ Delays \subseteq Nat
    /\ Start \in Nat /\ MaxFiles # 0

VARIABLES
    part,
    q, overruns, owners, pc, msg, terminates, wpc, held, file, flushed, sent, posted, handled,
    files, fd_, current_size_, on_disk, alive, logged, faults,
    now, day_file, day_fd, rotation_tp_, filenames_q_, remove_init_file_, disk, written, day_alive,
    made, emptied, reopened, late, strays, day_faults, restarts

queue    == vars
pool     == <<q, overruns, owners, pc, msg, terminates, wpc, held, file, flushed, sent, posted, handled>>
rotating == <<files, fd_, current_size_, on_disk, alive, logged, faults>>
calendar == <<now, day_file, day_fd, rotation_tp_, filenames_q_, remove_init_file_, disk, written,
              day_alive, made, emptied, reopened, late, strays, day_faults, restarts>>
state    == <<part, queue, pool, rotating, calendar>>

Clients == {c1, c2}
OneOfEach == [c \in Clients |-> IF c = c1 THEN "block" ELSE "overrun_oldest"]
BothBlock == [c \in Clients |-> "block"]

(* A pool of the setting s, and its settings with one worker and with two. *)
Pool(s) == INSTANCE AsyncLogging
             WITH Clients <- s.clients, Main <- s.main, Workers <- s.workers, QSize <- s.size,
                  Policy <- s.policy, Severe <- s.severe, MaxPosts <- s.posts

OneWorker  == [clients |-> Clients, main |-> Main, workers |-> {w1}, size |-> QSize,
               policy |-> BothBlock, severe |-> {c2}, posts |-> MaxPosts]
TwoWorkers == [clients |-> Clients, main |-> Main, workers |-> {w1, w2}, size |-> 1,
               policy |-> OneOfEach, severe |-> {c2}, posts |-> 1]

Rotating == INSTANCE RotatingFile

(* The files of a sink of the setting s, and the settings. *)
Files(s) == INSTANCE CalendarFiles
              WITH Hourly <- s.hourly, Offset <- s.offset,
                   file <- day_file, fd_ <- day_fd, alive <- day_alive, faults <- day_faults

HourlyFiles == [hourly |-> TRUE,  offset |-> 0]
DailyFiles  == [hourly |-> FALSE, offset |-> 0]
LaterFiles  == [hourly |-> FALSE, offset |-> Offset]

LoggingInit ==
    /\ part \in {"ring", "one worker", "two workers", "rotating", "hourly", "daily", "daily later"}
    /\ Init /\ Rotating!Init
    /\ IF part = "two workers" THEN Pool(TwoWorkers)!Init ELSE Pool(OneWorker)!Init
    /\ CASE part = "hourly" -> Files(HourlyFiles)!Init
         [] part = "daily later" -> Files(LaterFiles)!Init
         [] OTHER -> Files(DailyFiles)!Init

LoggingNext ==
    /\ part' = part
    /\ \/ /\ part = "ring" /\ Next /\ overrun_counter_' <= MaxOverruns
          /\ UNCHANGED <<pool, rotating, calendar>>
       \/ /\ part = "one worker" /\ Pool(OneWorker)!Next
          /\ UNCHANGED <<queue, rotating, calendar>>
       \/ /\ part = "two workers" /\ Pool(TwoWorkers)!Next
          /\ UNCHANGED <<queue, rotating, calendar>>
       \/ /\ part = "rotating" /\ Rotating!Next
          /\ UNCHANGED <<queue, pool, calendar>>
       \/ /\ part = "hourly" /\ Files(HourlyFiles)!Next
          /\ UNCHANGED <<queue, pool, rotating>>
       \/ /\ part = "daily" /\ Files(DailyFiles)!Next
          /\ UNCHANGED <<queue, pool, rotating>>
       \/ /\ part = "daily later" /\ Files(LaterFiles)!Next
          /\ UNCHANGED <<queue, pool, rotating>>

(* Threads that can run do; main calls shutdown().  A mutex is held only for *)
(* a moment.  Nothing is said of the timeout of dequeue_for: no wakeup may   *)
(* be lost.                                                                 *)
Runs(p, A) == part = p /\ A /\ UNCHANGED <<part, queue, rotating, calendar>>
Fairness ==
    /\ WF_state(Runs("one worker", Pool(OneWorker)!Shutdown)) /\ WF_state(Runs("two workers", Pool(TwoWorkers)!Shutdown))
    /\ \A t \in Clients \union {Main} :
          /\ WF_state(Runs("one worker", Pool(OneWorker)!Enqueue(t) \/ Pool(OneWorker)!Notify(t) \/ Pool(OneWorker)!Join(t)))
          /\ WF_state(Runs("two workers", Pool(TwoWorkers)!Enqueue(t) \/ Pool(TwoWorkers)!Notify(t) \/ Pool(TwoWorkers)!Join(t)))
    /\ WF_state(Runs("one worker", Pool(OneWorker)!Dequeue(w1) \/ Pool(OneWorker)!NotifyRoom(w1) \/ Pool(OneWorker)!Process(w1)))
    /\ \A w \in {w1, w2} :
          WF_state(Runs("two workers", Pool(TwoWorkers)!Dequeue(w) \/ Pool(TwoWorkers)!NotifyRoom(w) \/ Pool(TwoWorkers)!Process(w)))

LoggingSpec == LoggingInit /\ [][LoggingNext]_state /\ Fairness

-----------------------------------------------------------------------------
(* Properties.  Of the ring: ImplementsBoundedQueue. *)

(* Every message that was enqueued is in the queue, with a worker, handled or *)
(* counted as overrun; ~thread_pool leaves none behind, whichever thread     *)
(* runs it, and its terminate messages reach every worker.  With one worker  *)
(* what a thread logs is written in the order it logged it.                  *)
MessagesAccounted ==
    /\ part = "one worker" =>
          Pool(OneWorker)!Accounted /\ Pool(OneWorker)!DrainedAtEnd /\ Pool(OneWorker)!TerminatesArrive /\ Pool(OneWorker)!WrittenInOrder
    /\ part = "two workers" =>
          Pool(TwoWorkers)!Accounted /\ Pool(TwoWorkers)!DrainedAtEnd /\ Pool(TwoWorkers)!TerminatesArrive

(* No wakeup is lost: a post that waits for room comes back, and the pool is *)
(* destroyed, however full the queue is.                                    *)
PoolRuns ==
    /\ part = "one worker" => <>Pool(OneWorker)!Destroyed
    /\ part = "two workers" => <>Pool(TwoWorkers)!Destroyed
    /\ \A c \in Clients : pc[c] = "waiting" ~> pc[c] = "idle"

(* Whatever fails, the messages of a rotated file stay within max_size_ but   *)
(* for one that is larger by itself, with no more parts of others than there *)
(* were failures, and in order; when nothing fails they are the last ones    *)
(* without a gap.                                                           *)
RotationKeeps == Rotating!SizesBounded /\ Rotating!KeptInOrder /\ Rotating!LastMessagesKept

(* daily_file_sink.h: "retain only the last max_files and delete previous":  *)
(* the last files that the sink opened are there, whatever failed and after  *)
(* restarts too; those of one life without failures are never more than      *)
(* that; and a message that is not late is in the file of its period.        *)
Retains(s) == Files(s)!LastRetained /\ Files(s)!OnlyTheLast /\ Files(s)!OwnFile
CalendarRetains ==
    /\ part = "hourly" => Retains(HourlyFiles)
    /\ part = "daily" => Retains(DailyFiles)
    /\ part = "daily later" => Retains(LaterFiles)
=============================================================================
