--------------------------- MODULE CalendarFiles ---------------------------
(***************************************************************************)
(* daily_file_sink and hourly_file_sink of src/include/spdlog/sinks: a     *)
(* file for each period (day, hour), named by the time of the message that *)
(* opens it, the oldest deleted when there are more than max_files_.  Time *)
(* is in ticks, Period of them to a day; the sink rotates at tick Offset   *)
(* of a day (rotation_h_, rotation_m_; 0 for the hourly sink).  A file is  *)
(* the day it is named by.  Every call of the disk may fail, and the       *)
(* process may end and start again.                                        *)
(***************************************************************************)
EXTENDS Integers, Sequences, FiniteSets

CONSTANTS
    Period, Offset, MaxFiles,
    Hourly,             \* the hourly sink, which removes an empty first file
    Delays,             \* how much later than msg.time the sink gets a message
    Start, MaxNow, MaxFaults, MaxRestarts   \* first tick; bounds

VARIABLES
    now,                \* log_clock::now()
    file, fd_,          \* file_helper_: filename(), and whether it is open
    rotation_tp_,
    filenames_q_,
    remove_init_file_,
    disk,               \* the files that exist
    written,            \* whether bytes of the hourly sink's file are on the disk
    alive,              \* whether there is a sink: its process runs, it was constructed
    (* History *)
    made, emptied,      \* files that were opened; that were removed and held nothing
    reopened,           \* whether a file was opened that filenames_q_ holds already
    late,               \* whether a message was handled in another period than its own
    strays,             \* whether one was written to a file that is not its own, or to none
    faults, restarts

vars == <<now, file, fd_, rotation_tp_, filenames_q_, remove_init_file_, disk, written, alive,
          made, emptied, reopened, late, strays, faults, restarts>>

Day(t) == t \div Period

next_rotation_tp_(t) ==
    LET rotation_time == Day(t) * Period + Offset
    IN  IF rotation_time > t THEN rotation_time ELSE rotation_time + Period

(* init_filenames_q_(): the last files, back to the first day without one.   *)
LastFiles(t, existing) ==
    LET first == CHOOSE d \in 0..Day(t) :
                    /\ (d..Day(t)) \subseteq existing /\ Day(t) - d < MaxFiles
                    /\ d = 0 \/ d - 1 \notin existing \/ Day(t) - d = MaxFiles - 1
    IN  [i \in 1..(Day(t) - first + 1) |-> first + i - 1]

(* circular_q::push_back *)
Enqueued(q, d) == IF Len(q) = MaxFiles THEN Append(Tail(q), d) ELSE Append(q, d)

Fault == faults < MaxFaults /\ faults' = faults + 1

(* Seeded error: the file is deleted before there are too many. *)
delete_old_Early(open, existing) ==
    /\ filenames_q_' = Enqueued(filenames_q_, open)
    /\ disk' = IF filenames_q_ # <<>> THEN existing \ {Head(filenames_q_)} ELSE existing
    /\ UNCHANGED faults

(* delete_old_(): the oldest goes; when it cannot be removed, that is thrown. *)
delete_old_(open, existing) ==
    /\ filenames_q_' = Enqueued(filenames_q_, open)
    /\ \/ /\ disk' = IF Len(filenames_q_) = MaxFiles THEN existing \ {Head(filenames_q_)}
                                                     ELSE existing
          /\ UNCHANGED faults
       \/ /\ Len(filenames_q_) = MaxFiles /\ Head(filenames_q_) \in existing
          /\ Fault /\ disk' = existing

(* A file for a message with the time t: that of its day or, before the time  *)
(* of the rotation, that of the day before.                                 *)
Own(f, t) == f = Day(t) \/ (f = Day(t) - 1 /\ t < Day(t) * Period + Offset)

(* A message with the time t goes to the open file. *)
Write(t) ==
    /\ t < rotation_tp_ /\ remove_init_file_' = FALSE
    /\ \/ /\ fd_ /\ UNCHANGED <<alive, faults>>
          /\ strays' = (strays \/ ~Own(file, t))
       \/ fd_ /\ Fault /\ UNCHANGED <<alive, strays>>      \* the write fails
       \/ ~fd_ /\ strays' = TRUE /\ alive' = FALSE /\ UNCHANGED faults   \* fwrite to nullptr
    /\ written' \in {written, Hourly}
    /\ UNCHANGED <<file, fd_, rotation_tp_, filenames_q_, disk, made, emptied, reopened>>

(* It is the first of a new file.  The open may fail, with rotation_tp_ as it *)
(* was; the write, before the file is counted; and the removals, of which    *)
(* that of the empty file goes unnoticed.                                   *)
Rotate(t) ==
    /\ t >= rotation_tp_ /\ file' = Day(t)
    /\ \E left \in IF remove_init_file_ THEN {disk \ {file}, disk} ELSE {disk} :
           /\ emptied' = IF written THEN emptied ELSE emptied \union (disk \ left)
           /\ \/ /\ Fault /\ disk' = left /\ fd_' = FALSE /\ written' = FALSE
                 /\ UNCHANGED <<rotation_tp_, filenames_q_, remove_init_file_, made, reopened>>
              \/ /\ fd_' = TRUE /\ rotation_tp_' = next_rotation_tp_(now)
                 /\ remove_init_file_' = FALSE /\ written' \in {FALSE, Hourly}
                 /\ made' = made \union {file'}
                 /\ \/ Fault /\ disk' = left \union {file'} /\ UNCHANGED <<filenames_q_, reopened>>
                    \/ /\ delete_old_(file', left \union {file'})
                       /\ reopened' = (reopened \/ \E i \in DOMAIN filenames_q_ : filenames_q_[i] = file')
    /\ UNCHANGED <<alive, strays>>

(* sink_it_() of a message with the time t *)
Log(t) ==
    /\ alive /\ (Write(t) \/ Rotate(t))
    /\ late' = (late \/ Day(t) # Day(now) \/ (t < rotation_tp_ /\ rotation_tp_ <= now))
    /\ UNCHANGED <<now, restarts>>

Tick == now < MaxNow /\ now' = now + 1
        /\ UNCHANGED <<file, fd_, rotation_tp_, filenames_q_, remove_init_file_, disk, written, alive,
                       made, emptied, reopened, late, strays, faults, restarts>>

(* Whether the file that the constructor opens may have the size 0: what was  *)
(* logged to it may have been lost with the buffer.                         *)
BlankSizes ==
    IF Day(now) \notin disk \/ remove_init_file_ THEN {TRUE}
    ELSE IF written THEN {FALSE} ELSE BOOLEAN

(* The process ends, and the constructor opens the file of the day; it throws *)
(* when it cannot.                                                          *)
Restart ==
    /\ restarts < MaxRestarts /\ restarts' = restarts + 1
    /\ \/ \E blank \in BlankSizes :
           /\ file' = Day(now) /\ disk' = disk \union {Day(now)} /\ made' = made \union {Day(now)}
           /\ fd_' = TRUE /\ alive' = TRUE
           /\ rotation_tp_' = next_rotation_tp_(now)
           /\ filenames_q_' = LastFiles(now, disk')
           /\ remove_init_file_' = (Hourly /\ blank) /\ written' = (Hourly /\ ~blank)
           /\ UNCHANGED faults
       \/ /\ Fault /\ fd_' = FALSE /\ alive' = FALSE
          /\ UNCHANGED <<file, rotation_tp_, filenames_q_, remove_init_file_, disk, written, made>>
    /\ UNCHANGED <<now, emptied, reopened, late, strays>>

Init ==
    /\ now = Start /\ file = Day(Start) /\ fd_ = TRUE /\ disk = {Day(Start)} /\ alive = TRUE
    /\ rotation_tp_ = next_rotation_tp_(Start)
    /\ filenames_q_ = <<Day(Start)>> /\ remove_init_file_ = Hourly /\ written = FALSE
    /\ made = {Day(Start)} /\ emptied = {} /\ reopened = FALSE /\ late = FALSE /\ strays = FALSE
    /\ faults = 0 /\ restarts = 0

Next == (\E d \in Delays : d <= now /\ Log(now - d)) \/ Tick \/ Restart

Spec == Init /\ [][Next]_vars

-----------------------------------------------------------------------------
(* Properties *)

(* daily_file_sink.h: "retain only the last max_files and delete previous":  *)
(* in a life without failures, never more files than that,                  *)
OnlyTheLast == faults = 0 /\ restarts = 0 => Cardinality(disk) <= MaxFiles

(* and always the last of those it opened are there, but for one that held   *)
(* nothing.  A sink that rotates at another time than midnight may open a   *)
(* file twice and then counts it twice.                                     *)
LastRetained ==
    Offset = 0 \/ ~reopened =>
        \A d \in made : Cardinality({e \in made : e > d}) < MaxFiles => d \in disk \union emptied

(* A message that is handled in its own period is written to its own file:   *)
(* never to another, and never with none open.                              *)
OwnFile == ~late => ~strays

=============================================================================
