---------------------------- MODULE RotatingFile ----------------------------
(***************************************************************************)
(* rotating_file_sink of src/include/spdlog/sinks, with the file_helper it *)
(* writes through: log.txt is renamed log.1.txt, log.1.txt log.2.txt and   *)
(* so on when the next message does not fit.  Every call of the disk may   *)
(* fail: a write, which leaves a part of the message, a flush, which loses *)
(* what was buffered, a rename, an open; and the process may end, with or  *)
(* without writing out its buffer, and start again.  A file is a sequence  *)
(* of pieces: a message is its number and its size, and what is left of    *)
(* one that a failure cut off is its number and the bytes that are there.  *)
(***************************************************************************)
EXTENDS Integers, Sequences, FiniteSets

CONSTANTS
    MaxSize, MaxFiles,  \* max_size_, max_files_
    Sizes,              \* the sizes of messages, which are not empty
    Missing,            \* no file
    MaxMessages, MaxFaults   \* bounds

VARIABLES
    files,          \* files[i]: the pieces of file i, or Missing
    fd_,            \* whether the file is open
    current_size_,
    on_disk,        \* pieces of the open file that are no longer in the buffer only
    alive,          \* whether there is a sink: its process runs, it was constructed
    (* History *)
    logged,         \* messages that the sink was asked to write
    faults

vars == <<files, fd_, current_size_, on_disk, alive, logged, faults>>

Index   == 0..MaxFiles
Message == [n: 1..MaxMessages, size: Sizes, whole: {TRUE}]

(* The bytes of a file in pieces of some kinds: {TRUE} for whole messages,   *)
(* BOOLEAN for all.                                                         *)
SizeOf(f, kinds) ==
    LET size[i \in 0..Len(f)] ==
            IF i = 0 THEN 0 ELSE size[i - 1] + (IF f[i].whole \in kinds THEN f[i].size ELSE 0)
    IN  size[Len(f)]

(* The first bytes of a piece. *)
Part(m, bytes) == [n |-> m.n, size |-> bytes, whole |-> FALSE]

(* What may be left of a file when the pieces behind the first ones were     *)
(* buffered only and are lost.                                              *)
Cut(f, first) ==
    {SubSeq(f, 1, k) : k \in first..Len(f)} \union
    UNION {{Append(SubSeq(f, 1, k - 1), Part(f[k], b)) : b \in 1..(f[k].size - 1)}
              : k \in (first + 1)..Len(f)}

Exists(i) == files[i] # Missing

(* Seeded error: the renames start with the youngest file. *)
Shifted_Ascending(low) ==
    [i \in Index |-> IF i < low THEN files[i]
                     ELSE IF Exists(low - 1) THEN (IF i = MaxFiles THEN files[low - 1] ELSE Missing)
                     ELSE files[i]]

(* The files low to MaxFiles after the renames into them, the oldest first:  *)
(* each is the one before it, if there is one.                              *)
Shifted(low) ==
    [i \in Index |-> IF i < low THEN IF i = low - 1 THEN Missing ELSE files[i]
                     ELSE IF Exists(i - 1) THEN files[i - 1]
                     ELSE IF i = MaxFiles THEN files[i] ELSE Missing]

(* rotate_(): all renames succeed, and the new file is opened. *)
Rotated == [Shifted(1) EXCEPT ![0] = <<>>]

(* The rename into k has failed twice.  The target is deleted, unless that    *)
(* failed as well (only the last file is still there to be one), and `top`   *)
(* is what the open that truncates makes of the log file.                   *)
Unrenamed(k, target, top) ==
    [[Shifted(k + 1) EXCEPT ![k] = target, ![k - 1] = files[k - 1]] EXCEPT ![0] = top]

Targets(k) == IF k = MaxFiles THEN {Missing, files[k]} ELSE {Missing}

Fault == faults < MaxFaults /\ faults' = faults + 1

(* The ways in which rotate_() throws: a rename fails and the file is opened  *)
(* again, or not; or all renames succeed and the open fails, before the file *)
(* is created or between the two opens.                                     *)
Reopened ==
    \E k \in 1..MaxFiles : Exists(k - 1) /\ \E t \in Targets(k) : files' = Unrenamed(k, t, <<>>)

NotReopened ==
    \/ \E k \in 1..MaxFiles : Exists(k - 1) /\ \E t \in Targets(k), top \in {files[0], <<>>} :
           files' = Unrenamed(k, t, top)
    \/ files' \in {Shifted(1), Rotated}

With(fs, f) == [fs EXCEPT ![0] = f]
Write(fs, m) == With(fs, Append(fs[0], m))

(* file_helper::write() to the log file of fs, of which the first pieces are  *)
(* no longer in the buffer, and the size that sink_it_() notes then.  fwrite *)
(* fails when it cannot write out the buffer, or after a part of m.         *)
WriteOut(fs, first, new_size, m) ==
    /\ \/ files' = Write(fs, m) /\ current_size_' = new_size /\ UNCHANGED faults
       \/ /\ Fault /\ UNCHANGED current_size_
          /\ \/ \E f \in Cut(fs[0], first) : files' = With(fs, f)
             \/ \E b \in 1..(m.size - 1) : files' = Write(fs, Part(m, b))
    /\ on_disk' = first /\ UNCHANGED <<fd_, alive>>

(* fflush fails, or the size cannot be read: both throw. *)
FlushThrows ==
    /\ fd_ /\ Fault
    /\ \E f \in Cut(files[0], on_disk) : files' = With(files, f)
    /\ UNCHANGED <<fd_, current_size_, on_disk, alive>>

Full(m) == current_size_ + m.size > MaxSize

(* sink_it_(): what the disk does is chosen here.                            *)
Log(m) ==
    /\ alive /\ m.n = logged + 1 /\ logged' = logged + 1
    /\ \/ ~Full(m) /\ fd_ /\ WriteOut(files, on_disk, current_size_ + m.size, m)
       \/ ~Full(m) /\ ~fd_ /\ alive' = FALSE   \* fwrite to nullptr
          /\ UNCHANGED <<files, fd_, current_size_, on_disk, faults>>
       \/ Full(m) /\ ~fd_   \* size() throws
          /\ UNCHANGED <<files, fd_, current_size_, on_disk, alive, faults>>
       \/ Full(m) /\ FlushThrows
       \/ Full(m) /\ fd_ /\ files[0] = <<>> /\ WriteOut(files, 0, current_size_ + m.size, m)
       \/ Full(m) /\ fd_ /\ files[0] # <<>> /\ WriteOut(Rotated, 0, m.size, m)
       \/ Full(m) /\ fd_ /\ files[0] # <<>> /\ Fault /\ on_disk' = 0
          /\ \/ Reopened /\ fd_' = TRUE /\ current_size_' = 0
             \/ NotReopened /\ fd_' = FALSE /\ UNCHANGED current_size_
          /\ UNCHANGED alive

(* flush_() *)
Flush ==
    /\ alive /\ UNCHANGED logged
    /\ \/ FlushThrows
       \/ fd_ /\ on_disk' = Len(files[0])
          /\ UNCHANGED <<files, fd_, current_size_, alive, faults>>

(* The sink is destroyed, or the process is killed with what it buffered.     *)
Stop ==
    /\ alive /\ alive' = FALSE /\ fd_' = FALSE /\ current_size_' = 0 /\ on_disk' = 0
    /\ \/ UNCHANGED <<files, faults>>
       \/ fd_ /\ Fault /\ \E f \in Cut(files[0], on_disk) : files' = With(files, f)
    /\ UNCHANGED logged

(* The constructor opens the file, and may rotate it (rotate_on_open).  It    *)
(* throws when the open, the size or the rotation does: there is no sink.   *)
Construct ==
    /\ ~alive /\ UNCHANGED logged
    /\ LET f == IF Exists(0) THEN files ELSE With(files, <<>>)
       IN  \/ /\ files' = f /\ current_size_' = SizeOf(f[0], BOOLEAN) /\ on_disk' = Len(f[0])
             /\ fd_' = TRUE /\ alive' = TRUE /\ UNCHANGED faults
          \/ /\ Exists(0) /\ files[0] # <<>>
             /\ files' = Rotated /\ current_size_' = 0 /\ on_disk' = 0
             /\ fd_' = TRUE /\ alive' = TRUE /\ UNCHANGED faults
          \/ /\ Fault
             /\ \/ files' \in {files, f}
                \/ Exists(0) /\ files[0] # <<>> /\ (Reopened \/ NotReopened)
             /\ UNCHANGED <<fd_, current_size_, on_disk, alive>>

Init ==
    /\ files = [i \in Index |-> IF i = 0 THEN <<>> ELSE Missing]
    /\ fd_ = TRUE /\ current_size_ = 0 /\ on_disk = 0 /\ alive = TRUE
    /\ logged = 0 /\ faults = 0

Next == (\E m \in Message : Log(m)) \/ Flush \/ Stop \/ Construct

Spec == Init /\ [][Next]_vars

-----------------------------------------------------------------------------
(* Properties *)

Content(i) == IF Exists(i) THEN files[i] ELSE <<>>

(* The messages that are kept, by their numbers. *)
Kept == UNION {{Content(i)[a].n : a \in {a \in DOMAIN Content(i) : Content(i)[a].whole}} : i \in Index}

(* Whatever fails, the messages of a file are within max_size_ together, or   *)
(* there is a single one, larger by itself; and it holds no more parts of    *)
(* other messages than there were failures.                                 *)
SizesBounded ==
    \A i \in Index :
        /\ SizeOf(Content(i), {TRUE}) > MaxSize =>
              \A a, b \in DOMAIN Content(i) : Content(i)[a].whole /\ Content(i)[b].whole => a = b
        /\ Cardinality({a \in DOMAIN Content(i) : ~Content(i)[a].whole}) <= faults

(* Over all files, the oldest first, messages are in the order they were     *)
(* logged.                                                                  *)
KeptInOrder ==
    \A i, j \in Index : \A a \in DOMAIN Content(i), b \in DOMAIN Content(j) :
        i > j \/ (i = j /\ a < b) => Content(i)[a].n < Content(j)[b].n

(* As long as nothing fails, what is lost is the oldest: with a message all   *)
(* that were logged after it are kept.                                      *)
LastMessagesKept == faults = 0 => \A n \in Kept : n..logged \subseteq Kept
=============================================================================
