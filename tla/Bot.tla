-------------------------------- MODULE Bot --------------------------------
(***************************************************************************)
(* The process of src/src/main.cpp: start-up (StartUp) and, once the        *)
(* cluster runs, the calls of /login that its shards make (LoginCommand).  *)
(***************************************************************************)
EXTENDS StartUp

CONSTANTS
    Shards,
    LoginFiles    \* the files after which calls are explored: the handler
                  \* reads nothing that start-up left, so one will do

VARIABLES up, pc, held, todo, crashed, raced, leaked, refused   \* LoginCommand

login == <<up, pc, held, todo, crashed, raced, leaked, refused>>

Login == INSTANCE LoginCommand

BotInit == Init /\ Login!Init

Starting == Next /\ UNCHANGED login

Serving ==
    /\ main = "running" /\ content \in LoginFiles
    /\ Login!Next
    /\ UNCHANGED vars

BotNext == Starting \/ Serving
BotSpec == BotInit /\ [][BotNext]_<<vars, login>>

-----------------------------------------------------------------------------
(* Properties of the calls of /login *)

(* A call that overlaps no other ends the process for one reason only: what  *)
(* the login gave is not a string.  None of its five early returns does.    *)
CrashExplained == Login!CrashExplained

(* A call that overlaps no other never owns a reference into an interpreter  *)
(* that has been stopped, and on every path that returns it gives back all   *)
(* but the arguments of a tuple and an attribute that is not callable.      *)
ReferencesAccounted == Login!NoDanglingReference /\ Login!LeaksAreKnown

(* Between calls the interpreter is down: the next call starts it afresh,    *)
(* also after calls that overlapped and survived it.                        *)
DownBetweenCalls == Login!DownBetweenCalls
=============================================================================
