---------------------------- MODULE LoginCommand ----------------------------
(***************************************************************************)
(* The /login handler of src/src/cmd_mihoyo/login.cpp.  Every call starts  *)
(* an embedded Python interpreter, takes references to a chain of objects, *)
(* gives them back and stops the interpreter.  There is one interpreter in *)
(* the process: Py_Initialize does nothing when it is up, whoever started  *)
(* it, and Py_Finalize stops it under everybody.  Nothing orders the calls *)
(* of two shards.                                                          *)
(*                                                                         *)
(* Calling Python while another thread does is a data race, which may end  *)
(* the process; calling it while it is down does end it.                   *)
(***************************************************************************)
EXTENDS FiniteSets

CONSTANT Shards

VARIABLES
    up,          \* Py_IsInitialized()
    pc,          \* pc[s]: the call of the Python API that s makes next
    held,        \* held[s]: objects of which s owns one reference
    todo,        \* todo[s]: the Py_DECREFs that the return path still makes
    crashed,     \* the process has ended
    (* History: observes what the code does. *)
    raced,       \* shards whose call has overlapped another
    leaked,      \* leaked[s]: references that the latest call left behind
    refused      \* refused[s]: the attribute it found, which is not callable

observed == <<raced, leaked, refused>>
vars     == <<up, pc, held, todo, crashed, observed>>

(* For each step of the handler, the references that it obtains, and those  *)
(* that its early return gives back.                                        *)
Obtains == [import |-> {"genshin"}, class |-> {"Client"}, instance |-> {"clientInstance"},
            method |-> {"loginMethod"}, pack |-> {"email", "password", "args"},
            login |-> {"cookies"}]

(* Seeded error: the early return of a step gives its own object back too. *)
Unwinds_OwnToo ==
    [import |-> {}, class |-> {"genshin"}, instance |-> {"Client", "genshin"},
     method |-> {"loginMethod", "clientInstance", "Client", "genshin"},
     pack |-> {"loginMethod", "clientInstance", "Client", "genshin"}]

Unwinds ==
    [import |-> {}, class |-> {"genshin"}, instance |-> {"Client", "genshin"},
     method |-> {"clientInstance", "Client", "genshin"},
     pack |-> {"loginMethod", "clientInstance", "Client", "genshin"}]

LastReleases == {"cookies", "args", "loginMethod", "clientInstance", "Client", "genshin"}

Objects == UNION {Obtains[step] : step \in DOMAIN Obtains}
Running(s) == pc[s] # "idle"

Init ==
    /\ up = FALSE
    /\ pc = [s \in Shards |-> "idle"]
    /\ held = [s \in Shards |-> {}]
    /\ todo = [s \in Shards |-> {}]
    /\ crashed = FALSE
    /\ raced = {}
    /\ leaked = [s \in Shards |-> {}]
    /\ refused = [s \in Shards |-> {}]

-----------------------------------------------------------------------------
After(step) ==
    [import |-> "class", class |-> "instance", instance |-> "method",
     method |-> "pack", pack |-> "login", login |-> "print"][step]

Unwind(s, objects) ==
    /\ pc' = [pc EXCEPT ![s] = "release"]
    /\ todo' = [todo EXCEPT ![s] = objects]

(* Py_Initialize(). *)
Initialize(s) ==
    /\ ~crashed /\ pc[s] = "idle"
    /\ up' = TRUE
    /\ pc' = [pc EXCEPT ![s] = "import"]
    /\ leaked' = [leaked EXCEPT ![s] = {}]
    /\ refused' = [refused EXCEPT ![s] = {}]
    /\ LET others == {r \in Shards \ {s} : Running(r)}
       IN  raced' = (raced \ {s}) \union IF others = {} THEN {} ELSE others \union {s}
    /\ UNCHANGED <<held, todo, crashed>>

(* PyImport_ImportModule, PyObject_GetAttrString, PyObject_CallObject or    *)
(* PyTuple_Pack succeeds.                                                   *)
Obtain(s) ==
    /\ ~crashed /\ up /\ pc[s] \in DOMAIN Obtains
    /\ held' = [held EXCEPT ![s] = @ \union Obtains[pc[s]]]
    /\ pc' = [pc EXCEPT ![s] = After(pc[s])]
    /\ UNCHANGED <<up, todo, crashed, observed>>

(* Seeded error: the first early return forgets Py_Finalize. *)
Fail_StaysUp(s) ==
    /\ ~crashed /\ up /\ pc[s] \in DOMAIN Unwinds
    /\ held' = [held EXCEPT ![s] = @ \union (IF pc[s] = "pack" THEN {"email", "password"} ELSE {})]
    /\ IF pc[s] = "import" THEN pc' = [pc EXCEPT ![s] = "idle"] /\ UNCHANGED todo
                           ELSE Unwind(s, Unwinds[pc[s]])
    /\ UNCHANGED <<up, crashed, observed>>

(* It returns NULL.  PyTuple_Pack has got its two strings by then. *)
Fail(s) ==
    /\ ~crashed /\ up /\ pc[s] \in DOMAIN Unwinds
    /\ held' = [held EXCEPT ![s] = @ \union (IF pc[s] = "pack" THEN {"email", "password"} ELSE {})]
    /\ Unwind(s, Unwinds[pc[s]])
    /\ UNCHANGED <<up, crashed, observed>>

(* The attribute exists and PyCallable_Check refuses it. *)
NotCallable(s) ==
    /\ ~crashed /\ up /\ pc[s] \in {"class", "method"}
    /\ held' = [held EXCEPT ![s] = @ \union Obtains[pc[s]]]
    /\ refused' = [refused EXCEPT ![s] = Obtains[pc[s]]]
    /\ Unwind(s, Unwinds[pc[s]])
    /\ UNCHANGED <<up, crashed, raced, leaked>>

(* login_with_password raises: cookies is NULL, and Py_DECREF dereferences   *)
(* it before anything is given back.                                        *)
LoginFails(s) ==
    /\ ~crashed /\ up /\ pc[s] = "login"
    /\ crashed' = TRUE
    /\ UNCHANGED <<up, pc, held, todo, observed>>

(* login_with_password is a coroutine function: what it returned is no       *)
(* string, PyUnicode_AsUTF8 gives NULL, and std::cout << NULL is undefined:  *)
(* it puts the stream into an error state, or the process ends.             *)
PrintCookies(s) ==
    /\ ~crashed /\ up /\ pc[s] = "print"
    /\ \/ Unwind(s, LastReleases) /\ UNCHANGED crashed
       \/ crashed' = TRUE /\ UNCHANGED <<pc, todo>>
    /\ UNCHANGED <<up, held, observed>>

(* One Py_DECREF.  An object that is not owned may be gone. *)
Release(s, o) ==
    /\ ~crashed /\ up /\ pc[s] = "release" /\ o \in todo[s]
    /\ todo' = [todo EXCEPT ![s] = @ \ {o}]
    /\ held' = [held EXCEPT ![s] = @ \ {o}]
    /\ crashed' = (o \notin held[s])
    /\ UNCHANGED <<up, pc, observed>>

(* Seeded error: the interpreter is stopped before the references are back. *)
Finalize_Early(s) ==
    /\ ~crashed /\ pc[s] = "release"
    /\ up' = FALSE
    /\ pc' = [pc EXCEPT ![s] = IF todo[s] = {} THEN "idle" ELSE @]
    /\ held' = [held EXCEPT ![s] = IF todo[s] = {} THEN {} ELSE @]
    /\ leaked' = [leaked EXCEPT ![s] = held[s]]
    /\ UNCHANGED <<todo, crashed, raced, refused>>

(* Py_Finalize(), which does nothing when it is down, and the return. *)
Finalize(s) ==
    /\ ~crashed /\ pc[s] = "release" /\ todo[s] = {}
    /\ up' = FALSE
    /\ pc' = [pc EXCEPT ![s] = "idle"]
    /\ held' = [held EXCEPT ![s] = {}]
    /\ leaked' = [leaked EXCEPT ![s] = held[s]]
    /\ UNCHANGED <<todo, crashed, raced, refused>>

(* A call of the API while another thread is in it, or after it was stopped. *)
Break(s) ==
    /\ ~crashed /\ Running(s) /\ (s \in raced \/ ~up)
    /\ crashed' = TRUE
    /\ UNCHANGED <<up, pc, held, todo, observed>>

Step(s) ==
    \/ Obtain(s) \/ Fail(s) \/ NotCallable(s) \/ LoginFails(s) \/ PrintCookies(s)
    \/ (\E o \in todo[s] : Release(s, o)) \/ Finalize(s) \/ Break(s)

(* The process is started again. *)
Restart ==
    /\ crashed
    /\ up' = FALSE
    /\ pc' = [s \in Shards |-> "idle"]
    /\ held' = [s \in Shards |-> {}]
    /\ todo' = [s \in Shards |-> {}]
    /\ crashed' = FALSE
    /\ raced' = {}
    /\ leaked' = [s \in Shards |-> {}]
    /\ refused' = [s \in Shards |-> {}]

Next == Restart \/ \E s \in Shards : Initialize(s) \/ Step(s)

Spec == Init /\ [][Next]_vars

-----------------------------------------------------------------------------
(* Properties *)

(* A call that overlaps no other ends the process for one reason only: what  *)
(* the login gave is not a string.  None of its five early returns does.    *)
CrashExplained ==
    crashed => raced # {} \/ \E s \in Shards : pc[s] \in {"login", "print"}

(* A call that overlaps no other never owns a reference into an interpreter  *)
(* that has been stopped.                                                   *)
NoDanglingReference ==
    \A s \in Shards : held[s] # {} /\ s \notin raced => up

(* What a call leaves behind is the two strings that PyTuple_Pack takes its *)
(* own references to, or the attribute that is not callable: every other    *)
(* reference is given back on every path that returns.                      *)
LeaksAreKnown ==
    \A s \in Shards : leaked[s] \subseteq {"email", "password"} \union refused[s]

(* Between calls the interpreter is down: the next call starts it afresh,    *)
(* also after calls that overlapped and survived it.                        *)
DownBetweenCalls ==
    ~crashed /\ (\A s \in Shards : pc[s] = "idle") => ~up
=============================================================================
