------------------------ MODULE CommandRegistration ------------------------
(***************************************************************************)
(* How the bot's slash commands get to Discord: the on_ready handler of    *)
(* src/src/main.cpp calls slashcommand_create (src/cores/cmd_configure.h), *)
(* which sends the whole table of commands once per process, guarded by    *)
(* dpp::run_once (src/include/dpp/once.h); and how a slash command that a  *)
(* user calls is dispatched by that table.                                 *)
(*                                                                         *)
(* Every shard has a thread and gets a READY of its own whenever it opens  *)
(* a new session.  The flag of run_once is an ordinary static variable:    *)
(* std::exchange reads it and writes it in two steps, between which the    *)
(* thread of another shard may run.  The request is answered later by      *)
(* Discord, and a refusal is only logged.                                  *)
(***************************************************************************)
EXTENDS Naturals, FiniteSets

CONSTANTS
    Shards,
    Tables,        \* the tables of commands that releases of the bot have
    MaxLives       \* bound: starts of the process

ASSUME BoundIsNat == MaxLives \in Nat \ {0}

VARIABLES
    commands,      \* the table of the release that runs
    called,        \* run_once<register_commands>: its static flag
    pc,            \* pc[s]: where the thread of shard s stands
    seen,          \* seen[s]: what std::exchange has read for s
    inflight,      \* inflight[s]: requests of s that Discord has not answered
    published,     \* the global commands that Discord offers to users
    (* History: observes what the code does. *)
    life,          \* starts of the process so far
    attempts,      \* attempts[s]: registrations that s has begun in this life
    accepted,      \* Discord has accepted a registration of this life
    failed,        \* a registration of this life has thrown or been refused
    ignored        \* the latest slash command was in no table and went unanswered

process == <<commands, called, pc, seen>>
counts  == <<life, attempts>>
results == <<accepted, failed>>
vars    == <<process, inflight, published, counts, results, ignored>>

Names == UNION Tables

TypeOK ==
    /\ commands \in Tables
    /\ called \in BOOLEAN
    /\ pc \in [Shards -> {"offline", "ready", "exchange", "submit", "online"}]
    /\ seen \in [Shards -> BOOLEAN]
    /\ inflight \in [Shards -> Nat]
    /\ published \in SUBSET Names
    /\ life \in 1..MaxLives
    /\ attempts \in [Shards -> Nat]
    /\ accepted \in BOOLEAN /\ failed \in BOOLEAN /\ ignored \in BOOLEAN

(* Discord may hold the table of an earlier release. *)
Init ==
    /\ commands \in Tables
    /\ called = FALSE
    /\ pc = [s \in Shards |-> "offline"]
    /\ seen = [s \in Shards |-> FALSE]
    /\ inflight = [s \in Shards |-> 0]
    /\ published \in Tables \union {{}}
    /\ life = 1
    /\ attempts = [s \in Shards |-> 0]
    /\ accepted = FALSE
    /\ failed = FALSE
    /\ ignored = FALSE

-----------------------------------------------------------------------------
(* on_ready *)

Go(s, from, to) ==
    /\ pc[s] = from
    /\ pc' = [pc EXCEPT ![s] = to]

(* The shard opens a session; its thread enters the on_ready handler. *)
Ready(s) ==
    /\ Go(s, "offline", "ready")
    /\ UNCHANGED <<commands, called, seen, inflight, published, counts, results, ignored>>

(* Seeded error: the sense of run_once is reversed. *)
ReadFlag_Reversed(s) ==
    /\ Go(s, "ready", "exchange")
    /\ seen' = [seen EXCEPT ![s] = ~called]
    /\ UNCHANGED <<commands, called, inflight, published, counts, results, ignored>>

(* std::exchange(called, true), first half. *)
ReadFlag(s) ==
    /\ Go(s, "ready", "exchange")
    /\ seen' = [seen EXCEPT ![s] = called]
    /\ UNCHANGED <<commands, called, inflight, published, counts, results, ignored>>

(* Seeded error: the flag is not set, so that every READY registers. *)
FlagWritten_Not == called

FlagWritten == TRUE

(* std::exchange, second half, and the branch on what it returned. *)
WriteFlag(s) ==
    /\ Go(s, "exchange", IF seen[s] THEN "online" ELSE "submit")
    /\ called' = FlagWritten
    /\ UNCHANGED <<commands, seen, inflight, published, counts, results, ignored>>

(* global_bulk_command_create queues one request and returns. *)
Submit(s) ==
    /\ Go(s, "submit", "online")
    /\ attempts' = [attempts EXCEPT ![s] = @ + 1]
    /\ inflight' = [inflight EXCEPT ![s] = @ + 1]
    /\ UNCHANGED <<commands, called, seen, published, life, results, ignored>>

(* Building the commands throws; on_ready catches it and prints a line. *)
SubmitThrows(s) ==
    /\ Go(s, "submit", "online")
    /\ attempts' = [attempts EXCEPT ![s] = @ + 1]
    /\ failed' = TRUE
    /\ UNCHANGED <<commands, called, seen, inflight, published, life, accepted, ignored>>

-----------------------------------------------------------------------------
(* Discord *)

(* Seeded error: the commands are created, and none is deleted. *)
Overwritten_Adds == published \union commands

(* "Any existing global slash commands will be deleted and replaced." *)
Overwritten == commands

Accept(s) ==
    /\ inflight[s] > 0
    /\ inflight' = [inflight EXCEPT ![s] = @ - 1]
    /\ published' = Overwritten
    /\ accepted' = TRUE
    /\ UNCHANGED <<process, counts, failed, ignored>>

(* The request fails: utility::log_error logs it, and nothing else. *)
Refuse(s) ==
    /\ inflight[s] > 0
    /\ inflight' = [inflight EXCEPT ![s] = @ - 1]
    /\ failed' = TRUE
    /\ UNCHANGED <<process, published, counts, accepted, ignored>>

-----------------------------------------------------------------------------
(* on_slashcommand: a command that is in the table is handled (by a module  *)
(* of its own), another is dropped without an answer.                       *)
SlashCommand(s, name) ==
    /\ pc[s] = "online"
    /\ name \in published
    /\ ignored' = (name \notin commands)
    /\ UNCHANGED <<process, inflight, published, counts, results>>

(* The connection is lost, or an exception left a handler of the shard: the *)
(* shard connects again.                                                    *)
Disconnect(s) ==
    /\ Go(s, "online", "offline")
    /\ UNCHANGED <<commands, called, seen, inflight, published, counts, results, ignored>>

(* The process ends and a release starts.  Of the requests in flight Discord *)
(* may have got one or none.                                                *)
Restart ==
    /\ life < MaxLives
    /\ life' = life + 1
    /\ commands' \in Tables
    /\ called' = FALSE
    /\ pc' = [s \in Shards |-> "offline"]
    /\ seen' = [s \in Shards |-> FALSE]
    /\ inflight' = [s \in Shards |-> 0]
    /\ published' \in {published} \union
                      {t \in {Overwritten} : \E s \in Shards : inflight[s] > 0}
    /\ attempts' = [s \in Shards |-> 0]
    /\ accepted' = FALSE
    /\ failed' = FALSE
    /\ ignored' = FALSE

-----------------------------------------------------------------------------
Handler(s) == ReadFlag(s) \/ WriteFlag(s) \/ Submit(s) \/ SubmitThrows(s)
Answer(s)  == Accept(s) \/ Refuse(s)

Next ==
    \/ \E s \in Shards :
          \/ Ready(s) \/ Handler(s) \/ Answer(s) \/ Disconnect(s)
          \/ \E name \in Names : SlashCommand(s, name)
    \/ Restart

(* A handler that has begun runs on, and Discord answers every request. *)
Spec == Init /\ [][Next]_vars /\ \A s \in Shards : WF_vars(Handler(s)) /\ WF_vars(Answer(s))

-----------------------------------------------------------------------------
(* Properties *)

(* once.h: "Run some code within an if() statement only once." *)
RegisteredOnce ==
    \A s, r \in Shards : attempts[s] > 0 /\ attempts[r] > 0 => s = r /\ attempts[s] = 1

(* A shard that loses its session and gets another READY does not register  *)
(* again, also when it was one of several that raced for the flag; the      *)
(* requests in flight are therefore never more than the shards.             *)
OncePerShard == \A s \in Shards : attempts[s] <= 1 /\ inflight[s] <= attempts[s]

(* A command goes unanswered for want of a table entry only until Discord   *)
(* has accepted this process's table, whatever an earlier release left      *)
(* there and however many shards registered.                                *)
IgnoredOnlyBeforeAcceptance ==
    [][ accepted /\ ~ignored => ~ignored' ]_vars

(* After the first READY of a process its commands come to be accepted,     *)
(* unless a registration fails: the shard that does not register leaves it  *)
(* to one that does.  After a failure the code makes no further attempt.    *)
EventuallyRegistered ==
    \A s \in Shards, n \in 1..MaxLives :
        (pc[s] = "ready" /\ life = n) ~> (accepted \/ failed \/ life > n)
=============================================================================
