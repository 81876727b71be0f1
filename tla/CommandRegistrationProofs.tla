--------------------- MODULE CommandRegistrationProofs ---------------------
(***************************************************************************)
(* Proofs about CommandRegistration, for every set of shards, all tables   *)
(* and any number of restarts.                                             *)
(***************************************************************************)
EXTENDS CommandRegistration, TLAPS

(* A shard that may still come to register has not registered yet; one that *)
(* has registered has set the flag, which nothing but a restart resets.     *)
MayRegister(s) == pc[s] = "submit" \/ (pc[s] = "exchange" /\ ~seen[s])
RegistersFirst == \A s \in Shards : MayRegister(s) => attempts[s] = 0
FlagIsSet ==
    \A s \in Shards :
        /\ attempts[s] > 0 => called
        /\ pc[s] = "submit" => called

(* What Discord offers once it has accepted is the table of this process.    *)
OffersOwn == accepted => published = commands

IInv == TypeOK /\ RegistersFirst /\ FlagIsSet /\ OncePerShard /\ OffersOwn

-----------------------------------------------------------------------------
LEMMA TablesOfNames == \A t \in Tables : t \in SUBSET Names
BY DEF Names

LEMMA FirstLife == 1 \in 1..MaxLives
BY BoundIsNat

LEMMA IInvInit == Init => IInv
<1>1. Init => published \in SUBSET Names
  BY TablesOfNames DEF Init
<1>2. Init => TypeOK
  <2>1. Init => called \in BOOLEAN /\ seen \in [Shards -> BOOLEAN]
    BY DEF Init
  <2>2. Init => accepted \in BOOLEAN /\ failed \in BOOLEAN /\ ignored \in BOOLEAN
    BY DEF Init
  <2>3. Init => life \in 1..MaxLives
    BY FirstLife DEF Init
  <2>4. Init => inflight \in [Shards -> Nat] /\ attempts \in [Shards -> Nat]
    BY DEF Init
  <2>5. Init => /\ commands \in Tables
                /\ pc \in [Shards -> {"offline", "ready", "exchange", "submit", "online"}]
    BY DEF Init
  <2> QED BY <1>1, <2>1, <2>2, <2>3, <2>4, <2>5 DEF TypeOK
<1>3. Init => RegistersFirst /\ FlagIsSet /\ OncePerShard /\ OffersOwn
  BY DEF Init, RegistersFirst, FlagIsSet, OncePerShard, OffersOwn, MayRegister
<1> QED BY <1>2, <1>3 DEF IInv

(* The thread of a shard on its way through on_ready, or back to the start. *)
LEMMA ShardKeeps ==
    ASSUME IInv, NEW s \in Shards, Ready(s) \/ Handler(s) \/ Disconnect(s)
    PROVE  IInv'
<1> USE DEF IInv, TypeOK, RegistersFirst, FlagIsSet, OncePerShard, OffersOwn, MayRegister, Go,
            process, counts, results
<1>1. CASE Ready(s)
  BY <1>1 DEF Ready
<1>2. CASE ReadFlag(s)
  BY <1>2 DEF ReadFlag
<1>3. CASE WriteFlag(s)
  BY <1>3 DEF WriteFlag, FlagWritten
<1>4. CASE Submit(s)
  BY <1>4 DEF Submit
<1>5. CASE SubmitThrows(s)
  BY <1>5 DEF SubmitThrows
<1>6. CASE Disconnect(s)
  BY <1>6 DEF Disconnect
<1> QED BY <1>1, <1>2, <1>3, <1>4, <1>5, <1>6 DEF Handler

(* Discord's answers and the commands that users call. *)
LEMMA DiscordKeeps ==
    ASSUME IInv, NEW s \in Shards, Answer(s) \/ \E name \in Names : SlashCommand(s, name)
    PROVE  IInv'
<1> USE DEF IInv, TypeOK, RegistersFirst, FlagIsSet, OncePerShard, OffersOwn, MayRegister,
            process, counts, results
<1>1. CASE Accept(s)
  BY <1>1, TablesOfNames DEF Accept, Overwritten
<1>2. CASE Refuse(s)
  BY <1>2 DEF Refuse
<1>3. CASE \E name \in Names : SlashCommand(s, name)
  BY <1>3 DEF SlashCommand
<1> QED BY <1>1, <1>2, <1>3 DEF Answer

LEMMA RestartKeeps == IInv /\ Restart => IInv'
<1>1. SUFFICES ASSUME IInv, Restart
               PROVE  IInv'
  OBVIOUS
<1>2. published' \in SUBSET Names
  BY <1>1, TablesOfNames DEF Restart, Overwritten, IInv, TypeOK
<1>3. life' \in 1..MaxLives
  BY <1>1, BoundIsNat DEF Restart, IInv, TypeOK
<1>4. TypeOK'
  BY <1>1, <1>2, <1>3 DEF Restart, TypeOK
<1>5. (RegistersFirst /\ FlagIsSet /\ OncePerShard /\ OffersOwn)'
  BY <1>1 DEF Restart, RegistersFirst, FlagIsSet, OncePerShard, OffersOwn, MayRegister
<1> QED BY <1>4, <1>5 DEF IInv

LEMMA IInvNext == IInv /\ [Next]_vars => IInv'
<1>1. IInv /\ UNCHANGED vars => IInv'
  BY DEF IInv, TypeOK, RegistersFirst, FlagIsSet, OncePerShard, OffersOwn, MayRegister,
         vars, process, counts, results
<1> QED BY <1>1, ShardKeeps, DiscordKeeps, RestartKeeps DEF Next

(* IInv holds in every reachable state. *)
THEOREM Inductive == Spec => []IInv
BY IInvInit, IInvNext, PTL DEF Spec

(* However many sessions a shard opens and however the shards race for the  *)
(* flag of run_once, each registers once in a life of the process at most.  *)
THEOREM EachShardOnce == Spec => []OncePerShard
BY Inductive, PTL DEF IInv

(* Once Discord has accepted the table of this process, no command is in no  *)
(* table.                                                                   *)
THEOREM NothingIgnoredAfterAcceptance == Spec => IgnoredOnlyBeforeAcceptance
<1>1. ASSUME IInv, [Next]_vars, accepted, ~ignored
      PROVE  ~ignored'
  <2>1. ASSUME NEW s \in Shards, NEW name \in Names, SlashCommand(s, name)
        PROVE  ~ignored'
    BY <1>1, <2>1 DEF SlashCommand, IInv, OffersOwn
  <2>2. CASE UNCHANGED vars
    BY <1>1, <2>2 DEF vars
  <2>3. ASSUME NEW s \in Shards, Ready(s) \/ Handler(s) \/ Answer(s) \/ Disconnect(s)
        PROVE  ~ignored'
    BY <1>1, <2>3
       DEF Ready, Handler, ReadFlag, WriteFlag, Submit, SubmitThrows, Answer, Accept, Refuse,
           Disconnect
  <2>4. CASE Restart
    BY <2>4 DEF Restart
  <2> QED BY <1>1, <2>1, <2>2, <2>3, <2>4 DEF Next
<1>2. IInv /\ [Next]_vars => [accepted /\ ~ignored => ~ignored']_vars
  BY <1>1
<1> QED BY <1>2, Inductive, PTL DEF IgnoredOnlyBeforeAcceptance, Spec
=============================================================================
