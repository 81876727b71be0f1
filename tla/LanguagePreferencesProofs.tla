--------------------- MODULE LanguagePreferencesProofs ---------------------
(***************************************************************************)
(* Proofs about LanguagePreferences, for every set of shards, of users and *)
(* of choices.                                                             *)
(***************************************************************************)
EXTENDS LanguagePreferences, FiniteSetTheorems, SequenceTheorems, TLAPS

-----------------------------------------------------------------------------
(* Type correctness *)

(* Every option selects the code of a language file. *)
LEMMA LanguageOfType == \A option : LanguageOf(option) \in Languages
BY DEF LanguageOf, Languages

(* A handler that runs has a call of a user. *)
LEMMA RunningCall ==
    ASSUME TypeOK, NEW s \in Shards, pc[s] \notin Resting
    PROVE  /\ call[s] \in LanguageCalls \union PingCalls
           /\ call[s].user \in Users
           /\ IsLanguage(s) <=> call[s] \in LanguageCalls
           /\ IsPing(s) <=> call[s] \in PingCalls
<1>1. call[s] \in LanguageCalls \union PingCalls
  BY DEF TypeOK
<1>2. CASE call[s] \in LanguageCalls
  BY <1>2 DEF LanguageCalls, PingCalls, IsLanguage, IsPing
<1>3. CASE call[s] \in PingCalls
  BY <1>3 DEF LanguageCalls, PingCalls, IsLanguage, IsPing
<1> QED BY <1>1, <1>2, <1>3

(* What /ping reads is a language or nothing. *)
LEMMA ExportedType ==
    ASSUME TypeOK, NEW u \in Users
    PROVE  Exported(u) \in Languages \union {""}
<1>1. rows[u] \in Seq(Languages)
  BY DEF TypeOK
<1>2. CASE rows[u] = <<>>
  BY <1>2 DEF Exported
<1>3. CASE rows[u] # <<>>
  <2>1. Len(rows[u]) \in 1..Len(rows[u])
    BY <1>1, <1>3
  <2>2. rows[u][Len(rows[u])] \in Languages
    BY <1>1, <2>1
  <2> QED BY <1>3, <2>2 DEF Exported
<1> QED BY <1>2, <1>3

(* The variables other than the history variables keep their types. *)
LEMMA TypeInit == Init => TypeOK
<1> SUFFICES ASSUME Init PROVE TypeOK
  OBVIOUS
<1>1. rows \in [Users -> Seq(Languages)]
  BY DEF Init
<1>2. change_language \in [Shards -> Languages \union {""}]
  BY DEF Init, Languages
<1>3. pc \in [Shards -> Steps] /\ \A s \in Shards : pc[s] \in Resting
  BY DEF Init, Steps, Resting
<1> QED BY <1>1, <1>2, <1>3 DEF Init, TypeOK

LEMMA EnterType ==
    ASSUME TypeOK, NEW s \in Shards, NEW c \in LanguageCalls \union PingCalls, Enter(s, c),
           solo' \in [Shards -> BOOLEAN], raced' \subseteq Users
    PROVE  TypeOK'
<1>1. c # NoCall
  BY DEF LanguageCalls, PingCalls, NoCall
<1> QED BY <1>1 DEF TypeOK, Enter, dbVars, Steps, Statements, Resting, Languages

LEMMA TypeNext == TypeOK /\ [Next]_vars => TypeOK'
<1> SUFFICES ASSUME TypeOK, [Next]_vars
             PROVE  TypeOK'
  OBVIOUS
<1> USE DEF dbVars, locals, history
<1>1. ASSUME NEW s \in Shards, Open(s) PROVE TypeOK'
  BY <1>1 DEF Open, Move, TypeOK, Steps, Statements, Resting
<1>2. ASSUME NEW s \in Shards, CreateTable(s) PROVE TypeOK'
  BY <1>2 DEF CreateTable, Move, TypeOK, Steps, Statements, Resting
<1>3. ASSUME NEW s \in Shards, FindRecord(s) PROVE TypeOK'
  <2>1. \A found : AfterFind(s, found) \in Statements \union {"file"}
    BY DEF AfterFind, Statements
  <2>2. pc' \in [Shards -> Steps]
    BY <1>3, <2>1 DEF FindRecord, Move, TypeOK, Steps
  <2>3. \A r \in Shards : pc'[r] \notin Resting => call[r] # NoCall
    BY <1>3 DEF FindRecord, Move, TypeOK, Resting
  <2> QED BY <1>3, <2>2, <2>3 DEF FindRecord, TypeOK
<1>4. ASSUME NEW s \in Shards, DeleteRecord(s) PROVE TypeOK'
  <2> DEFINE none == <<>>
  <2>a. none \in Seq(Languages)
    OBVIOUS
  <2> HIDE DEF none
  <2>1. rows' \in [Users -> Seq(Languages)]
    <3>1. rows' = [rows EXCEPT ![call[s].user] = none]
      BY <1>4 DEF DeleteRecord, RowsWithout, none
    <3> QED BY <2>a, <3>1 DEF TypeOK
  <2> QED BY <1>4, <2>1 DEF DeleteRecord, Move, TypeOK, Steps, Statements, Resting
<1>5. ASSUME NEW s \in Shards, Insert(s) PROVE TypeOK'
  <2>1. LanguageOf(call[s].option) \in Languages
    BY LanguageOfType
  <2>2. rows' \in [Users -> Seq(Languages)]
    <3> DEFINE u == call[s].user
               new == Append(rows[u], LanguageOf(call[s].option))
    <3>1. u \in Users
      BY <1>5, RunningCall DEF Insert, Move, Resting
    <3>2. new \in Seq(Languages)
      <4>1. rows[u] \in Seq(Languages)
        BY <3>1 DEF TypeOK
      <4> HIDE DEF u
      <4> QED BY <2>1, <4>1, AppendProperties
    <3>3. rows' = [rows EXCEPT ![u] = new]
      BY <1>5 DEF Insert
    <3> HIDE DEF u, new
    <3> QED BY <3>2, <3>3 DEF TypeOK
  <2> QED BY <1>5, <2>1, <2>2 DEF Insert, Move, TypeOK, Steps, Statements, Resting
<1>6. ASSUME NEW s \in Shards, ExportData(s) PROVE TypeOK'
  <2>1. call[s].user \in Users
    BY <1>6, RunningCall DEF ExportData, Move, Resting
  <2>2. Exported(call[s].user) \in Languages \union {""}
    BY <2>1, ExportedType
  <2> QED BY <1>6, <2>2 DEF ExportData, Move, TypeOK, Steps, Statements, Resting
<1>7. ASSUME NEW s \in Shards, Reply(s) PROVE TypeOK'
  BY <1>7 DEF Reply, Move, TypeOK, Steps, Statements, Resting
<1>8. ASSUME NEW s \in Shards, NoSuchTable(s) PROVE TypeOK'
  BY <1>8 DEF NoSuchTable, Move, TypeOK, Steps, Statements, Resting
<1>9. ASSUME NEW s \in Shards, LanguageFileMissing(s) PROVE TypeOK'
  BY <1>9 DEF LanguageFileMissing, Move, TypeOK, Steps, Statements, Resting
<1>10. ASSUME NEW s \in Shards, StatementFails(s) PROVE TypeOK'
  BY <1>10 DEF StatementFails, TypeOK, Steps, Statements, Resting
<1>11. ASSUME NEW s \in Shards, NEW u \in Users, NEW option \in Choices,
              EnterLanguage(s, u, option)
       PROVE  TypeOK'
  <2> DEFINE c == [cmd |-> "language", user |-> u, option |-> option]
  <2>1. c \in LanguageCalls
    BY DEF LanguageCalls
  <2>2. solo' \in [Shards -> BOOLEAN]
    BY <1>11 DEF EnterLanguage, TypeOK, Running
  <2>3. raced' \subseteq Users
    BY <1>11 DEF EnterLanguage, TypeOK
  <2>4. Enter(s, c)
    BY <1>11 DEF EnterLanguage
  <2> HIDE DEF c
  <2> QED BY <2>1, <2>2, <2>3, <2>4, EnterType
<1>12. ASSUME NEW s \in Shards, NEW u \in Users, EnterPing(s, u) PROVE TypeOK'
  <2> DEFINE c == [cmd |-> "ping", user |-> u]
  <2>1. c \in PingCalls
    BY DEF PingCalls
  <2>2. solo' \in [Shards -> BOOLEAN]
    BY <1>12 DEF EnterPing, TypeOK
  <2>3. raced' \subseteq Users
    BY <1>12 DEF EnterPing, TypeOK
  <2>4. Enter(s, c)
    BY <1>12 DEF EnterPing
  <2> HIDE DEF c
  <2> QED BY <2>1, <2>2, <2>3, <2>4, EnterType
<1>13. CASE Crash
  BY <1>13 DEF Crash, TypeOK, Steps, Statements, Resting
<1>14. CASE UNCHANGED vars
  BY <1>14 DEF vars, TypeOK
<1> QED BY <1>1, <1>2, <1>3, <1>4, <1>5, <1>6, <1>7, <1>8, <1>9, <1>10, <1>11, <1>12,
           <1>13, <1>14 DEF Next, Proceed

(* TypeOK holds in every reachable state. *)
THEOREM TypeCorrect == Spec => []TypeOK
<1>1. Init => TypeOK
  BY TypeInit
<1>2. TypeOK /\ [Next]_vars => TypeOK'
  BY TypeNext
<1> QED BY <1>1, <1>2, PTL DEF Spec

-----------------------------------------------------------------------------
(* Overlapping calls.  What the history variables record, as invariants.    *)

(* Only /language creates, deletes and inserts; only /ping exports.         *)
StepsByCommand ==
    \A s \in Shards : /\ pc[s] \in {"create", "delete", "insert"} => IsLanguage(s)
                      /\ pc[s] = "export" => IsPing(s)

(* While u is not raced, at most one /language of u runs.                   *)
OneUnlessRaced ==
    \A u \in Users \ raced : \A s, r \in Shards :
        RunningLanguage(s, u) /\ RunningLanguage(r, u) => s = r

(* While a solo call runs, no other shard runs a /language of its user.     *)
SoloIsAlone ==
    \A s, r \in Shards :
        pc[s] \notin Resting /\ solo[s] /\ RunningLanguage(r, call[s].user) => s = r

Overlaps == TypeOK /\ StepsByCommand /\ OneUnlessRaced /\ SoloIsAlone

(* A handler that goes on, or ends, overlaps no call that it did not before. *)
LEMMA MoveKeepsOverlaps ==
    ASSUME Overlaps, TypeOK', NEW s \in Shards, NEW from, NEW to, Move(s, from, to),
           from \notin Resting, UNCHANGED <<call, solo, raced>>,
           to \in {"create", "delete", "insert"} => IsLanguage(s),
           to = "export" => IsPing(s)
    PROVE  Overlaps'
<1> USE DEF Overlaps, Move
<1>1. pc' = [pc EXCEPT ![s] = to] /\ pc \in [Shards -> Steps]
  BY DEF TypeOK
<1>2. StepsByCommand'
  BY <1>1 DEF StepsByCommand, IsLanguage, IsPing
<1>3. \A r \in Shards, u \in Users : RunningLanguage(r, u)' => RunningLanguage(r, u)
  BY <1>1 DEF RunningLanguage, Running, IsLanguage
<1>4. OneUnlessRaced'
  BY <1>3 DEF OneUnlessRaced
<1>5. SoloIsAlone'
  BY <1>1 DEF SoloIsAlone, RunningLanguage, Running, IsLanguage
<1> QED BY <1>2, <1>4, <1>5

LEMMA EnterLanguageOverlaps ==
    ASSUME Overlaps, TypeOK', NEW s \in Shards, NEW u \in Users, NEW option \in Choices,
           EnterLanguage(s, u, option)
    PROVE  Overlaps'
<1> DEFINE rivals == {r \in Shards \ {s} : RunningLanguage(r, u)}
           c == [cmd |-> "language", user |-> u, option |-> option]
<1> USE DEF Overlaps
<1>1. /\ pc' = [pc EXCEPT ![s] = "open"] /\ pc \in [Shards -> Steps]
      /\ call' = [call EXCEPT ![s] = c] /\ call \in [Shards -> LanguageCalls \union PingCalls \union {NoCall}]
      /\ c.cmd = "language" /\ c.user = u
  BY DEF EnterLanguage, Enter, TypeOK
<1>2. /\ solo' = [r \in Shards |-> IF r = s THEN rivals = {} ELSE solo[r] /\ ~Running(r, u)]
      /\ raced' = IF rivals = {} THEN raced ELSE raced \union {u}
  BY DEF EnterLanguage
<1>3. pc'[s] = "open" /\ call'[s] = c
  BY <1>1
<1>4. \A r \in Shards \ {s} : pc'[r] = pc[r] /\ call'[r] = call[r]
  BY <1>1
<1> HIDE DEF c
<1>5. StepsByCommand'
  BY <1>3, <1>4 DEF StepsByCommand, IsLanguage, IsPing
<1>6. ASSUME NEW v \in Users, NEW r \in Shards \ {s}
      PROVE  RunningLanguage(r, v)' <=> RunningLanguage(r, v)
  BY <1>4 DEF RunningLanguage, Running, IsLanguage
<1>7. ASSUME NEW v \in Users, RunningLanguage(s, v)' PROVE v = u
  BY <1>1, <1>3, <1>7 DEF RunningLanguage, Running
<1>8. OneUnlessRaced'
  <2> SUFFICES ASSUME NEW v \in Users, v \notin raced', NEW r \in Shards, NEW q \in Shards,
                      RunningLanguage(r, v)', RunningLanguage(q, v)', r # q
               PROVE  FALSE
    BY DEF OneUnlessRaced
  <2>1. v \notin raced
    BY <1>2
  <2>2. CASE r # s /\ q # s
    BY <1>6, <2>1, <2>2 DEF OneUnlessRaced
  <2>3. CASE r = s
    BY <1>2, <1>6, <1>7, <2>3
  <2>4. CASE q = s
    BY <1>2, <1>6, <1>7, <2>4
  <2> QED BY <2>2, <2>3, <2>4
<1>9. SoloIsAlone'
  <2> SUFFICES ASSUME NEW r \in Shards, NEW q \in Shards, pc'[r] \notin Resting, solo'[r],
                      RunningLanguage(q, call[r].user)', r # q
               PROVE  FALSE
    BY DEF SoloIsAlone
  <2>1. CASE r = s
    <3>1. rivals = {} /\ call'[r].user = u
      BY <1>1, <1>2, <1>3, <2>1
    <3>2. RunningLanguage(q, u)
      BY <1>6, <2>1, <3>1 DEF RunningLanguage, Running
    <3> QED BY <2>1, <3>1, <3>2
  <2>2. CASE r # s
    <3>1. solo[r] /\ ~Running(r, u) /\ pc[r] \notin Resting /\ call[r].user # u
      BY <1>2, <1>4, <2>2 DEF Running
    <3>2. call[r].user \in Users /\ call'[r] = call[r]
      BY <1>4, <2>2, <3>1, RunningCall
    <3>3. q # s /\ RunningLanguage(q, call[r].user)
      BY <1>6, <1>7, <3>1, <3>2 DEF RunningLanguage, Running
    <3> QED BY <3>1, <3>3 DEF SoloIsAlone
  <2> QED BY <2>1, <2>2
<1> QED BY <1>5, <1>8, <1>9

LEMMA EnterPingOverlaps ==
    ASSUME Overlaps, TypeOK', NEW s \in Shards, NEW u \in Users, EnterPing(s, u)
    PROVE  Overlaps'
<1> DEFINE c == [cmd |-> "ping", user |-> u]
<1> USE DEF Overlaps
<1>1. /\ pc' = [pc EXCEPT ![s] = "open"] /\ pc \in [Shards -> Steps]
      /\ call' = [call EXCEPT ![s] = c] /\ call \in [Shards -> LanguageCalls \union PingCalls \union {NoCall}]
      /\ c.cmd = "ping" /\ c.user = u
  BY DEF EnterPing, Enter, TypeOK
<1>2. /\ solo' = [solo EXCEPT ![s] = \A r \in Shards \ {s} : ~RunningLanguage(r, u)]
      /\ solo \in [Shards -> BOOLEAN] /\ raced' = raced
  BY DEF EnterPing, TypeOK
<1>3. pc'[s] = "open" /\ call'[s] = c
  BY <1>1
<1>4. \A r \in Shards \ {s} : pc'[r] = pc[r] /\ call'[r] = call[r] /\ solo'[r] = solo[r]
  BY <1>1, <1>2
<1>5. StepsByCommand'
  BY <1>3, <1>4 DEF StepsByCommand, IsLanguage, IsPing
<1>6. ASSUME NEW v, NEW r \in Shards, RunningLanguage(r, v)'
      PROVE  r # s /\ RunningLanguage(r, v)
  BY <1>1, <1>3, <1>4, <1>6 DEF RunningLanguage, Running, IsLanguage
<1>7. OneUnlessRaced'
  BY <1>2, <1>6 DEF OneUnlessRaced
<1>8. SoloIsAlone'
  <2> SUFFICES ASSUME NEW r \in Shards, NEW q \in Shards, pc'[r] \notin Resting, solo'[r],
                      RunningLanguage(q, call[r].user)', r # q
               PROVE  FALSE
    BY DEF SoloIsAlone
  <2>1. q # s /\ RunningLanguage(q, call'[r].user)
    BY <1>6 DEF RunningLanguage, Running, IsLanguage
  <2>2. CASE r = s
    BY <1>1, <1>2, <1>3, <2>1, <2>2
  <2>3. CASE r # s
    BY <1>4, <2>1, <2>3 DEF SoloIsAlone
  <2> QED BY <2>2, <2>3
<1> QED BY <1>5, <1>7, <1>8

(* A solo /language that ends leaves its user with no /language running.    *)
LEMMA ReplyOverlaps ==
    ASSUME Overlaps, TypeOK', NEW s \in Shards, Reply(s)
    PROVE  Overlaps'
<1> USE DEF Overlaps
<1>1. /\ pc[s] = "file" /\ pc' = [pc EXCEPT ![s] = "replied"] /\ pc \in [Shards -> Steps]
      /\ UNCHANGED <<call, solo>>
  BY DEF Reply, Move, TypeOK, locals
<1>2. raced' = IF IsLanguage(s) /\ solo[s] THEN raced \ {call[s].user} ELSE raced
  BY DEF Reply
<1>3. pc'[s] \in Resting /\ \A r \in Shards \ {s} : pc'[r] = pc[r]
  BY <1>1 DEF Resting
<1>4. StepsByCommand'
  BY <1>1 DEF StepsByCommand, IsLanguage, IsPing
<1>5. ASSUME NEW r \in Shards, NEW u, RunningLanguage(r, u)'
      PROVE  r # s /\ RunningLanguage(r, u)
  BY <1>1, <1>3, <1>5 DEF RunningLanguage, Running, IsLanguage
<1>6. OneUnlessRaced'
  <2> SUFFICES ASSUME NEW u \in Users, u \notin raced', NEW r \in Shards, NEW q \in Shards,
                      RunningLanguage(r, u)', RunningLanguage(q, u)'
               PROVE  r = q
    BY DEF OneUnlessRaced
  <2>1. CASE u \notin raced
    BY <1>5, <2>1 DEF OneUnlessRaced
  <2>2. CASE u \in raced
    <3>1. solo[s] /\ u = call[s].user /\ pc[s] \notin Resting
      BY <1>1, <1>2, <2>2 DEF Resting
    <3> QED BY <1>5, <3>1 DEF SoloIsAlone
  <2> QED BY <2>1, <2>2
<1>7. SoloIsAlone'
  <2> SUFFICES ASSUME NEW r \in Shards, NEW q \in Shards, pc'[r] \notin Resting, solo[r],
                      RunningLanguage(q, call[r].user)'
               PROVE  r = q
    BY <1>1 DEF SoloIsAlone
  <2> QED BY <1>1, <1>3, <1>5 DEF SoloIsAlone
<1> QED BY <1>4, <1>6, <1>7

LEMMA OverlapsInit == Init => Overlaps
<1> SUFFICES ASSUME Init PROVE Overlaps
  OBVIOUS
<1>1. TypeOK /\ \A s \in Shards : pc[s] = "idle"
  BY TypeInit DEF Init
<1> QED BY <1>1 DEF Overlaps, StepsByCommand, OneUnlessRaced, SoloIsAlone, RunningLanguage,
                    Running, Resting

LEMMA OverlapsNext == Overlaps /\ [Next]_vars => Overlaps'
<1> SUFFICES ASSUME Overlaps, [Next]_vars
             PROVE  Overlaps'
  OBVIOUS
<1> USE DEF dbVars, locals, history
<1>0. TypeOK /\ TypeOK'
  BY TypeNext DEF Overlaps
<1>1. ASSUME NEW s \in Shards, Open(s) PROVE Overlaps'
  <2> DEFINE to == IF IsLanguage(s) THEN "create" ELSE "find"
  <2>1. Move(s, "open", to) /\ UNCHANGED <<call, solo, raced>>
    BY <1>1 DEF Open
  <2>2. to \in {"create", "find"} /\ (to = "create" => IsLanguage(s))
    OBVIOUS
  <2> HIDE DEF to
  <2> QED BY <1>0, <2>1, <2>2, MoveKeepsOverlaps DEF Resting
<1>2. ASSUME NEW s \in Shards, CreateTable(s) PROVE Overlaps'
  BY <1>0, <1>2, MoveKeepsOverlaps DEF CreateTable, Resting
<1>3. ASSUME NEW s \in Shards, FindRecord(s) PROVE Overlaps'
  <2> DEFINE found == rows[call[s].user] # <<>>
             to == AfterFind(s, found)
  <2>1. Move(s, "find", to) /\ UNCHANGED <<call, solo, raced>>
    BY <1>3 DEF FindRecord
  <2>2. pc[s] = "find"
    BY <2>1 DEF Move
  <2>3. IsLanguage(s) \/ IsPing(s)
    BY <1>0, <2>2, RunningCall DEF Resting
  <2>4. /\ to \in {"delete", "insert"} => IsLanguage(s)
        /\ to = "export" => IsPing(s)
        /\ to # "create"
    BY <2>3 DEF AfterFind, IsLanguage, IsPing
  <2> HIDE DEF to
  <2> QED BY <1>0, <2>1, <2>4, MoveKeepsOverlaps DEF Resting
<1>4. ASSUME NEW s \in Shards, DeleteRecord(s) PROVE Overlaps'
  <2> DEFINE to == IF LanguageOf(call[s].option) = "en-us" THEN "file" ELSE "insert"
  <2>1. Move(s, "delete", to) /\ UNCHANGED <<call, solo, raced>>
    BY <1>4 DEF DeleteRecord
  <2>2. IsLanguage(s)
    BY <2>1 DEF Overlaps, StepsByCommand, Move
  <2>3. to # "export"
    OBVIOUS
  <2> HIDE DEF to
  <2> QED BY <1>0, <2>1, <2>2, <2>3, MoveKeepsOverlaps DEF Resting
<1>5. ASSUME NEW s \in Shards, Insert(s) PROVE Overlaps'
  BY <1>0, <1>5, MoveKeepsOverlaps DEF Insert, Resting
<1>6. ASSUME NEW s \in Shards, ExportData(s) PROVE Overlaps'
  BY <1>0, <1>6, MoveKeepsOverlaps DEF ExportData, Resting
<1>7. ASSUME NEW s \in Shards, Reply(s) PROVE Overlaps'
  BY <1>0, <1>7, ReplyOverlaps
<1>8. ASSUME NEW s \in Shards, NoSuchTable(s) PROVE Overlaps'
  BY <1>0, <1>8, MoveKeepsOverlaps DEF NoSuchTable, Resting
<1>9. ASSUME NEW s \in Shards, LanguageFileMissing(s) PROVE Overlaps'
  BY <1>0, <1>9, MoveKeepsOverlaps DEF LanguageFileMissing, Resting
<1>10. ASSUME NEW s \in Shards, StatementFails(s) PROVE Overlaps'
  <2>1. Move(s, pc[s], "threw") /\ pc[s] \notin Resting
    BY <1>10 DEF StatementFails, Move, Statements, Resting
  <2> QED BY <1>0, <1>10, <2>1, MoveKeepsOverlaps DEF StatementFails
<1>11. ASSUME NEW s \in Shards, NEW u \in Users, NEW option \in Choices,
              EnterLanguage(s, u, option)
       PROVE  Overlaps'
  BY <1>0, <1>11, EnterLanguageOverlaps
<1>12. ASSUME NEW s \in Shards, NEW u \in Users, EnterPing(s, u) PROVE Overlaps'
  BY <1>0, <1>12, EnterPingOverlaps
<1>13. CASE Crash
  <2>1. \A s \in Shards : pc'[s] = "idle"
    BY <1>13 DEF Crash
  <2> QED BY <1>0, <2>1 DEF Overlaps, StepsByCommand, OneUnlessRaced, SoloIsAlone,
                           RunningLanguage, Running, Resting
<1>14. CASE UNCHANGED vars
  <2> USE <1>14 DEF vars
  <2>1. StepsByCommand' /\ OneUnlessRaced' /\ SoloIsAlone'
    BY DEF Overlaps, StepsByCommand, OneUnlessRaced, SoloIsAlone, RunningLanguage, Running,
           IsLanguage, IsPing
  <2> QED BY <1>0, <2>1 DEF Overlaps
<1> QED BY <1>1, <1>2, <1>3, <1>4, <1>5, <1>6, <1>7, <1>8, <1>9, <1>10, <1>11, <1>12,
           <1>13, <1>14 DEF Next, Proceed

-----------------------------------------------------------------------------
(* Rows *)

(* The shards that are about to insert a row of u. *)
Inserting(u) == {s \in Shards : pc[s] = "insert" /\ call[s].user = u}

(* Rows and pending inserts together stay within the number of shards.      *)
RowBudget ==
    \A u \in Users : Len(rows[u]) + Cardinality(Inserting(u)) <= Cardinality(Shards)

(* A /language that is alone inserts into an empty set of rows.             *)
InsertsFirstRow ==
    \A s \in Shards :
        pc[s] = "insert" /\ (solo[s] \/ call[s].user \notin raced) => rows[call[s].user] = <<>>

(* English never inserts.                                                   *)
InsertsChoice ==
    \A s \in Shards : pc[s] = "insert" => LanguageOf(call[s].option) # "en-us"

(* A solo /ping that goes on to export found a row, and it is still there;  *)
(* change_language keeps its initial value until the last statement.        *)
PingExportsRow ==
    \A s \in Shards :
        /\ pc[s] = "export" /\ solo[s] => rows[call[s].user] # <<>>
        /\ pc[s] \in Statements => change_language[s] = "en-us"

RowsInv ==
    /\ Overlaps
    /\ InsertsFirstRow /\ InsertsChoice /\ AtMostOneRow /\ SoloTakesEffect
    /\ PingExportsRow /\ SoloPingReportsPreference

(* A handler that goes on without touching rows or locals, and not to a     *)
(* place of which RowsInv speaks.                                           *)
LEMMA QuietMove ==
    ASSUME RowsInv, Overlaps', NEW s \in Shards, NEW from \in Steps \ Resting, NEW to,
           Move(s, from, to), UNCHANGED <<rows, call, change_language, solo, raced>>,
           to \in {"create", "find", "threw"},
           to # "threw" => from \in Statements
    PROVE  RowsInv'
<1>1. pc[s] = from /\ pc' = [pc EXCEPT ![s] = to] /\ pc \in [Shards -> Steps]
  BY DEF Move, RowsInv, Overlaps, TypeOK
<1>2. InsertsFirstRow' /\ InsertsChoice'
  BY <1>1 DEF RowsInv, InsertsFirstRow, InsertsChoice
<1>3. AtMostOneRow'
  BY DEF RowsInv, AtMostOneRow
<1>4. SoloTakesEffect'
  BY <1>1 DEF RowsInv, SoloTakesEffect, IsLanguage
<1>5. PingExportsRow'
  <2>1. pc'[s] = to /\ \A r \in Shards \ {s} : pc'[r] = pc[r]
    BY <1>1
  <2>2. pc'[s] \in Statements => change_language[s] = "en-us"
    BY <1>1, <2>1 DEF RowsInv, PingExportsRow, Statements
  <2> QED BY <2>1, <2>2 DEF RowsInv, PingExportsRow
<1>6. SoloPingReportsPreference'
  BY <1>1 DEF RowsInv, SoloPingReportsPreference, IsPing, Preference
<1> QED BY <1>2, <1>3, <1>4, <1>5, <1>6 DEF RowsInv

(* While a solo call runs, only its own shard changes the rows of its user; *)
(* the same holds of a /language whose user is not raced.                   *)
LEMMA WriterIsAlone ==
    ASSUME Overlaps, NEW s \in Shards, pc[s] \in {"delete", "insert"},
           NEW r \in Shards, r # s, pc[r] \notin Resting, call[r].user = call[s].user
    PROVE  ~solo[r] /\ (IsLanguage(r) => call[s].user \in raced)
<1>1. RunningLanguage(s, call[s].user) /\ call[s].user \in Users
  BY RunningCall DEF Overlaps, StepsByCommand, RunningLanguage, Running, Resting
<1>2. ~solo[r]
  BY <1>1 DEF Overlaps, SoloIsAlone
<1>3. IsLanguage(r) => RunningLanguage(r, call[s].user)
  BY DEF RunningLanguage, Running
<1> QED BY <1>1, <1>2, <1>3 DEF Overlaps, OneUnlessRaced

LEMMA FindRows ==
    ASSUME RowsInv, Overlaps', NEW s \in Shards, FindRecord(s)
    PROVE  RowsInv'
<1> DEFINE u == call[s].user
           to == AfterFind(s, rows[u] # <<>>)
<1>1. /\ pc[s] = "find" /\ pc' = [pc EXCEPT ![s] = to] /\ pc \in [Shards -> Steps]
      /\ UNCHANGED <<rows, call, change_language, solo, raced>>
  BY DEF FindRecord, Move, RowsInv, Overlaps, TypeOK, dbVars, locals, history
<1>2. pc'[s] = to /\ \A r \in Shards \ {s} : pc'[r] = pc[r]
  BY <1>1
<1>3. IsLanguage(s) <=> ~IsPing(s)
  BY <1>1, RunningCall DEF RowsInv, Overlaps, Resting, LanguageCalls, PingCalls, IsLanguage, IsPing
<1>4. /\ to = "insert" => rows[u] = <<>> /\ LanguageOf(call[s].option) # "en-us"
      /\ to = "export" => rows[u] # <<>>
      /\ to = "file" /\ IsLanguage(s) => rows[u] = <<>> /\ LanguageOf(call[s].option) = "en-us"
      /\ to = "file" /\ IsPing(s) => rows[u] = <<>>
  BY <1>3 DEF AfterFind
<1> HIDE DEF to
<1>5. InsertsFirstRow' /\ InsertsChoice'
  BY <1>1, <1>2, <1>4 DEF RowsInv, InsertsFirstRow, InsertsChoice
<1>6. AtMostOneRow'
  BY <1>1 DEF RowsInv, AtMostOneRow
<1>7. SoloTakesEffect'
  BY <1>1, <1>2, <1>4 DEF RowsInv, SoloTakesEffect, IsLanguage
<1>8. change_language[s] = "en-us"
  BY <1>1 DEF RowsInv, PingExportsRow, Statements
<1>9. PingExportsRow'
  BY <1>1, <1>2, <1>4, <1>8 DEF RowsInv, PingExportsRow
<1>10. SoloPingReportsPreference'
  BY <1>1, <1>2, <1>4, <1>8 DEF RowsInv, SoloPingReportsPreference, IsPing, Preference
<1> QED BY <1>5, <1>6, <1>7, <1>9, <1>10 DEF RowsInv

LEMMA DeleteRows ==
    ASSUME RowsInv, Overlaps', NEW s \in Shards, DeleteRecord(s)
    PROVE  RowsInv'
<1> DEFINE u == call[s].user
           english == LanguageOf(call[s].option) = "en-us"
           to == IF english THEN "file" ELSE "insert"
<1>1. /\ pc[s] = "delete" /\ pc' = [pc EXCEPT ![s] = to] /\ pc \in [Shards -> Steps]
      /\ UNCHANGED <<call, change_language, solo, raced>>
      /\ rows' = [rows EXCEPT ![u] = <<>>]
  BY DEF DeleteRecord, RowsWithout, Move, RowsInv, Overlaps, TypeOK, locals, history
<1>2. pc'[s] = to /\ \A r \in Shards \ {s} : pc'[r] = pc[r]
  BY <1>1
<1>3. u \in Users /\ rows'[u] = <<>> /\ \A v \in Users \ {u} : rows'[v] = rows[v]
  BY <1>1, RunningCall DEF RowsInv, Overlaps, TypeOK, Resting
<1>4. \A r \in Shards \ {s} : pc[r] \notin Resting =>
         /\ call[r].user \in Users
         /\ solo[r] => rows'[call[r].user] = rows[call[r].user]
  BY <1>1, <1>3, WriterIsAlone, RunningCall DEF RowsInv, Overlaps
<1>5. IsLanguage(s) /\ ~IsPing(s)
  BY <1>1 DEF RowsInv, Overlaps, StepsByCommand, IsLanguage, IsPing
<1>6. InsertsFirstRow'
  <2> SUFFICES ASSUME NEW r \in Shards, pc'[r] = "insert",
                      solo[r] \/ call[r].user \notin raced
               PROVE  rows'[call[r].user] = <<>>
    BY <1>1 DEF InsertsFirstRow
  <2>1. CASE call[r].user = u
    BY <1>3, <2>1
  <2>2. CASE r # s /\ call[r].user # u
    <3>1. pc[r] = "insert"
      BY <1>2, <2>2
    <3> QED BY <1>3, <1>4, <2>2, <3>1 DEF RowsInv, InsertsFirstRow, Resting
  <2> QED BY <2>1, <2>2
<1>7. InsertsChoice'
  BY <1>1, <1>2 DEF RowsInv, InsertsChoice
<1>8. AtMostOneRow'
  <2>1. Len(rows'[u]) = 0
    BY <1>3
  <2> QED BY <1>1, <1>3, <2>1 DEF RowsInv, AtMostOneRow
<1>9. SoloTakesEffect'
  <2> SUFFICES ASSUME NEW r \in Shards, pc'[r] = "file", IsLanguage(r), solo[r]
               PROVE  rows'[call[r].user] = IF LanguageOf(call[r].option) = "en-us" THEN <<>>
                                            ELSE <<LanguageOf(call[r].option)>>
    BY <1>1 DEF SoloTakesEffect, IsLanguage
  <2>1. CASE r = s
    BY <1>2, <1>3, <2>1
  <2>2. CASE r # s
    <3>1. pc[r] = "file"
      BY <1>2, <2>2
    <3> QED BY <1>4, <2>2, <3>1 DEF RowsInv, SoloTakesEffect, Resting
  <2> QED BY <2>1, <2>2
<1>10. PingExportsRow'
  <2> SUFFICES ASSUME NEW r \in Shards
               PROVE  /\ pc'[r] = "export" /\ solo[r] => rows'[call[r].user] # <<>>
                      /\ pc'[r] \in Statements => change_language[r] = "en-us"
    BY <1>1 DEF PingExportsRow
  <2>1. CASE r = s
    BY <1>1, <1>2, <2>1 DEF RowsInv, PingExportsRow, Statements
  <2>2. CASE r # s
    BY <1>2, <1>4, <2>2 DEF RowsInv, PingExportsRow, Resting
  <2> QED BY <2>1, <2>2
<1>11. SoloPingReportsPreference'
  <2> SUFFICES ASSUME NEW r \in Shards, pc'[r] = "file", IsPing(r), solo[r]
               PROVE  change_language[r] = Preference(call[r].user)'
    BY <1>1 DEF SoloPingReportsPreference, IsPing, Preference
  <2>1. r # s /\ pc[r] = "file"
    BY <1>2, <1>5
  <2>2. rows'[call[r].user] = rows[call[r].user]
    BY <1>4, <2>1 DEF Resting
  <2> QED BY <1>1, <2>1, <2>2 DEF RowsInv, SoloPingReportsPreference, Preference
<1> QED BY <1>6, <1>7, <1>8, <1>9, <1>10, <1>11 DEF RowsInv

LEMMA InsertRows ==
    ASSUME RowsInv, Overlaps', NEW s \in Shards, Insert(s)
    PROVE  RowsInv'
<1> DEFINE u == call[s].user
           code == LanguageOf(call[s].option)
<1>1. /\ pc[s] = "insert" /\ pc' = [pc EXCEPT ![s] = "file"] /\ pc \in [Shards -> Steps]
      /\ UNCHANGED <<call, solo, raced>>
      /\ rows' = [rows EXCEPT ![u] = Append(@, code)]
      /\ change_language' = [change_language EXCEPT ![s] = code]
      /\ change_language \in [Shards -> Languages \union {""}]
  BY DEF Insert, Move, RowsInv, Overlaps, TypeOK, history
<1>2. pc'[s] = "file" /\ \A r \in Shards \ {s} : pc'[r] = pc[r] /\ change_language'[r] = change_language[r]
  BY <1>1
<1>3. u \in Users
  BY <1>1, RunningCall DEF RowsInv, Overlaps, Resting
<1>4. rows'[u] = Append(rows[u], code) /\ \A v \in Users \ {u} : rows'[v] = rows[v]
  BY <1>1, <1>3 DEF RowsInv, Overlaps, TypeOK
<1>5. ASSUME NEW r \in Shards \ {s}, pc[r] \notin Resting
      PROVE  /\ call[r].user \in Users
             /\ solo[r] => call[r].user # u
             /\ IsLanguage(r) /\ call[r].user \notin raced => call[r].user # u
  BY <1>1, <1>5, WriterIsAlone, RunningCall DEF RowsInv, Overlaps
<1>6. IsLanguage(s) /\ ~IsPing(s)
  BY <1>1 DEF RowsInv, Overlaps, StepsByCommand, IsLanguage, IsPing
<1>7. u \notin raced \/ solo[s] => rows[u] = <<>>
  BY <1>1 DEF RowsInv, InsertsFirstRow
<1>8. rows[u] = <<>> => rows'[u] = <<code>> /\ Len(rows'[u]) = 1
  BY <1>4
<1>9. InsertsFirstRow'
  <2> SUFFICES ASSUME NEW r \in Shards, pc'[r] = "insert",
                      solo[r] \/ call[r].user \notin raced
               PROVE  rows'[call[r].user] = <<>>
    BY <1>1 DEF InsertsFirstRow
  <2>1. r # s /\ pc[r] = "insert" /\ IsLanguage(r)
    BY <1>2 DEF RowsInv, Overlaps, StepsByCommand
  <2>2. call[r].user \in Users \ {u}
    BY <1>5, <2>1 DEF Resting
  <2> QED BY <1>4, <2>1, <2>2 DEF RowsInv, InsertsFirstRow
<1>10. InsertsChoice'
  BY <1>1, <1>2 DEF RowsInv, InsertsChoice
<1>11. AtMostOneRow'
  <2> SUFFICES ASSUME NEW v \in Users \ raced PROVE Len(rows'[v]) <= 1
    BY <1>1 DEF AtMostOneRow
  <2>1. CASE v = u
    <3>1. Len(rows'[v]) = 1
      BY <1>7, <1>8, <2>1
    <3> QED BY <3>1
  <2>2. CASE v # u
    BY <1>4, <2>2 DEF RowsInv, AtMostOneRow
  <2> QED BY <2>1, <2>2
<1>12. SoloTakesEffect'
  <2> SUFFICES ASSUME NEW r \in Shards, pc'[r] = "file", IsLanguage(r), solo[r]
               PROVE  rows'[call[r].user] = IF LanguageOf(call[r].option) = "en-us" THEN <<>>
                                            ELSE <<LanguageOf(call[r].option)>>
    BY <1>1 DEF SoloTakesEffect, IsLanguage
  <2>1. CASE r = s
    BY <1>1, <1>7, <1>8, <2>1 DEF RowsInv, InsertsChoice
  <2>2. CASE r # s
    <3>1. pc[r] = "file"
      BY <1>2, <2>2
    <3>2. call[r].user \in Users \ {u}
      BY <1>5, <2>2, <3>1 DEF Resting
    <3> QED BY <1>4, <3>1, <3>2 DEF RowsInv, SoloTakesEffect
  <2> QED BY <2>1, <2>2
<1>13. PingExportsRow'
  <2> SUFFICES ASSUME NEW r \in Shards
               PROVE  /\ pc'[r] = "export" /\ solo[r] => rows'[call[r].user] # <<>>
                      /\ pc'[r] \in Statements => change_language'[r] = "en-us"
    BY <1>1 DEF PingExportsRow
  <2>1. CASE r = s
    BY <1>2, <2>1 DEF Statements
  <2>2. CASE r # s
    <3>1. pc'[r] = pc[r] /\ change_language'[r] = change_language[r]
      BY <1>2, <2>2
    <3>2. pc[r] = "export" /\ solo[r] => rows'[call[r].user] = rows[call[r].user]
      BY <1>4, <1>5, <2>2 DEF Resting
    <3> QED BY <3>1, <3>2 DEF RowsInv, PingExportsRow
  <2> QED BY <2>1, <2>2
<1>14. SoloPingReportsPreference'
  <2> SUFFICES ASSUME NEW r \in Shards, pc'[r] = "file", IsPing(r), solo[r]
               PROVE  change_language'[r] = Preference(call[r].user)'
    BY <1>1 DEF SoloPingReportsPreference, IsPing, Preference
  <2>1. r # s /\ pc[r] = "file" /\ change_language'[r] = change_language[r]
    BY <1>2, <1>6
  <2>2. rows'[call[r].user] = rows[call[r].user]
    BY <1>4, <1>5, <2>1 DEF Resting
  <2> QED BY <1>1, <2>1, <2>2 DEF RowsInv, SoloPingReportsPreference, Preference
<1> QED BY <1>9, <1>10, <1>11, <1>12, <1>13, <1>14 DEF RowsInv

LEMMA ExportRows ==
    ASSUME RowsInv, Overlaps', NEW s \in Shards, ExportData(s)
    PROVE  RowsInv'
<1>1. /\ pc[s] = "export" /\ pc' = [pc EXCEPT ![s] = "file"] /\ pc \in [Shards -> Steps]
      /\ UNCHANGED <<rows, call, solo, raced>>
      /\ change_language' = [change_language EXCEPT ![s] = Exported(call[s].user)]
      /\ change_language \in [Shards -> Languages \union {""}]
  BY DEF ExportData, Move, RowsInv, Overlaps, TypeOK, dbVars, history
<1>2. /\ pc'[s] = "file" /\ change_language'[s] = Exported(call[s].user)
      /\ \A r \in Shards \ {s} : pc'[r] = pc[r] /\ change_language'[r] = change_language[r]
  BY <1>1
<1>3. IsPing(s) /\ ~IsLanguage(s)
  BY <1>1 DEF RowsInv, Overlaps, StepsByCommand, IsPing, IsLanguage
<1>4. InsertsFirstRow' /\ InsertsChoice'
  BY <1>1, <1>2 DEF RowsInv, InsertsFirstRow, InsertsChoice
<1>5. AtMostOneRow'
  BY <1>1 DEF RowsInv, AtMostOneRow
<1>6. SoloTakesEffect'
  BY <1>1, <1>2, <1>3 DEF RowsInv, SoloTakesEffect, IsLanguage
<1>7. PingExportsRow'
  BY <1>1, <1>2 DEF RowsInv, PingExportsRow, Statements
<1>8. solo[s] => Exported(call[s].user) = Preference(call[s].user)
  BY <1>1 DEF RowsInv, PingExportsRow, Exported, Preference
<1>9. SoloPingReportsPreference'
  BY <1>1, <1>2, <1>8, ZenonT(60) DEF RowsInv, SoloPingReportsPreference, IsPing, Preference
<1> QED BY <1>4, <1>5, <1>6, <1>7, <1>9 DEF RowsInv

LEMMA ReplyRows ==
    ASSUME RowsInv, Overlaps', NEW s \in Shards, Reply(s)
    PROVE  RowsInv'
<1> DEFINE u == call[s].user
<1>1. /\ pc[s] = "file" /\ pc' = [pc EXCEPT ![s] = "replied"] /\ pc \in [Shards -> Steps]
      /\ UNCHANGED <<rows, call, change_language, solo>>
  BY DEF Reply, Move, RowsInv, Overlaps, TypeOK, dbVars, locals
<1>2. raced' = IF IsLanguage(s) /\ solo[s] THEN raced \ {u} ELSE raced
  BY DEF Reply
<1>3. u \in Users
  BY <1>1, RunningCall DEF RowsInv, Overlaps, Resting
<1>4. InsertsFirstRow'
  <2> SUFFICES ASSUME NEW r \in Shards, pc'[r] = "insert",
                      solo[r] \/ call[r].user \notin raced'
               PROVE  rows[call[r].user] = <<>>
    BY <1>1 DEF InsertsFirstRow
  <2>1. pc[r] = "insert" /\ r # s
    BY <1>1
  <2>2. CASE solo[r] \/ call[r].user \notin raced
    BY <2>1, <2>2 DEF RowsInv, InsertsFirstRow
  <2>3. CASE solo[s] /\ call[r].user = u
    BY <1>1, <2>1, <2>3 DEF RowsInv, Overlaps, StepsByCommand, SoloIsAlone, RunningLanguage,
                            Running, Resting
  <2> QED BY <1>2, <2>2, <2>3
<1>5. InsertsChoice'
  BY <1>1 DEF RowsInv, InsertsChoice
<1>6. AtMostOneRow'
  <2> SUFFICES ASSUME NEW v \in Users, v \notin raced' PROVE Len(rows[v]) <= 1
    BY <1>1 DEF AtMostOneRow
  <2>1. CASE v \notin raced
    BY <2>1 DEF RowsInv, AtMostOneRow
  <2>2. CASE v = u /\ IsLanguage(s) /\ solo[s]
    <3> DEFINE code == LanguageOf(call[s].option)
    <3>1. rows[v] = <<>> \/ rows[v] = <<code>>
      BY <1>1, <2>2 DEF RowsInv, SoloTakesEffect
    <3> HIDE DEF code
    <3>2. Len(<<>>) <= 1 /\ Len(<<code>>) <= 1
      OBVIOUS
    <3> QED BY <3>1, <3>2
  <2> QED BY <1>2, <2>1, <2>2
<1>7. SoloTakesEffect'
  BY <1>1 DEF RowsInv, SoloTakesEffect, IsLanguage
<1>8. PingExportsRow'
  BY <1>1 DEF RowsInv, PingExportsRow, Statements
<1>9. SoloPingReportsPreference'
  BY <1>1 DEF RowsInv, SoloPingReportsPreference, IsPing, Preference
<1> QED BY <1>4, <1>5, <1>6, <1>7, <1>8, <1>9 DEF RowsInv

(* A call that begins disturbs no rows: others only lose their being solo.  *)
LEMMA EnterRows ==
    ASSUME RowsInv, Overlaps', NEW s \in Shards, NEW c, Enter(s, c),
           raced \subseteq raced', \A r \in Shards \ {s} : solo'[r] => solo[r]
    PROVE  RowsInv'
<1>1. /\ pc' = [pc EXCEPT ![s] = "open"] /\ pc \in [Shards -> Steps]
      /\ call' = [call EXCEPT ![s] = c] /\ DOMAIN call = Shards
      /\ change_language' = [change_language EXCEPT ![s] = "en-us"]
      /\ DOMAIN change_language = Shards
      /\ rows' = rows
  BY DEF Enter, RowsInv, Overlaps, TypeOK, dbVars
<1>2. pc'[s] = "open" /\ change_language'[s] = "en-us"
  BY <1>1
<1>3. \A r \in Shards \ {s} : /\ pc'[r] = pc[r] /\ call'[r] = call[r]
                               /\ change_language'[r] = change_language[r]
  BY <1>1
<1>4. InsertsFirstRow' /\ InsertsChoice'
  BY <1>1, <1>2, <1>3 DEF RowsInv, InsertsFirstRow, InsertsChoice
<1>5. AtMostOneRow'
  BY <1>1 DEF RowsInv, AtMostOneRow
<1>6. SoloTakesEffect'
  BY <1>1, <1>2, <1>3 DEF RowsInv, SoloTakesEffect, IsLanguage
<1>7. PingExportsRow'
  BY <1>1, <1>2, <1>3 DEF RowsInv, PingExportsRow
<1>8. SoloPingReportsPreference'
  BY <1>1, <1>2, <1>3 DEF RowsInv, SoloPingReportsPreference, IsPing, Preference
<1> QED BY <1>4, <1>5, <1>6, <1>7, <1>8 DEF RowsInv

LEMMA RowsInit == Init => RowsInv
<1> SUFFICES ASSUME Init PROVE RowsInv
  OBVIOUS
<1>1. Overlaps /\ (\A s \in Shards : pc[s] = "idle") /\ \A u \in Users : rows[u] = <<>>
  BY OverlapsInit DEF Init
<1>2. AtMostOneRow
  <2>1. ASSUME NEW u \in Users PROVE Len(rows[u]) <= 1
    BY <1>1
  <2> QED BY <2>1 DEF AtMostOneRow
<1> QED BY <1>1, <1>2 DEF RowsInv, InsertsFirstRow, InsertsChoice, SoloTakesEffect,
                         PingExportsRow, SoloPingReportsPreference, Statements

LEMMA RowsNext == RowsInv /\ [Next]_vars => RowsInv'
<1> SUFFICES ASSUME RowsInv, [Next]_vars
             PROVE  RowsInv'
  OBVIOUS
<1> USE DEF dbVars, locals, history
<1>0. Overlaps'
  BY OverlapsNext DEF RowsInv
<1>1. ASSUME NEW s \in Shards, Open(s) PROVE RowsInv'
  <2> DEFINE to == IF IsLanguage(s) THEN "create" ELSE "find"
  <2>1. /\ Move(s, "open", to) /\ to \in {"create", "find"}
        /\ UNCHANGED <<rows, call, change_language, solo, raced>>
    BY <1>1 DEF Open
  <2> HIDE DEF to
  <2> QED BY <1>0, <2>1, QuietMove DEF Steps, Statements, Resting
<1>2. ASSUME NEW s \in Shards, CreateTable(s) PROVE RowsInv'
  BY <1>0, <1>2, QuietMove DEF CreateTable, Steps, Statements, Resting
<1>3. ASSUME NEW s \in Shards, FindRecord(s) PROVE RowsInv'
  BY <1>0, <1>3, FindRows
<1>4. ASSUME NEW s \in Shards, DeleteRecord(s) PROVE RowsInv'
  BY <1>0, <1>4, DeleteRows
<1>5. ASSUME NEW s \in Shards, Insert(s) PROVE RowsInv'
  BY <1>0, <1>5, InsertRows
<1>6. ASSUME NEW s \in Shards, ExportData(s) PROVE RowsInv'
  BY <1>0, <1>6, ExportRows
<1>7. ASSUME NEW s \in Shards, Reply(s) PROVE RowsInv'
  BY <1>0, <1>7, ReplyRows
<1>8. ASSUME NEW s \in Shards, NoSuchTable(s) PROVE RowsInv'
  BY <1>0, <1>8, QuietMove DEF NoSuchTable, Steps, Statements, Resting
<1>9. ASSUME NEW s \in Shards, LanguageFileMissing(s) PROVE RowsInv'
  BY <1>0, <1>9, QuietMove DEF LanguageFileMissing, Steps, Statements, Resting
<1>10. ASSUME NEW s \in Shards, StatementFails(s) PROVE RowsInv'
  <2>1. Move(s, pc[s], "threw") /\ pc[s] \in Steps \ Resting
    BY <1>10 DEF StatementFails, Move, Steps, Statements, Resting
  <2> QED BY <1>0, <1>10, <2>1, QuietMove DEF StatementFails
<1>11. ASSUME NEW s \in Shards, NEW u \in Users, NEW option \in Choices,
              EnterLanguage(s, u, option)
       PROVE  RowsInv'
  <2> DEFINE c == [cmd |-> "language", user |-> u, option |-> option]
  <2>1. /\ Enter(s, c) /\ raced \subseteq raced'
        /\ \A r \in Shards \ {s} : solo'[r] => solo[r]
    BY <1>11 DEF EnterLanguage
  <2> HIDE DEF c
  <2> QED BY <1>0, <2>1, EnterRows
<1>12. ASSUME NEW s \in Shards, NEW u \in Users, EnterPing(s, u) PROVE RowsInv'
  <2> DEFINE c == [cmd |-> "ping", user |-> u]
  <2>1. /\ Enter(s, c) /\ raced \subseteq raced'
        /\ \A r \in Shards \ {s} : solo'[r] => solo[r]
    BY <1>12 DEF EnterPing, RowsInv, Overlaps, TypeOK
  <2> HIDE DEF c
  <2> QED BY <1>0, <2>1, EnterRows
<1>13. CASE Crash
  <2>1. (\A s \in Shards : pc'[s] = "idle") /\ UNCHANGED <<rows, raced>>
    BY <1>13 DEF Crash
  <2>2. AtMostOneRow'
    BY <2>1 DEF RowsInv, AtMostOneRow
  <2> QED BY <1>0, <2>1, <2>2 DEF RowsInv, InsertsFirstRow, InsertsChoice, SoloTakesEffect,
                                  PingExportsRow, SoloPingReportsPreference, Statements
<1>14. CASE UNCHANGED vars
  BY <1>0, <1>14 DEF vars, RowsInv, InsertsFirstRow, InsertsChoice, AtMostOneRow,
     SoloTakesEffect, PingExportsRow, SoloPingReportsPreference, Preference, IsLanguage, IsPing
<1> QED BY <1>1, <1>2, <1>3, <1>4, <1>5, <1>6, <1>7, <1>8, <1>9, <1>10, <1>11, <1>12,
           <1>13, <1>14 DEF Next, Proceed

LEMMA RowsInvariant == Spec => []RowsInv
BY RowsInit, RowsNext, PTL DEF Spec

(* Delete-then-insert keeps one row per user whose calls do not overlap, in *)
(* spite of failures and crashes between the two statements.                *)
THEOREM OneRow == Spec => []AtMostOneRow
<1>1. RowsInv => AtMostOneRow
  BY DEF RowsInv
<1> QED BY <1>1, RowsInvariant, PTL

(* A /language that ran alone leaves its user with the chosen language.     *)
THEOREM SoloLanguage == Spec => []SoloTakesEffect
<1>1. RowsInv => SoloTakesEffect
  BY DEF RowsInv
<1> QED BY <1>1, RowsInvariant, PTL

(* A /ping that ran alone speaks the language in force.                     *)
THEOREM SoloPing == Spec => []SoloPingReportsPreference
<1>1. RowsInv => SoloPingReportsPreference
  BY DEF RowsInv
<1> QED BY <1>1, RowsInvariant, PTL

-----------------------------------------------------------------------------
(* Racing calls: the budget of rows *)

(* The inserters are some of the shards. *)
LEMMA InsertingFinite ==
    \A u : IsFiniteSet(Inserting(u)) /\ Cardinality(Inserting(u)) \in Nat
           /\ Cardinality(Inserting(u)) <= Cardinality(Shards) /\ Cardinality(Shards) \in Nat
<1> TAKE u
<1>1. Inserting(u) \subseteq Shards
  BY DEF Inserting
<1> QED BY <1>1, ShardsFinite, FS_Subset, FS_CardinalityType

(* A step that adds no row, and brings nobody to an insert, keeps to it.    *)
LEMMA BudgetKept ==
    ASSUME TypeOK, RowBudget, TypeOK',
           \A u \in Users :
              \/ rows'[u] = rows[u] /\ Inserting(u)' \subseteq Inserting(u)
              \/ rows'[u] = <<>> /\ Inserting(u)' \subseteq Shards
    PROVE  RowBudget'
<1> SUFFICES ASSUME NEW u \in Users
             PROVE  Len(rows'[u]) + Cardinality(Inserting(u)') <= Cardinality(Shards)
  BY DEF RowBudget, Inserting
<1>1. rows[u] \in Seq(Languages) /\ Len(rows[u]) \in Nat
  <2>1. rows[u] \in Seq(Languages)
    BY DEF TypeOK
  <2> QED BY <2>1
<1>2. CASE rows'[u] = rows[u] /\ Inserting(u)' \subseteq Inserting(u)
  <2>1. Cardinality(Inserting(u)') <= Cardinality(Inserting(u))
    BY <1>2, InsertingFinite, FS_Subset
  <2>2. IsFiniteSet(Inserting(u)') /\ Cardinality(Inserting(u)') \in Nat
    BY <1>2, InsertingFinite, FS_Subset, FS_CardinalityType
  <2>3. Len(rows[u]) + Cardinality(Inserting(u)) <= Cardinality(Shards)
    BY DEF RowBudget
  <2> QED BY <1>1, <1>2, <2>1, <2>2, <2>3, InsertingFinite
<1>3. CASE rows'[u] = <<>> /\ Inserting(u)' \subseteq Shards
  <2>1. Cardinality(Inserting(u)') <= Cardinality(Shards)
    BY <1>3, ShardsFinite, FS_Subset
  <2>2. Cardinality(Inserting(u)') \in Nat
    BY <1>3, ShardsFinite, FS_Subset, FS_CardinalityType
  <2>3. Len(rows'[u]) = 0
    BY <1>3
  <2> QED BY <2>1, <2>2, <2>3, InsertingFinite
<1> QED BY <1>2, <1>3

(* A handler that leaves an insert, or goes anywhere but to one.            *)
LEMMA BudgetMove ==
    ASSUME TypeOK, RowBudget, TypeOK', NEW s \in Shards, NEW from, NEW to,
           Move(s, from, to), to # "insert", UNCHANGED <<rows, call>>
    PROVE  RowBudget'
<1>1. pc' = [pc EXCEPT ![s] = to] /\ pc \in [Shards -> Steps]
  BY DEF Move, TypeOK
<1>2. \A u \in Users : Inserting(u)' \subseteq Inserting(u)
  BY <1>1 DEF Inserting
<1> QED BY <1>2, BudgetKept DEF Inserting

(* An insert trades a place among the inserters for a row.                  *)
LEMMA BudgetInsert ==
    ASSUME TypeOK, RowBudget, TypeOK', NEW s \in Shards, Insert(s)
    PROVE  RowBudget'
<1> DEFINE code == LanguageOf(call[s].option)
<1>0. PICK u \in Users : u = call[s].user
  BY RunningCall DEF Insert, Move, Resting
<1>1. /\ pc[s] = "insert" /\ pc' = [pc EXCEPT ![s] = "file"] /\ pc \in [Shards -> Steps]
      /\ call' = call /\ rows' = [rows EXCEPT ![u] = Append(@, code)]
  BY <1>0 DEF Insert, Move, TypeOK
<1>2. u \in Users /\ rows[u] \in Seq(Languages) /\ code \in Languages
  BY LanguageOfType DEF TypeOK
<1>3. rows'[u] = Append(rows[u], code) /\ \A v \in Users \ {u} : rows'[v] = rows[v]
  BY <1>1, <1>2 DEF TypeOK
<1>4. Len(rows'[u]) = Len(rows[u]) + 1 /\ Len(rows[u]) \in Nat
  <2> HIDE DEF code
  <2> QED BY <1>2, <1>3, AppendProperties, LenProperties
<1>5. s \in Inserting(u) /\ Inserting(u)' = Inserting(u) \ {s}
  BY <1>0, <1>1 DEF Inserting
<1>6. Cardinality(Inserting(u)') = Cardinality(Inserting(u)) - 1
  BY <1>5, InsertingFinite, FS_RemoveElement
<1>7. \A v \in Users \ {u} : Inserting(v)' = Inserting(v)
  BY <1>0, <1>1 DEF Inserting
<1> HIDE DEF code
<1>8. \A v \in Users : Len(rows[v]) + Cardinality(Inserting(v)) <= Cardinality(Shards)
  BY DEF RowBudget
<1>9. Len(rows'[u]) + Cardinality(Inserting(u)') <= Cardinality(Shards)
  BY <1>2, <1>4, <1>6, <1>8, InsertingFinite
<1>10. \A v \in Users \ {u} : Len(rows'[v]) + Cardinality(Inserting(v)') <= Cardinality(Shards)
  BY <1>3, <1>7, <1>8 DEF Inserting
<1>11. ASSUME NEW v \in Users
       PROVE  Len(rows'[v]) + Cardinality({r \in Shards : pc'[r] = "insert" /\ call'[r].user = v})
                 <= Cardinality(Shards)
  <2>1. CASE v = u
    BY <1>9, <2>1 DEF Inserting
  <2>2. CASE v # u
    BY <1>10, <2>2 DEF Inserting
  <2> QED BY <2>1, <2>2
<1> QED BY <1>11 DEF RowBudget, Inserting

LEMMA BudgetNext == TypeOK /\ RowBudget /\ [Next]_vars => RowBudget'
<1> SUFFICES ASSUME TypeOK, RowBudget, [Next]_vars
             PROVE  RowBudget'
  OBVIOUS
<1> USE DEF dbVars, locals, history
<1>0. TypeOK'
  BY TypeNext
<1>1. ASSUME NEW s \in Shards, Open(s) PROVE RowBudget'
  <2> DEFINE to == IF IsLanguage(s) THEN "create" ELSE "find"
  <2>1. Move(s, "open", to) /\ to # "insert" /\ UNCHANGED <<rows, call>>
    BY <1>1 DEF Open
  <2> HIDE DEF to
  <2> QED BY <1>0, <2>1, BudgetMove
<1>2. ASSUME NEW s \in Shards, CreateTable(s) PROVE RowBudget'
  BY <1>0, <1>2, BudgetMove DEF CreateTable
<1>3. ASSUME NEW s \in Shards, FindRecord(s) PROVE RowBudget'
  <2> DEFINE found == rows[call[s].user] # <<>>
             to == AfterFind(s, found)
  <2>1. Move(s, "find", to) /\ UNCHANGED <<rows, call>>
    BY <1>3 DEF FindRecord
  <2>2. CASE to # "insert"
    <3> HIDE DEF to
    <3> QED BY <1>0, <2>1, <2>2, BudgetMove
  <2>3. CASE to = "insert"
    <3>1. rows[call[s].user] = <<>>
      BY <2>3 DEF AfterFind
    <3>2. pc' = [pc EXCEPT ![s] = "insert"] /\ pc \in [Shards -> Steps]
      BY <2>1, <2>3 DEF Move, TypeOK
    <3>3. \A u \in Users \ {call[s].user} : Inserting(u)' \subseteq Inserting(u)
      BY <2>1, <3>2 DEF Inserting
    <3>4. \A u : Inserting(u)' \subseteq Shards
      BY DEF Inserting
    <3> HIDE DEF to
    <3> QED BY <1>0, <2>1, <3>1, <3>3, <3>4, BudgetKept
  <2> QED BY <2>2, <2>3
<1>4. ASSUME NEW s \in Shards, DeleteRecord(s) PROVE RowBudget'
  <2> DEFINE u == call[s].user
  <2>1. rows' = [rows EXCEPT ![u] = <<>>] /\ call' = call /\ rows \in [Users -> Seq(Languages)]
    BY <1>4 DEF DeleteRecord, RowsWithout, TypeOK
  <2>2. \A r \in Shards \ {s} : pc'[r] = pc[r]
    BY <1>4 DEF DeleteRecord, Move, TypeOK
  <2>3. \A v \in Users \ {u} : rows'[v] = rows[v] /\ Inserting(v)' \subseteq Inserting(v)
    BY <2>1, <2>2 DEF Inserting
  <2>4. u \in Users => rows'[u] = <<>> /\ Inserting(u)' \subseteq Shards
    BY <2>1 DEF Inserting
  <2> HIDE DEF u
  <2> QED BY <1>0, <2>3, <2>4, BudgetKept DEF Inserting
<1>5. ASSUME NEW s \in Shards, Insert(s) PROVE RowBudget'
  BY <1>0, <1>5, BudgetInsert
<1>6. ASSUME NEW s \in Shards, ExportData(s) PROVE RowBudget'
  BY <1>0, <1>6, BudgetMove DEF ExportData
<1>7. ASSUME NEW s \in Shards, Reply(s) PROVE RowBudget'
  BY <1>0, <1>7, BudgetMove DEF Reply
<1>8. ASSUME NEW s \in Shards, NoSuchTable(s) PROVE RowBudget'
  BY <1>0, <1>8, BudgetMove DEF NoSuchTable
<1>9. ASSUME NEW s \in Shards, LanguageFileMissing(s) PROVE RowBudget'
  BY <1>0, <1>9, BudgetMove DEF LanguageFileMissing
<1>10. ASSUME NEW s \in Shards, StatementFails(s) PROVE RowBudget'
  <2>1. Move(s, pc[s], "threw")
    BY <1>10 DEF StatementFails, Move
  <2> QED BY <1>0, <1>10, <2>1, BudgetMove DEF StatementFails
<1>11. ASSUME NEW s \in Shards, NEW c, Enter(s, c) PROVE RowBudget'
  <2>1. /\ pc' = [pc EXCEPT ![s] = "open"] /\ pc \in [Shards -> Steps]
        /\ \A r \in Shards \ {s} : call'[r] = call[r]
        /\ rows' = rows
    BY <1>11 DEF Enter, TypeOK
  <2>2. \A u \in Users : Inserting(u)' \subseteq Inserting(u)
    BY <2>1 DEF Inserting
  <2> QED BY <1>0, <2>1, <2>2, BudgetKept DEF Inserting
<1>12. CASE Crash
  <2>1. \A u \in Users : Inserting(u)' \subseteq Inserting(u)
    BY <1>12 DEF Crash, Inserting
  <2> QED BY <1>0, <1>12, <2>1, BudgetKept DEF Crash, Inserting
<1>13. CASE UNCHANGED vars
  BY <1>13 DEF vars, RowBudget, Inserting
<1> QED BY <1>1, <1>2, <1>3, <1>4, <1>5, <1>6, <1>7, <1>8, <1>9, <1>10, <1>11, <1>12,
           <1>13 DEF Next, Proceed, EnterLanguage, EnterPing

(* However the calls of a user race, the user never has more rows than the  *)
(* bot has shards.                                                          *)
THEOREM RowsBounded == Spec => []RowsPerUserBounded
<1>1. Init => TypeOK /\ RowBudget
  <2> SUFFICES ASSUME Init PROVE RowBudget
    BY TypeInit
  <2>1. ASSUME NEW u \in Users PROVE rows[u] = <<>> /\ Inserting(u) = {}
    BY DEF Init, Inserting
  <2>2. Cardinality({}) = 0
    BY FS_EmptySet
  <2>3. Len(<<>>) = 0
    OBVIOUS
  <2> QED BY <2>1, <2>2, <2>3, InsertingFinite DEF RowBudget
<1>2. TypeOK /\ RowBudget /\ [Next]_vars => (TypeOK /\ RowBudget)'
  BY TypeNext, BudgetNext
<1>3. TypeOK /\ RowBudget => RowsPerUserBounded
  <2> SUFFICES ASSUME TypeOK, RowBudget, NEW u \in Users
               PROVE  Len(rows[u]) <= Cardinality(Shards)
    BY DEF RowsPerUserBounded
  <2>1. Len(rows[u]) \in Nat
    <3>1. rows[u] \in Seq(Languages)
      BY DEF TypeOK
    <3> QED BY <3>1
  <2> QED BY <2>1, InsertingFinite DEF RowBudget
<1> QED BY <1>1, <1>2, <1>3, PTL DEF Spec

-----------------------------------------------------------------------------
(* The refinement of PreferenceService. *)

(* The local is assigned once in a call, by its insert or its export: up to  *)
(* then it is the default.                                                  *)
DefaultUntilAssigned ==
    \A s \in Shards : pc[s] \in Statements => change_language[s] = "en-us"

(* The variables of the service, under the refinement mapping. *)
prefs  == [u \in Users |-> Preference(u)]
jobs   == [s \in Shards |-> JobOf(call[s])]
phases == [s \in Shards |-> PhaseOf(s)]
shows  == [s \in Shards |-> ShownBy(s)]

RefInv == TypeOK /\ StepsByCommand /\ DefaultUntilAssigned

LEMMA RefInvInit == Init => RefInv
BY TypeInit DEF RefInv, Init, StepsByCommand, DefaultUntilAssigned, Statements

LEMMA DefaultKept ==
    ASSUME TypeOK, DefaultUntilAssigned, [Next]_vars PROVE DefaultUntilAssigned'
<1> USE DEF TypeOK, DefaultUntilAssigned, Statements, Resting, Move, dbVars, locals, history
<1>1. ASSUME NEW s \in Shards, Proceed(s) PROVE DefaultUntilAssigned'
  <2>1. CASE Insert(s)
    BY <2>1 DEF Insert
  <2>2. CASE ExportData(s)
    BY <2>2 DEF ExportData
  <2>3. CASE FindRecord(s)
    BY <2>3 DEF FindRecord
  <2>4. CASE DeleteRecord(s)
    BY <2>4 DEF DeleteRecord
  <2>5. CASE Open(s) \/ CreateTable(s)
    BY <2>5 DEF Open, CreateTable
  <2>6. CASE Reply(s) \/ NoSuchTable(s) \/ LanguageFileMissing(s)
    BY <2>6 DEF Reply, NoSuchTable, LanguageFileMissing
  <2> QED BY <1>1, <2>1, <2>2, <2>3, <2>4, <2>5, <2>6 DEF Proceed
<1>2. ASSUME NEW s \in Shards, StatementFails(s) PROVE DefaultUntilAssigned'
  BY <1>2 DEF StatementFails
<1>3. ASSUME NEW s \in Shards, NEW c, Enter(s, c) PROVE DefaultUntilAssigned'
  BY <1>3 DEF Enter
<1>4. CASE Crash \/ UNCHANGED vars
  BY <1>4 DEF Crash, vars
<1> QED BY <1>1, <1>2, <1>3, <1>4 DEF Next, EnterLanguage, EnterPing

LEMMA RefInvInvariant == Spec => []RefInv
<1>1. TypeOK /\ DefaultUntilAssigned /\ [Next]_vars => DefaultUntilAssigned'
  BY DefaultKept
<1>2. Init => DefaultUntilAssigned
  BY RefInvInit DEF RefInv
<1>3. Overlaps => TypeOK /\ StepsByCommand
  BY DEF Overlaps
<1> QED BY <1>1, <1>2, <1>3, OverlapsInit, OverlapsNext, PTL DEF Spec, RefInv

(* The state of the service, where the code leaves its own alone. *)
LEMMA PrefsKept == ASSUME UNCHANGED rows PROVE prefs' = prefs
BY DEF prefs, Preference

LEMMA PrefsChanged ==
    ASSUME TypeOK, NEW u \in Users, NEW new, rows' = [rows EXCEPT ![u] = new]
    PROVE  prefs' = [prefs EXCEPT ![u] = IF new = <<>> THEN "en-us" ELSE new[Len(new)]]
BY DEF TypeOK, prefs, Preference

LEMMA JobsKept == ASSUME UNCHANGED call PROVE jobs' = jobs
BY DEF jobs

(* Only the shard that steps changes its phase, and what it shows. *)
LEMMA OthersKept ==
    ASSUME TypeOK, NEW s \in Shards, NEW at, pc' = [pc EXCEPT ![s] = at], UNCHANGED call,
           change_language' \in [Shards -> Languages \union {""}],
           \A r \in Shards \ {s} : change_language'[r] = change_language[r]
    PROVE  /\ phases' = [phases EXCEPT ![s] = PhaseOf(s)']
           /\ shows' = [shows EXCEPT ![s] = ShownBy(s)']
<1>1. \A r \in Shards \ {s} : PhaseOf(r)' = PhaseOf(r) /\ ShownBy(r)' = ShownBy(r)
  BY DEF TypeOK, PhaseOf, ShownBy, IsPing
<1> QED BY <1>1 DEF phases, shows

LEMMA PhaseAt ==
    ASSUME NEW s \in Shards
    PROVE  /\ pc[s] \in Statements => PhaseOf(s) = "open"
           /\ pc[s] = "file" /\ change_language[s] # "" => PhaseOf(s) = "applied"
           /\ pc[s] = "file" => PhaseOf(s) \in {"open", "applied"}
           /\ pc[s] = "replied" => PhaseOf(s) = "done"
           /\ pc[s] = "threw" => PhaseOf(s) = "failed"
           /\ pc[s] = "idle" => PhaseOf(s) = "idle"
BY DEF PhaseOf, Statements


(* The actions of the service under the mapping. *)
LEMMA ServiceActions ==
    ASSUME NEW s \in Shards
    PROVE  /\ Service!Forget(s) <=>
                /\ phases[s] = "open" /\ jobs[s].kind = "set"
                /\ prefs' = [prefs EXCEPT ![jobs[s].user] = "en-us"]
                /\ jobs' = jobs /\ phases' = phases /\ shows' = shows
           /\ Service!Apply(s) <=>
                /\ phases[s] = "open" /\ jobs[s].kind = "set"
                /\ phases' = [phases EXCEPT ![s] = "applied"]
                /\ prefs' = [prefs EXCEPT ![jobs[s].user] = jobs[s].language]
                /\ jobs' = jobs /\ shows' = shows
           /\ Service!Read(s) <=>
                /\ phases[s] = "open" /\ jobs[s].kind = "get"
                /\ phases' = [phases EXCEPT ![s] = "applied"]
                /\ shows' = [shows EXCEPT ![s] = prefs[jobs[s].user]]
                /\ prefs' = prefs /\ jobs' = jobs
           /\ Service!Answer(s) <=>
                /\ phases[s] = "applied" /\ phases' = [phases EXCEPT ![s] = "done"]
                /\ prefs' = prefs /\ jobs' = jobs /\ shows' = shows
           /\ Service!Fail(s) <=>
                /\ phases[s] \in {"open", "applied"}
                /\ phases' = [phases EXCEPT ![s] = "failed"]
                /\ prefs' = prefs /\ jobs' = jobs /\ shows' = shows
           /\ \A j : Service!Begin(s, j) <=>
                /\ phases[s] \in {"idle", "done", "failed"}
                /\ phases' = [phases EXCEPT ![s] = "open"]
                /\ jobs' = [jobs EXCEPT ![s] = j]
                /\ shows' = [shows EXCEPT ![s] = "en-us"]
                /\ prefs' = prefs
<1>1. Service!Forget(s) <=>
        /\ phases[s] = "open" /\ jobs[s].kind = "set"
        /\ prefs' = [prefs EXCEPT ![jobs[s].user] = "en-us"]
        /\ jobs' = jobs /\ phases' = phases /\ shows' = shows
  BY DEF Service!Forget, prefs, jobs, phases, shows
<1>2. Service!Apply(s) <=>
        /\ phases[s] = "open" /\ jobs[s].kind = "set"
        /\ phases' = [phases EXCEPT ![s] = "applied"]
        /\ prefs' = [prefs EXCEPT ![jobs[s].user] = jobs[s].language]
        /\ jobs' = jobs /\ shows' = shows
  BY DEF Service!Apply, Service!Advance, prefs, jobs, phases, shows
<1>3. Service!Read(s) <=>
        /\ phases[s] = "open" /\ jobs[s].kind = "get"
        /\ phases' = [phases EXCEPT ![s] = "applied"]
        /\ shows' = [shows EXCEPT ![s] = prefs[jobs[s].user]]
        /\ prefs' = prefs /\ jobs' = jobs
  BY DEF Service!Read, Service!Advance, prefs, jobs, phases, shows
<1>4. Service!Answer(s) <=>
        /\ phases[s] = "applied" /\ phases' = [phases EXCEPT ![s] = "done"]
        /\ prefs' = prefs /\ jobs' = jobs /\ shows' = shows
  BY DEF Service!Answer, Service!Advance, prefs, jobs, phases, shows
<1>5. Service!Fail(s) <=>
        /\ phases[s] \in {"open", "applied"}
        /\ phases' = [phases EXCEPT ![s] = "failed"]
        /\ prefs' = prefs /\ jobs' = jobs /\ shows' = shows
  BY DEF Service!Fail, Service!Advance, prefs, jobs, phases, shows
<1>6. ASSUME NEW j
      PROVE  Service!Begin(s, j) <=>
                /\ phases[s] \in {"idle", "done", "failed"}
                /\ phases' = [phases EXCEPT ![s] = "open"]
                /\ jobs' = [jobs EXCEPT ![s] = j]
                /\ shows' = [shows EXCEPT ![s] = "en-us"]
                /\ prefs' = prefs
  BY DEF Service!Begin, Service!Advance, Service!Resting, prefs, jobs, phases, shows
<1> QED BY <1>1, <1>2, <1>3, <1>4, <1>5, <1>6

(* A step of the service, or one that it does not see. *)
ServiceStep == Service!Next \/ UNCHANGED <<prefs, jobs, phases, shows>>

LEMMA ServeIsStep ==
    ASSUME NEW s \in Shards, Service!Forget(s) \/ Service!Apply(s) \/ Service!Read(s)
                             \/ Service!Answer(s) \/ Service!Fail(s)
    PROVE  ServiceStep
BY DEF ServiceStep, Service!Next, Service!Serve

(* What the service knows of the call that a shard handles. *)
LEMMA JobAt ==
    ASSUME TypeOK, NEW s \in Shards, pc[s] \notin Resting
    PROVE  /\ call[s].user \in Users /\ jobs[s].user = call[s].user
           /\ IsLanguage(s) \/ IsPing(s)
           /\ IsLanguage(s) => jobs[s].kind = "set" /\ jobs[s].language = LanguageOf(call[s].option)
           /\ IsPing(s) => jobs[s].kind = "get" /\ ~IsLanguage(s)
           /\ IsLanguage(s) => ShownBy(s) = "en-us"
<1>1. call[s].user \in Users /\ (IsLanguage(s) \/ IsPing(s))
  BY RunningCall
<1> QED BY <1>1 DEF jobs, JobOf, IsLanguage, IsPing, ShownBy

(* A statement after which the call goes on with another changes nothing     *)
(* that the service sees.                                                   *)
LEMMA QuietStatement ==
    ASSUME RefInv, TypeOK', NEW s \in Shards, NEW from \in Statements, NEW to \in Statements,
           Move(s, from, to), UNCHANGED <<rows, call, change_language>>
    PROVE  ServiceStep
<1>1. PhaseOf(s)' = PhaseOf(s) /\ ShownBy(s)' = ShownBy(s)
  <2>1. pc[s] \in Statements /\ pc'[s] \in Statements
    BY DEF Move, RefInv, TypeOK
  <2>2. PhaseOf(s) = "open" /\ PhaseOf(s)' = "open"
    BY <2>1 DEF PhaseOf, Statements
  <2> QED BY <2>2 DEF ShownBy, IsPing
<1>2. phases' = [phases EXCEPT ![s] = PhaseOf(s)] /\ shows' = [shows EXCEPT ![s] = ShownBy(s)]
  BY <1>1, OthersKept DEF Move, RefInv, TypeOK
<1>3. phases' = phases /\ shows' = shows
  BY <1>2 DEF phases, shows
<1> QED BY <1>3, PrefsKept, JobsKept DEF ServiceStep

(* A call that an exception ends. *)
LEMMA ThrowFails ==
    ASSUME RefInv, TypeOK', NEW s \in Shards, pc[s] \in Statements \union {"file"},
           pc' = [pc EXCEPT ![s] = "threw"], UNCHANGED <<rows, call, change_language>>
    PROVE  ServiceStep
<1>1. PhaseOf(s)' = "failed" /\ ShownBy(s)' = ShownBy(s)
  <2>1. pc'[s] = "threw"
    BY DEF RefInv, TypeOK
  <2> QED BY <2>1 DEF PhaseOf, ShownBy, IsPing, Statements
<1>2. phases' = [phases EXCEPT ![s] = "failed"] /\ shows' = [shows EXCEPT ![s] = ShownBy(s)]
  BY <1>1, OthersKept DEF RefInv, TypeOK
<1>3. shows' = shows
  BY <1>2 DEF shows
<1>4. phases[s] \in {"open", "applied"}
  BY PhaseAt DEF phases
<1> QED BY <1>2, <1>3, <1>4, PrefsKept, JobsKept, ServiceActions, ServeIsStep


(* Each of the handlers' calls, as a step of the service. *)

(* findRecord ends the statements of a call that has nothing to do in the    *)
(* file: the user has no row, and the default is in force.                  *)
LEMMA FindIsStep ==
    ASSUME RefInv, TypeOK', NEW s \in Shards, FindRecord(s) PROVE ServiceStep
<1> DEFINE u == call[s].user
           found == rows[u] # <<>>
<1>1. /\ pc[s] = "find" /\ pc' = [pc EXCEPT ![s] = AfterFind(s, found)]
      /\ UNCHANGED <<rows, call, change_language>>
  BY DEF FindRecord, Move, dbVars, locals
<1>2. /\ pc[s] \in Statements /\ pc[s] \notin Resting /\ change_language[s] = "en-us"
  BY <1>1 DEF RefInv, DefaultUntilAssigned, Statements, Resting
<1>3. CASE AfterFind(s, found) \in Statements
  BY <1>1, <1>2, <1>3, QuietStatement DEF Move
<1>4. CASE AfterFind(s, found) = "file"
  <2>1. /\ rows[u] = <<>> /\ prefs[u] = "en-us" /\ u \in Users
        /\ IsLanguage(s) => LanguageOf(call[s].option) = "en-us"
    BY <1>2, <1>4, JobAt DEF AfterFind, prefs, Preference, RefInv
  <2>2. PhaseOf(s)' = "applied" /\ ShownBy(s)' = "en-us"
    <3>1. pc'[s] = "file" /\ change_language'[s] = "en-us"
      BY <1>1, <1>2, <1>4 DEF RefInv, TypeOK
    <3> QED BY <3>1 DEF PhaseOf, ShownBy, Statements
  <2>3. ShownBy(s) = "en-us" /\ phases[s] = "open" /\ shows[s] = "en-us"
    BY <1>2, PhaseAt DEF ShownBy, phases, shows
  <2>4. phases' = [phases EXCEPT ![s] = "applied"] /\ shows' = [shows EXCEPT ![s] = "en-us"]
    BY <1>1, <1>4, <2>2, OthersKept DEF RefInv, TypeOK
  <2>5. shows' = shows /\ prefs' = prefs /\ jobs' = jobs
    BY <1>1, <2>3, <2>4, PrefsKept, JobsKept DEF shows
  <2>6. prefs = [prefs EXCEPT ![u] = "en-us"]
    BY <2>1 DEF prefs
  <2>7. CASE IsLanguage(s)
    <3>1. jobs[s].kind = "set" /\ jobs[s].user = u /\ jobs[s].language = "en-us"
      BY <1>2, <2>1, <2>7, JobAt DEF RefInv
    <3>2. prefs' = [prefs EXCEPT ![jobs[s].user] = jobs[s].language]
      BY <2>5, <2>6, <3>1
    <3>3. Service!Apply(s)
      BY <2>3, <2>4, <2>5, <3>1, <3>2, ServiceActions
    <3> QED BY <3>3, ServeIsStep
  <2>8. CASE IsPing(s)
    <3>1. jobs[s].kind = "get" /\ prefs[jobs[s].user] = "en-us"
      BY <1>2, <2>1, <2>8, JobAt DEF RefInv
    <3>2. Service!Read(s)
      BY <2>3, <2>4, <2>5, <3>1, ServiceActions
    <3> QED BY <3>2, ServeIsStep
  <2> QED BY <1>2, <2>7, <2>8, JobAt DEF RefInv
<1>5. AfterFind(s, found) \in Statements \union {"file"}
  BY DEF AfterFind, Statements
<1> QED BY <1>3, <1>4, <1>5

(* The delete puts the default in force: for good, or until the insert. *)
LEMMA DeleteIsStep ==
    ASSUME RefInv, TypeOK', NEW s \in Shards, DeleteRecord(s) PROVE ServiceStep
<1> DEFINE u == call[s].user
           code == LanguageOf(call[s].option)
<1>1. /\ pc[s] = "delete" /\ UNCHANGED <<call, change_language>>
      /\ pc' = [pc EXCEPT ![s] = IF code = "en-us" THEN "file" ELSE "insert"]
      /\ rows' = [rows EXCEPT ![u] = <<>>]
  BY DEF DeleteRecord, Move, locals, RowsWithout
<1>2. /\ pc[s] \in Statements /\ pc[s] \notin Resting /\ change_language[s] = "en-us"
      /\ IsLanguage(s)
  BY <1>1 DEF RefInv, DefaultUntilAssigned, StepsByCommand, Statements, Resting
<1>3. /\ u \in Users /\ jobs[s].user = u /\ jobs[s].kind = "set" /\ jobs[s].language = code
      /\ ShownBy(s) = "en-us"
  BY <1>2, JobAt DEF RefInv
<1>4. prefs' = [prefs EXCEPT ![u] = "en-us"]
  BY <1>1, <1>3, PrefsChanged DEF RefInv
<1>5. phases[s] = "open" /\ shows[s] = "en-us" /\ jobs' = jobs
  BY <1>1, <1>2, <1>3, PhaseAt, JobsKept DEF phases, shows
<1>6. ShownBy(s)' = "en-us"
  BY <1>1, <1>2 DEF ShownBy
<1>7. phases' = [phases EXCEPT ![s] = PhaseOf(s)'] /\ shows' = [shows EXCEPT ![s] = "en-us"]
  BY <1>1, <1>6, OthersKept DEF RefInv, TypeOK
<1>8. shows' = shows
  BY <1>5, <1>7 DEF shows
<1>9. CASE code = "en-us"
  <2>1. pc'[s] = "file" /\ change_language'[s] = "en-us"
    BY <1>1, <1>2, <1>9 DEF RefInv, TypeOK
  <2>2. PhaseOf(s)' = "applied"
    BY <2>1 DEF PhaseOf, Statements
  <2> QED BY <1>3, <1>4, <1>5, <1>7, <1>8, <1>9, <2>2, ServiceActions, ServeIsStep
<1>10. CASE code # "en-us"
  <2>1. pc'[s] = "insert"
    BY <1>1, <1>10 DEF RefInv, TypeOK
  <2>2. PhaseOf(s)' = "open"
    BY <2>1 DEF PhaseOf, Statements
  <2>3. phases' = phases
    BY <1>5, <1>7, <2>2 DEF phases
  <2> QED BY <1>3, <1>4, <1>5, <1>8, <2>3, ServiceActions, ServeIsStep
<1> QED BY <1>9, <1>10

(* The insert puts the language of the call in force. *)
LEMMA InsertIsStep ==
    ASSUME RefInv, TypeOK', NEW s \in Shards, Insert(s) PROVE ServiceStep
<1> DEFINE u == call[s].user
           code == LanguageOf(call[s].option)
           new == Append(rows[u], code)
<1>1. /\ pc[s] = "insert" /\ UNCHANGED call
      /\ pc' = [pc EXCEPT ![s] = "file"]
      /\ change_language' = [change_language EXCEPT ![s] = code]
      /\ rows' = [rows EXCEPT ![u] = new]
  BY DEF Insert, Move, dbVars
<1>2. pc[s] \in Statements /\ pc[s] \notin Resting /\ IsLanguage(s)
  BY <1>1 DEF RefInv, StepsByCommand, Statements, Resting
<1>3. /\ u \in Users /\ jobs[s].user = u /\ jobs[s].kind = "set" /\ jobs[s].language = code
      /\ ShownBy(s) = "en-us" /\ ~IsPing(s)
  BY <1>2, JobAt DEF RefInv
<1>4. new # <<>> /\ new[Len(new)] = code
  <2>1. rows[u] \in Seq(Languages) /\ code \in Languages
    BY <1>3, LanguageOfType DEF RefInv, TypeOK
  <2> HIDE DEF code, u
  <2> QED BY <2>1, AppendProperties
<1>5. prefs' = [prefs EXCEPT ![u] = code]
  <2>1. rows' = [rows EXCEPT ![u] = new] /\ u \in Users
    BY <1>1, <1>3
  <2> HIDE DEF code, u, new
  <2>2. prefs' = [prefs EXCEPT ![u] = IF new = <<>> THEN "en-us" ELSE new[Len(new)]]
    BY <2>1, PrefsChanged DEF RefInv
  <2> QED BY <1>4, <2>2
<1>6. phases[s] = "open" /\ shows[s] = "en-us" /\ jobs' = jobs
  BY <1>1, <1>2, <1>3, PhaseAt, JobsKept DEF phases, shows
<1>7. PhaseOf(s)' = "applied" /\ ShownBy(s)' = "en-us"
  <2>1. pc'[s] = "file" /\ change_language'[s] \in Languages
    BY <1>1, LanguageOfType DEF RefInv, TypeOK
  <2> QED BY <1>1, <1>3, <2>1 DEF PhaseOf, ShownBy, IsPing, Statements, Languages
<1>8. phases' = [phases EXCEPT ![s] = "applied"] /\ shows' = [shows EXCEPT ![s] = "en-us"]
  BY <1>1, <1>7, OthersKept DEF RefInv, TypeOK
<1>9. shows' = shows
  BY <1>6, <1>8 DEF shows
<1> QED BY <1>3, <1>5, <1>6, <1>8, <1>9, ServiceActions, ServeIsStep

(* The export reads the language in force, unless the row has vanished. *)
LEMMA ExportIsStep ==
    ASSUME RefInv, TypeOK', NEW s \in Shards, ExportData(s) PROVE ServiceStep
<1> DEFINE u == call[s].user
<1>1. /\ pc[s] = "export" /\ UNCHANGED <<rows, call>>
      /\ pc' = [pc EXCEPT ![s] = "file"]
      /\ change_language' = [change_language EXCEPT ![s] = Exported(u)]
  BY DEF ExportData, Move, dbVars
<1>2. /\ pc[s] \in Statements /\ pc[s] \notin Resting /\ IsPing(s) /\ change_language[s] = "en-us"
  BY <1>1 DEF RefInv, DefaultUntilAssigned, StepsByCommand, Statements, Resting
<1>3. u \in Users /\ jobs[s].user = u /\ jobs[s].kind = "get"
  BY <1>2, JobAt DEF RefInv
<1>4. phases[s] = "open" /\ shows[s] = "en-us" /\ jobs' = jobs /\ prefs' = prefs
  BY <1>1, <1>2, PhaseAt, JobsKept, PrefsKept DEF phases, shows, ShownBy
<1>5. pc'[s] = "file" /\ change_language'[s] = Exported(u) /\ IsPing(s)'
  BY <1>1, <1>2 DEF RefInv, TypeOK, IsPing
<1>6. phases' = [phases EXCEPT ![s] = PhaseOf(s)'] /\ shows' = [shows EXCEPT ![s] = ShownBy(s)']
  BY <1>1, OthersKept DEF RefInv, TypeOK
<1>7. CASE Exported(u) = ""
  <2>1. PhaseOf(s)' = "open" /\ ShownBy(s)' = "en-us"
    BY <1>5, <1>7 DEF PhaseOf, ShownBy, Statements
  <2>2. phases' = phases /\ shows' = shows
    BY <1>4, <1>6, <2>1 DEF phases, shows
  <2> QED BY <1>4, <2>2 DEF ServiceStep
<1>8. CASE Exported(u) # ""
  <2>1. PhaseOf(s)' = "applied" /\ ShownBy(s)' = Exported(u)
    BY <1>5, <1>8 DEF PhaseOf, ShownBy, Statements
  <2>2. Exported(u) = prefs[u]
    BY <1>3, <1>8 DEF Exported, prefs, Preference
  <2> QED BY <1>3, <1>4, <1>6, <2>1, <2>2, ServiceActions, ServeIsStep
<1> QED BY <1>7, <1>8

(* The reply is the answer: the language file of "" cannot be read. *)
LEMMA ReplyIsStep ==
    ASSUME RefInv, TypeOK', NEW s \in Shards, Reply(s) PROVE ServiceStep
<1>1. /\ pc[s] = "file" /\ UNCHANGED <<rows, call, change_language>>
      /\ pc' = [pc EXCEPT ![s] = "replied"]
  BY DEF Reply, Move, dbVars, locals
<1>2. change_language[s] # ""
  BY FilesKnown DEF Reply, Languages
<1>3. phases[s] = "applied" /\ jobs' = jobs /\ prefs' = prefs
  BY <1>1, <1>2, PhaseAt, JobsKept, PrefsKept DEF phases
<1>4. PhaseOf(s)' = "done" /\ ShownBy(s)' = ShownBy(s)
  <2>1. pc'[s] = "replied"
    BY <1>1 DEF RefInv, TypeOK
  <2> QED BY <1>1, <2>1 DEF PhaseOf, ShownBy, IsPing, Statements
<1>5. phases' = [phases EXCEPT ![s] = "done"] /\ shows' = [shows EXCEPT ![s] = ShownBy(s)]
  BY <1>1, <1>4, OthersKept DEF RefInv, TypeOK
<1>6. shows' = shows
  BY <1>5 DEF shows
<1> QED BY <1>3, <1>5, <1>6, ServiceActions, ServeIsStep

(* A shard that enters a handler begins a call of the service. *)
LEMMA EnterIsStep ==
    ASSUME RefInv, TypeOK', NEW s \in Shards, NEW c \in LanguageCalls \union PingCalls, Enter(s, c),
           JobOf(c) \in Service!Sets \union Service!Gets
    PROVE  ServiceStep
<1>1. /\ pc[s] \in Resting /\ pc' = [pc EXCEPT ![s] = "open"]
      /\ call' = [call EXCEPT ![s] = c] /\ UNCHANGED rows
      /\ change_language' = [change_language EXCEPT ![s] = "en-us"]
  BY DEF Enter, dbVars
<1>2. jobs' = [jobs EXCEPT ![s] = JobOf(c)] /\ prefs' = prefs
  BY <1>1, PrefsKept DEF jobs, RefInv, TypeOK
<1>3. pc'[s] = "open" /\ change_language'[s] = "en-us"
  BY <1>1 DEF RefInv, TypeOK
<1>4. PhaseOf(s)' = "open" /\ ShownBy(s)' = "en-us"
  BY <1>3 DEF PhaseOf, ShownBy, Statements
<1>5. \A r \in Shards \ {s} : PhaseOf(r)' = PhaseOf(r) /\ ShownBy(r)' = ShownBy(r)
  BY <1>1 DEF RefInv, TypeOK, PhaseOf, ShownBy, IsPing
<1>6. phases' = [phases EXCEPT ![s] = "open"] /\ shows' = [shows EXCEPT ![s] = "en-us"]
  BY <1>4, <1>5 DEF phases, shows
<1>7. phases[s] \in {"idle", "done", "failed"}
  BY <1>1, PhaseAt DEF phases, Resting
<1>8. Service!Begin(s, JobOf(c))
  BY <1>2, <1>6, <1>7, ServiceActions
<1> QED BY <1>8 DEF ServiceStep, Service!Next

LEMMA NextIsStep ==
    ASSUME RefInv, TypeOK', [Next]_vars PROVE ServiceStep
<1>1. ASSUME NEW s \in Shards, Proceed(s) PROVE ServiceStep
  <2>1. CASE Open(s)
    <3>1. UNCHANGED <<rows, call, change_language>>
      BY <2>1 DEF Open, dbVars, locals
    <3>2. \E to \in Statements : Move(s, "open", to)
      BY <2>1 DEF Open, Statements
    <3> QED BY <3>1, <3>2, QuietStatement DEF Statements
  <2>2. CASE CreateTable(s)
    <3>1. UNCHANGED <<rows, call, change_language>> /\ Move(s, "create", "find")
      BY <2>2 DEF CreateTable, locals
    <3> QED BY <3>1, QuietStatement DEF Statements
  <2>3. CASE NoSuchTable(s) \/ LanguageFileMissing(s)
    <3>1. /\ pc[s] \in Statements \union {"file"} /\ pc' = [pc EXCEPT ![s] = "threw"]
          /\ UNCHANGED <<rows, call, change_language>>
      BY <2>3 DEF NoSuchTable, LanguageFileMissing, Move, dbVars, locals, Statements
    <3> QED BY <3>1, ThrowFails
  <2> QED BY <1>1, <2>1, <2>2, <2>3, FindIsStep, DeleteIsStep, InsertIsStep, ExportIsStep,
             ReplyIsStep DEF Proceed
<1>2. ASSUME NEW s \in Shards, StatementFails(s) PROVE ServiceStep
  BY <1>2, ThrowFails DEF StatementFails, dbVars, locals
<1>3. ASSUME NEW s \in Shards, NEW u \in Users, NEW option \in Choices,
             EnterLanguage(s, u, option)
      PROVE  ServiceStep
  <2> DEFINE c == [cmd |-> "language", user |-> u, option |-> option]
  <2>1. c \in LanguageCalls
    BY DEF LanguageCalls
  <2>2. JobOf(c) \in Service!Sets
    <3>1. JobOf(c) = [kind |-> "set", user |-> u, language |-> LanguageOf(option)]
      BY DEF JobOf
    <3> QED BY <3>1, LanguageOfType DEF Service!Sets
  <2>3. Enter(s, c)
    BY <1>3 DEF EnterLanguage
  <2> HIDE DEF c
  <2> QED BY <2>1, <2>2, <2>3, EnterIsStep
<1>4. ASSUME NEW s \in Shards, NEW u \in Users, EnterPing(s, u) PROVE ServiceStep
  <2> DEFINE c == [cmd |-> "ping", user |-> u]
  <2>1. c \in PingCalls
    BY DEF PingCalls
  <2>2. JobOf(c) \in Service!Gets
    <3>1. JobOf(c) = [kind |-> "get", user |-> u]
      BY DEF JobOf
    <3> QED BY <3>1 DEF Service!Gets
  <2>3. Enter(s, c)
    BY <1>4 DEF EnterPing
  <2> HIDE DEF c
  <2> QED BY <2>1, <2>2, <2>3, EnterIsStep
<1>5. CASE Crash
  <2>1. phases' = [s \in Shards |-> "idle"]
    BY <1>5 DEF Crash, phases, PhaseOf, Statements
  <2>2. shows' = shows /\ prefs' = prefs /\ jobs' = jobs
    BY <1>5, PrefsKept, JobsKept DEF Crash, shows, ShownBy, IsPing, dbVars, locals
  <2>3. Service!Crash
    BY <2>1, <2>2 DEF Service!Crash, prefs, jobs, phases, shows
  <2> QED BY <2>3 DEF ServiceStep, Service!Next
<1>6. CASE UNCHANGED vars
  <2>1. phases' = phases /\ shows' = shows
    BY <1>6 DEF vars, locals, phases, shows, PhaseOf, ShownBy, IsPing
  <2> QED BY <1>6, <2>1, PrefsKept, JobsKept DEF vars, dbVars, locals, ServiceStep
<1> QED BY <1>1, <1>2, <1>3, <1>4, <1>5, <1>6 DEF Next

LEMMA ServiceInit == Init => Service!Init
<1> SUFFICES ASSUME Init PROVE Service!Init
  OBVIOUS
<1>1. \A u \in Users : Preference(u) = "en-us"
  BY DEF Init, Preference
<1>2. \A s \in Shards : /\ JobOf(call[s]) = [kind |-> "none"]
                        /\ PhaseOf(s) = "idle" /\ ShownBy(s) = "en-us"
  BY DEF Init, NoCall, JobOf, PhaseOf, ShownBy, IsPing, Statements
<1> QED BY <1>1, <1>2 DEF Service!Init

(* Statement by statement, the handlers implement PreferenceService. *)
THEOREM ImplementsPreferences == Spec => ImplementsService
<1>1. RefInv /\ RefInv' /\ [Next]_vars => [Service!Next]_(Service!vars)
  <2>1. ServiceStep => [Service!Next]_(Service!vars)
    BY DEF ServiceStep, Service!vars, prefs, jobs, phases, shows
  <2> QED BY <2>1, NextIsStep DEF RefInv
<1> QED BY <1>1, ServiceInit, RefInvInvariant, PTL DEF Spec, ImplementsService, Service!Spec
=============================================================================
