------------------------ MODULE LanguagePreferences ------------------------
(***************************************************************************)
(* The /language and /ping commands over the SQLite file                   *)
(* ./database/language.db (src/src/cmd_common/language.cpp, ping.cpp,      *)
(* src/cores/db_handler.h).                                                *)
(*                                                                         *)
(* D++ runs a slash-command handler on the thread of the shard that got    *)
(* the event, so handlers of different shards interleave: each opens its   *)
(* own connection, and every statement is a transaction of its own.  One   *)
(* action here is one DatabaseHandler call; between two of them any other  *)
(* shard may run.  A statement that SQLite refuses (the file is busy and   *)
(* no busy timeout is set, or the disk fails) throws; the exception leaves *)
(* the handler, what earlier statements did stays, and no reply is sent.   *)
(***************************************************************************)
EXTENDS Naturals, Sequences, FiniteSets

CONSTANTS Shards,         \* shard threads that call the handlers
          Users,          \* Discord users (event.command.usr.id)
          Choices,        \* choices of /language that Discord offers
          LanguageFiles   \* codes c for which ./languages/c.json can be read

Languages == {"en-us", "ja-jp", "vi-vn"}

ASSUME ShardsFinite == IsFiniteSet(Shards)
ASSUME ChoicesKnown == Choices \subseteq {"english", "japanese", "vietnamese"}
ASSUME FilesKnown   == LanguageFiles \subseteq Languages

VARIABLES
    tableExists,       \* table "configuration" is in the file
    rows,              \* rows[u]: the languages in u's rows, in rowid order
    pc,                \* pc[s]: the next call of the handler that s runs
    call,              \* call[s]: the interaction that s handles, or handled last
    change_language,   \* change_language[s]: local of the same name
    (* History: observes which calls of one user overlapped. *)
    solo,              \* solo[s]: no /language of the same user overlapped call[s]
    raced              \* users whose rows are left by overlapping /language calls

dbVars   == <<tableExists, rows>>
locals   == <<call, change_language>>
history  == <<solo, raced>>
vars     == <<dbVars, pc, locals, history>>

NoCall        == [cmd |-> "none"]
LanguageCalls == [cmd : {"language"}, user : Users, option : Choices]
PingCalls     == [cmd : {"ping"}, user : Users]

Statements == {"open", "create", "find", "delete", "insert", "export"}
Resting    == {"idle", "replied", "threw"}
Steps      == Statements \union {"file"} \union Resting

(* The code of the language file that an option of /language selects. *)
LanguageOf(option) ==
    CASE option = "japanese"   -> "ja-jp"
      [] option = "vietnamese" -> "vi-vn"
      [] OTHER                 -> "en-us"

TypeOK ==
    /\ tableExists \in BOOLEAN
    /\ rows \in [Users -> Seq(Languages)]
    /\ pc \in [Shards -> Steps]
    /\ call \in [Shards -> LanguageCalls \union PingCalls \union {NoCall}]
    /\ \A s \in Shards : pc[s] \notin Resting => call[s] # NoCall
    /\ change_language \in [Shards -> Languages \union {""}]
    /\ solo \in [Shards -> BOOLEAN]
    /\ raced \subseteq Users

Init ==
    /\ tableExists = FALSE
    /\ rows = [u \in Users |-> <<>>]
    /\ pc = [s \in Shards |-> "idle"]
    /\ call = [s \in Shards |-> NoCall]
    /\ change_language = [s \in Shards |-> "en-us"]
    /\ solo = [s \in Shards |-> TRUE]
    /\ raced = {}

-----------------------------------------------------------------------------
(* Helpers *)

Move(s, from, to) ==
    /\ pc[s] = from
    /\ pc' = [pc EXCEPT ![s] = to]

IsLanguage(s) == call[s].cmd = "language"
IsPing(s)     == call[s].cmd = "ping"

Running(s, u)         == pc[s] \notin Resting /\ call[s].user = u
RunningLanguage(s, u) == Running(s, u) /\ IsLanguage(s)

(* The language in which /ping answers u: the newest row, if there is one. *)
Preference(u) == IF rows[u] = <<>> THEN "en-us" ELSE rows[u][Len(rows[u])]

-----------------------------------------------------------------------------
(* A shard gets an interaction and enters the handler. *)

Enter(s, c) ==
    /\ pc[s] \in Resting
    /\ pc' = [pc EXCEPT ![s] = "open"]
    /\ call' = [call EXCEPT ![s] = c]
    /\ change_language' = [change_language EXCEPT ![s] = "en-us"]
    /\ UNCHANGED dbVars

EnterLanguage(s, u, option) ==
    LET rivals == {r \in Shards \ {s} : RunningLanguage(r, u)}
    IN  /\ Enter(s, [cmd |-> "language", user |-> u, option |-> option])
        /\ solo' = [r \in Shards |-> IF r = s THEN rivals = {}
                                     ELSE solo[r] /\ ~Running(r, u)]
        /\ raced' = IF rivals = {} THEN raced ELSE raced \union {u}

EnterPing(s, u) ==
    /\ Enter(s, [cmd |-> "ping", user |-> u])
    /\ solo' = [solo EXCEPT ![s] = \A r \in Shards \ {s} : ~RunningLanguage(r, u)]
    /\ UNCHANGED raced

-----------------------------------------------------------------------------
(* The calls of the handlers, in their order. *)

(* sqlite3_open and PRAGMA synchronous=OFF: neither needs the table. *)
Open(s) ==
    /\ Move(s, "open", IF IsLanguage(s) THEN "create" ELSE "find")
    /\ UNCHANGED <<dbVars, locals, history>>

CreateTable(s) ==
    /\ Move(s, "create", "find")
    /\ tableExists' = TRUE
    /\ UNCHANGED <<rows, locals, history>>

(* Seeded error: the old row is not deleted before the new one is inserted. *)
AfterFind_NoDelete(s, found) ==
    IF IsPing(s) THEN IF found THEN "export" ELSE "file"
    ELSE IF LanguageOf(call[s].option) = "en-us" THEN "file" ELSE "insert"

(* Seeded error: English changes the reply, and leaves the row. *)
AfterFind_EnglishKeepsRow(s, found) ==
    IF IsPing(s) THEN IF found THEN "export" ELSE "file"
    ELSE IF LanguageOf(call[s].option) = "en-us" THEN "file"
    ELSE IF found THEN "delete" ELSE "insert"

(* What a handler calls once check_user = found: the branches it guards. *)
AfterFind(s, found) ==
    IF IsPing(s) THEN IF found THEN "export" ELSE "file"
    ELSE IF found THEN "delete"
    ELSE IF LanguageOf(call[s].option) = "en-us" THEN "file" ELSE "insert"

FindRecord(s) ==
    LET found == rows[call[s].user] # <<>>
    IN  /\ tableExists
        /\ Move(s, "find", AfterFind(s, found))
        /\ UNCHANGED <<dbVars, locals, history>>

(* Seeded error: only the newest of the user's rows is deleted. *)
RowsWithout_NewestOnly(u) == [rows EXCEPT ![u] = SubSeq(@, 1, Len(@) - 1)]

(* Seeded error: DELETE without its WHERE. *)
RowsWithout_NoWhere(u) == [v \in Users |-> <<>>]

(* DELETE ... WHERE id=u: every row of the user, and no other. *)
RowsWithout(u) == [rows EXCEPT ![u] = <<>>]

DeleteRecord(s) ==
    /\ Move(s, "delete", IF LanguageOf(call[s].option) = "en-us" THEN "file" ELSE "insert")
    /\ rows' = RowsWithout(call[s].user)
    /\ UNCHANGED <<tableExists, locals, history>>

(* Seeded error: the option is stored in place of the language code. *)
Insert_StoresOption(s) ==
    /\ Move(s, "insert", "file")
    /\ change_language' = [change_language EXCEPT ![s] = LanguageOf(call[s].option)]
    /\ rows' = [rows EXCEPT ![call[s].user] = Append(@, call[s].option)]
    /\ UNCHANGED <<tableExists, call, history>>

(* change_language is assigned, then its row is appended. *)
Insert(s) ==
    LET code == LanguageOf(call[s].option)
    IN  /\ Move(s, "insert", "file")
        /\ change_language' = [change_language EXCEPT ![s] = code]
        /\ rows' = [rows EXCEPT ![call[s].user] = Append(@, code)]
        /\ UNCHANGED <<tableExists, call, history>>

(* Seeded error: the oldest row is read. *)
Exported_Oldest(u) == IF rows[u] = <<>> THEN "" ELSE rows[u][1]

(* Each row that SELECT returns overwrites the one before: the last one     *)
(* stays, and "" when there is none.                                        *)
Exported(u) == IF rows[u] = <<>> THEN "" ELSE rows[u][Len(rows[u])]

ExportData(s) ==
    /\ Move(s, "export", "file")
    /\ change_language' = [change_language EXCEPT ![s] = Exported(call[s].user)]
    /\ UNCHANGED <<dbVars, call, history>>

(* The language file is parsed and the embed sent; the connection closes. *)
Reply(s) ==
    /\ change_language[s] \in LanguageFiles
    /\ Move(s, "file", "replied")
    /\ raced' = IF IsLanguage(s) /\ solo[s] THEN raced \ {call[s].user} ELSE raced
    /\ UNCHANGED <<dbVars, locals, solo>>

-----------------------------------------------------------------------------
(* Exceptions that leave a handler, and the end of the process. *)

(* Only /language creates the table: a /ping before the first one fails. *)
NoSuchTable(s) ==
    /\ ~tableExists
    /\ Move(s, "find", "threw")
    /\ UNCHANGED <<dbVars, locals, history>>

(* The parser throws on a file that could not be opened. *)
LanguageFileMissing(s) ==
    /\ change_language[s] \notin LanguageFiles
    /\ Move(s, "file", "threw")
    /\ UNCHANGED <<dbVars, locals, history>>

(* SQLITE_BUSY, SQLITE_IOERR...: the statement has had no effect. *)
StatementFails(s) ==
    /\ pc[s] \in Statements
    /\ pc' = [pc EXCEPT ![s] = "threw"]
    /\ UNCHANGED <<dbVars, locals, history>>

(* The process ends and starts again; committed statements stay. *)
Crash ==
    /\ pc' = [s \in Shards |-> "idle"]
    /\ UNCHANGED <<dbVars, locals, history>>

-----------------------------------------------------------------------------
Proceed(s) ==
    \/ Open(s) \/ CreateTable(s) \/ FindRecord(s) \/ DeleteRecord(s) \/ Insert(s)
    \/ ExportData(s) \/ Reply(s) \/ NoSuchTable(s) \/ LanguageFileMissing(s)

Next ==
    \/ \E s \in Shards : Proceed(s) \/ StatementFails(s)
    \/ \E s \in Shards, u \in Users, option \in Choices : EnterLanguage(s, u, option)
    \/ \E s \in Shards, u \in Users : EnterPing(s, u)
    \/ Crash

Spec == Init /\ [][Next]_vars

-----------------------------------------------------------------------------
(* Properties *)

(* The delete-then-insert of /language keeps one row per user as long as    *)
(* the calls of that user do not overlap, whatever fails between the two    *)
(* statements, and one call that ran alone repairs what a race left.        *)
AtMostOneRow == \A u \in Users \ raced : Len(rows[u]) <= 1

(* Racing calls cannot pile up rows without end: every insert follows a     *)
(* moment at which its user had no row, so a user never has more rows than  *)
(* there are threads.                                                       *)
RowsPerUserBounded == \A u \in Users : Len(rows[u]) <= Cardinality(Shards)

(* When a /language that ran alone has no statement left, the user has the  *)
(* row of the chosen language and no other (none for English), also when    *)
(* earlier calls raced or failed half-way.                                  *)
SoloTakesEffect ==
    \A s \in Shards :
        pc[s] = "file" /\ IsLanguage(s) /\ solo[s] =>
            LET code == LanguageOf(call[s].option)
            IN  rows[call[s].user] = (IF code = "en-us" THEN <<>> ELSE <<code>>)

(* A /ping that no /language of its user overlapped speaks the language in  *)
(* force, also while the user has several rows; between findRecord and      *)
(* exportData the row can vanish only in an overlap.                        *)
SoloPingReportsPreference ==
    \A s \in Shards :
        pc[s] = "file" /\ IsPing(s) /\ solo[s] =>
            change_language[s] = Preference(call[s].user)

-----------------------------------------------------------------------------
(* Refinement: what the statements make of PreferenceService.  A call takes *)
(* effect (for a set) or reads (for a get) when it reaches "file"; a /ping   *)
(* whose row vanished under it reads nothing and can only fail.             *)

JobOf(c) ==
    CASE c.cmd = "language" -> [kind |-> "set", user |-> c.user, language |-> LanguageOf(c.option)]
      [] c.cmd = "ping"     -> [kind |-> "get", user |-> c.user]
      [] OTHER              -> [kind |-> "none"]

PhaseOf(s) ==
    CASE pc[s] \in Statements -> "open"
      [] pc[s] = "file"       -> IF change_language[s] = "" THEN "open" ELSE "applied"
      [] pc[s] = "replied"    -> "done"
      [] pc[s] = "threw"      -> "failed"
      [] OTHER                -> "idle"

ShownBy(s) == IF IsPing(s) /\ change_language[s] # "" THEN change_language[s] ELSE "en-us"

Service == INSTANCE PreferenceService WITH
    DefaultLanguage <- "en-us",
    pref  <- [u \in Users |-> Preference(u)],
    job   <- [s \in Shards |-> JobOf(call[s])],
    phase <- [s \in Shards |-> PhaseOf(s)],
    shown <- [s \in Shards |-> ShownBy(s)]

(* Statement by statement, the two handlers implement PreferenceService:    *)
(* every answered /language was in force for its user at one instant of the *)
(* call, every answered /ping speaks a language that was, and no call       *)
(* touches another user's language.                                         *)
ImplementsService == Service!Spec
=============================================================================
