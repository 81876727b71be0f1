# AniLab Discord bot: TLA+ verification

This directory holds TLA+ models of the AniLab bot, TLC configurations that
check them on small instances, and TLAPS proofs about them. Paths are relative
to the repository, which is mounted as `src/`; the bot's own code is therefore
in `src/src` and `src/cores`.

## 1. The system

The bot is a small C++ program for Windows on top of the D++ library. `main`
(`src/src/main.cpp`) reads an encoded token, creates a `dpp::cluster` and
attaches three handlers. D++ runs one thread per *shard* and calls handlers on
the thread of the shard that received the event, so handlers of different
shards run at the same time, while those of one shard run one after another.
Everything the handlers share is either a process-wide variable, an SQLite
file, the embedded Python interpreter, or state at Discord.

| Component | Code | State | Operations |
|---|---|---|---|
| Language preferences | `src/src/cmd_common/language.cpp`, `ping.cpp`, `src/cores/db_handler.h` | table `configuration(id, language)` in `./database/language.db`, one connection per call | `/language` (create table, find, delete, insert, answer), `/ping` (find, export, answer) |
| Button sessions | `src/cores/cmd_button.h` | `cached_sessions`, `cached_sessions_mutex`, `custom_id_counter`; the components sent to Discord | `button_bind`, `clear`, `button_builder` |
| Command registration and dispatch | `src/src/main.cpp`, `src/cores/cmd_configure.h`, `cmd_layout.h`, `src/include/dpp/once.h` | `run_once`'s static flag, requests in flight, the commands Discord offers | `on_ready`, `slashcommand_create`, `on_slashcommand` |
| miHoYo login | `src/src/cmd_mihoyo/login.cpp` | the embedded interpreter and the objects it refers to | `/login` |
| Token decoder | `src/cores/client_decoder.h` | none | `Decode` |
| Dotenv | `src/cores/client_dotenv.h` | the map of variables | `load`, `get`, `has`, `parseLine`, `expandVariables` |
| Start-up | `src/src/main.cpp` | the token, the cluster | `main` |
| D++ event router | `src/include/dpp/event_router.h` | `dispatch_container`, `next_handle`, a shared mutex | `call`, `attach`, `detach` |
| D++ collectors | `collector.h`, `timed_listener.h` | `stored`, `triggered`, a timer, a listener | the lambda, the tick, `cancel`, the destructor |
| D++ object cache | `cache.h` | the map of ids, `deletion_queue` | `store`, `remove`, `find`, `garbage_collection` |
| spdlog, asynchronous loggers | `src/include/spdlog/details/mpmc_blocking_q.h`, `circular_q.h`, `thread_pool-inl.h`, `async_logger-inl.h` | a bounded queue, worker threads | posting, the workers' loop, the pool's destruction |
| spdlog, file sinks | `sinks/rotating_file_sink-inl.h`, `daily_file_sink.h`, `hourly_file_sink.h` | files on disk, the queue of their names | writing, rotation, retention |
| JSON | `src/include/dpp/nlohmann/json.hpp` | the input's position, the stacks of the parser, a string buffer | lexer, parser, writer, pointers, patches, CBOR, MessagePack |
| genshin.py | `src/include/genshin` | the cookies' dictionary, pages and heap, uids and their cache | requests with rotating cookies, paginators, `_get_uid` |
| The other headers | `src/include/dpp`, `sqlite3`, `spdlog`, `python` | | declarations |

The libraries are part of the repository as headers and Python files, and the
bot stands on them: each event of a shard passes through the JSON parser, the
object cache and the event router before a handler sees it, and `/login` loads
genshin.py. Where a function is declared here but compiled elsewhere
(`stop_timer`, `garbage_collection`), the model uses what the header says of
it and the map marks it external.

How they interact: `on_ready` registers the command table with Discord;
`on_slashcommand` looks a command up in the same table and calls its handler;
`on_button_click` calls `button_builder`. An exception that leaves a handler
makes D++ reconnect the shard (`src/include/dpp/sslclient.h:221`), which may
bring another `READY` and so another `on_ready`. No command of this commit
binds a button; `button_bind` is there for commands to come, and its callbacks
are the environment of the model.

What is hard:

* **Interleaving.** A user can call `/language` and `/ping` in several guilds,
  served by several shards, at once; each SQL statement is a transaction of
  its own. `button_bind` takes the same mutex twice. `std::exchange` on a
  plain static variable is two steps.
* **Partial failure.** A statement may be refused (`SQLITE_BUSY`: no busy
  timeout is set) between the DELETE and the INSERT; a callback may throw with
  the mutex held; the registration request may fail after the flag is set.
* **Crashes and restarts.** Rows survive, sessions do not; components sent
  before a restart can still be clicked after it; Discord keeps the commands
  of an earlier release.
* **Time and numbers.** Sessions expire while threads wait; the id counter
  wraps; `long` and `unsigned long` have 32 bits on Windows.

* **The libraries' own threads and stacks.** Listeners are detached while
  another thread runs them; a timer, `cancel()` and a destructor race to
  complete a collector; objects are freed while a pointer to them is in use; a
  queue is full while the pool that empties it is destroyed; files are written,
  flushed, renamed one by one and opened, and each of these may fail; a loop with explicit stacks stands for
  the recursion of a grammar; tasks of one event loop change a dictionary that
  all of them copied.

What makes each component correct: a user has one language, the one last
chosen; a click runs the callback bound to that very button or nothing;
sessions end by expiry, by request or with the process only; the mutex is
always given back; the commands are registered once and Discord's list comes
to agree with the table; a call of `/login` gives back what it took, and the
process survives it; the bot starts with the token of the file. Of the
libraries: a detached listener never runs, a collector completes at most once, a
pointer in use is not freed, a message is written or counted as lost, the last
files are kept, what is written is read back, and every cookie is tried before
a request gives up. `PROJECT.json` lists every hazard at its line with
the properties that cover it.

## 2. The modules

### `LanguagePreferences`, and the service it implements, `PreferenceService`

One action is one call of `DatabaseHandler` (`Open`, `CreateTable`,
`FindRecord`, `DeleteRecord`, `Insert`, `ExportData`), followed by `Reply`.
`pc[s]` names the call that shard `s` makes next, `call[s]` the interaction it
serves, `change_language[s]` the local variable of that name. `check_user`
does not appear: `FindRecord` moves to the branch it selects. `rows[u]` is the
sequence of the rows of user `u` in rowid order, the order in which a `SELECT`
without an index returns them. A statement may be refused at any time
(`StatementFails`), `/ping` fails while the table does not exist
(`NoSuchTable`), a language file may be missing or be named after an empty
string (`LanguageFileMissing`), and the process may end (`Crash`). None of
these undoes an earlier statement.

`solo` and `raced` are history variables: whether a call overlapped a
`/language` of its user, and the users whose rows an overlap may have spoilt.

`PreferenceService` has no rows, no table and no statements: it says that a
set takes effect, and a get reads, at one instant of the call. It allows for
the weakness of delete-then-insert in one action, `Forget`: before a set
applies its language, the user may have the default, and keeps it if the set
fails there. The refinement mapping is at the end of `LanguagePreferences`.

### `ButtonSessions`

`cached_sessions` is a function on the ids in the map, `holder` the owner of
the mutex, `now` the value of `time(nullptr)`. A thread's `pc` runs through
`clear`, `sweep`, `bind`, `draw` in `button_bind` and through `click`,
`lookup`, `running` in `button_builder`. `Sweep` is one turn of the loop of
`clear()`, in any order because the map is unordered; `Draw` is one turn of
the do-while. `components` are the buttons at Discord; they survive `Restart`
and can be clicked any number of times. Each carries the two halves of its
custom_id and, for the observer only, its callback and its birth. A callback
may return true (`Forget`), return false or throw (`Keep`), or call
`button_bind` (`Rebind`), which stops its thread with the mutex held.

Named abstractions: no second is long enough to draw every id (`drawn`), the
map never holds all ids (`HasRoom`; both are about 2^64 ids), and a restart
takes a second or more. Callbacks are distinct per call of `button_bind`. The
clock does not run backwards.

### `CommandRegistration`

`ReadFlag` and `WriteFlag` are the two halves of `std::exchange`. `Submit` is
the bulk request, `Accept` and `Refuse` Discord's answer; the default callback
only logs a refusal. `Disconnect` is the loss of a connection or an exception
in a handler, `Ready` the event that follows. `Restart` starts any release,
whose command table may differ from the one Discord holds.

### `Dotenv`, `TokenDecoder`, `StartUp`, `LoginCommand` and `Bot`

`Dotenv` goes through a file line by line; `Turn` is one turn of the loop of
`expandVariables`, which replaces text in the line it is scanning. A character
stands for itself where the code looks at it and for any other where not.
`TokenDecoder` works on what `kDecodingTable` makes of the characters: a
number of six bits, `Pad`, or `Bad` (64, which is wider than six bits and
carries into the neighbour). `StartUp` composes the two as `main` does: the
token of a string that `Decode` refused is the text of the message it returned.

`LoginCommand` follows the handler call by call. `held[s]` are the objects of
which shard `s` owns a reference, `todo[s]` the `Py_DECREF`s that the return
path it is on still makes, in its order. There is one interpreter in the
process (`up`), so the calls of two shards start and stop it under each other
(`raced`). `Bot` is the process: start-up first, then, once the cluster runs,
the calls its shards make; calls are explored after the files `LoginFiles`.

### `EventRouter` and `Collector`

`todo[t]` are the listeners that the call on thread `t` has still to come to;
a listener may attach or detach, and its thread then waits for a lock that it
shares itself. `Collector` extends the router: handle 1 is the collector's
lambda, `Accept` and `Push` are the two halves of `stored.push_back`, `Begin`
to `Stop` the way of a tick, of `cancel()` or of the destructor through
`ev.detach` and `stop_timer`. `WaySets` says which of these may happen. The
listener is attached and the timer started by the constructor of the base class:
until the derived class's constructor begins (`Construct`), and again from the
moment the base destructor runs, `filter()` and `completed()` are pure virtual,
and an event or a tick that comes then ends the process (`CallsPure`, `Stop`).

### `ObjectCache`

`Store` and `Remove` are one critical section each; `Find` gives a pointer that
its thread uses for at most `Hold`. `Changers[id]` are the threads that store
and remove objects of `id`: one for the objects of a guild, whose events come on
one shard, several for a user, whom every shard with a guild of theirs describes.
`store()` is given new objects; only a sole changer (`Sole`) may store again what
it has found.

### `AsyncLogging`, `CircularQueue`, `BoundedQueue`, `RotatingFile`, `CalendarFiles`

A queue operation of `AsyncLogging` is one critical section of `queue_mutex_`
and the notification after it a step of its own. The pool is destroyed by
whichever thread lets go of it last. `CircularQueue` is the ring with its head,
tail and blank cell, `BoundedQueue` the sequence that drops its oldest item
when it is full, and `AsyncLogging` uses the latter.

In `RotatingFile` a file is the sequence of its pieces: a whole message, or what
a failure left of one. `on_disk` says how many of them `fwrite` no longer holds in
its buffer. A write fails when the buffer cannot be written out, or after a part
of its message, whose bytes `current_size_` does not count; a flush or reading
the size throws before anything is rotated; a rename fails, with or without its
target and its file opened again; all renames succeed and the open fails
(`WriteOut`, `FlushThrows`, `Reopened`, `NotReopened`). The process is stopped or
killed with its buffer, and starts again, also when a constructor throws. A
message that finds no open file is given to `fwrite` with a null pointer, which
ends the process (`alive`).

In `CalendarFiles` a file is the period it is named by. A message comes up to
`Delays` late, the sink rotates at tick `Offset` of a day (`rotation_hour`), and
the open of `Rotate`, its write, the removal of an old file and that of an empty
first one may fail, with the state that the order of the statements leaves: a
failed open leaves `rotation_tp_` as it was, a failed first write a file that is
not counted. The constructor reads the clock several times, which the model does
once. `truncate_` is off, as it is by default.

### `JsonLexer`, `JsonParser`, `JsonStrings`, `JsonPointer`, `JsonPatch`, `JsonBinary`

The lexer reads a character ahead and gives it back by a flag. The parser works
on tokens, with the two handlers that build a value; the second asks a callback,
whose answer the token carries. Strings pass through the decoder of
`dump_escaped` and its buffer and back through `scan_string`. Documents are
records, pointers sequences of reference tokens. A number of 64 bits is the
sequence of its bytes, and a content of any length one item, so that every
boundary of the binary headers is reached, with the count that stands for an
unknown length (`Endless`: 2^64 - 1 is read as if the length were indefinite) and
those above `max_size()` (`Excessive`, out_of_range.408; taken as 2^59 - 1, of a
`size_t` of 64 bits). A number whose magnitude no double holds is a token of its
own (`"huge"`), which is in the grammar and refused (406).

`AddTo` leaves a document as it is below a primitive: the `JSON_ASSERT` there does
nothing in a release build (CMake's Release defines `NDEBUG`). A build without it,
as the one of `premake5.lua`, ends the process; that is the action `Abort`. Both
builds are in the same behaviours. The reference definitions and the inputs are in
`MCJsonLexer` (the grammar), `MCJsonParser` (the meaning of a text),
`MCJsonBinary`, and beside the code they are about in `JsonStrings` (well-formed
UTF-8) and `JsonPatch`.

### `CookieRotation`, `Paginators`, `UidLookup`

The tasks of one event loop: a task runs from one `await` to the next in one
step. `CookieRotation` has the dictionary of cookies and their uses, which each
request copies when it begins; `Paginators` the pages of several lists that may
grow between two requests, merged by a heap (a list has its oldest item first, so
that what arrives is appended and a page is the end of what is older than the
cursor); `UidLookup` the lock, the uids and the cache in which accounts share room
with other answers. `Static` is the cache of a client to which none was given,
whose `set()` does nothing for what is not static; `Multi` a manager of several
accounts, with which `_get_uid` raises before it asks.

### MC modules

`MCLanguagePreferences`, `MCButtonSessions`, `MCCommandRegistration`,
`MCObjectCache` and `MCBot` give the sets for TLC: the symmetry of shards,
threads and callbacks (safety runs only), two command tables of which neither
contains the other, the lines of `.env` files. `MCCollector`, `MCLogging`,
`MCJson` and `MCGenshin` are *suites*: a behaviour of a suite chooses one of
its parts at the beginning (`part`, or the empty set of ways) and leaves the
variables of the others as they begin. The parts share no variable in the code
either, so the states of a suite are those of its parts side by side, and a
property of a part holds in the suite exactly when it holds of the part alone.
Where a part has several settings (`OneWorker` and `TwoWorkers`, `TwoTasks` and
`OneTask`, the kinds of paginators and of caches, the hourly sink and the daily one
that rotates at midnight or later) the suite instantiates its module with the
setting as a parameter, so that one lemma speaks of all of them.

### Proof modules

A `...Proofs` module extends the module it is about: `LanguagePreferencesProofs`,
`ButtonSessionsProofs`, `CommandRegistrationProofs`, `ObjectCacheProofs`,
`BotProofs` (start-up, Dotenv, the decoder and `/login`), `CollectorProofs` (the
router and the collector), `LoggingProofs` (the parts of spdlog) and
`GenshinProofs` (the cookies, the uids and the paginators).

## 3. The runs

| Run | Instance | What it shows |
|---|---|---|
| `language_races` | 3 shards, 1 user, 3 choices | `TypeOK`, `AtMostOneRow`, `RowsPerUserBounded`, `SoloTakesEffect`, `SoloPingReportsPreference` |
| `language_service` | 2 shards, 2 users, 2 choices | `ImplementsService` (refinement) |
| `button_safety` | 2 threads, 3 ids, 4 callbacks, clock 0..2 | `TypeOK`, `ClickRunsBoundFunction`, `NoRunAfterForget`, `SweepComplete`, `SessionKept`, `UsableButtonRuns` |
| `button_mutex` | 2 threads, 2 ids, 3 callbacks, callbacks may bind | `MutexFreed` (liveness) |
| `registration` | 2 shards, 2 releases, 2 lives | `OncePerShard`, `IgnoredOnlyBeforeAcceptance`, `EventuallyRegistered` (liveness) |
| `registration_once` | 2 shards | violation of `RegisteredOnce`, see below |
| `bot` | files of up to 3 lines of 9, lines of up to 3 characters behind each prefix, groups of Base64; 2 shards | `RunsWithLastToken`, `TokenDecoded`, `CrashExplained`, `ReferencesAccounted`, `DownBetweenCalls` |
| `events` | 3 threads, 2 handles, 2 events | `ListenersAttached`, `CompletedOnce`, `InOrderUntilCancelled` (action), `CompletedAtLast` (liveness) |
| `object_cache` | 2 threads, an id that both change with 3 objects, one that one changes with 2, clock 0..3 | `LifetimeManaged` |
| `logging` | ring of 3; 2 clients, 1 or 2 workers; 3 files, 5 messages, 2 failures; clock 1..9, 2 failures, 2 restarts | `MessagesAccounted`, `RotationKeeps`, `CalendarRetains`, `ImplementsBoundedQueue` (refinement), `PoolRuns` (liveness) |
| `json` | the nine parts of the suite, below | `TextsRead`, `DocumentsEdited`, `RoundTrips` |
| `genshin` | 2 tasks, 2 accounts; 2 lists of 4 items and more; 2 games | `AllWereTried`, `EachOnce`, `UidsCurrent`, `AllEnd` (liveness) |

Why the bounds are enough. Three shards let two calls race while a third runs
alone or races with either; one user suffices because no statement of one user
reads another's rows, and `language_service` has two users so that a statement
that touched another user's rows would be seen. Three ids and four callbacks
make the counter wrap past ids that are in use; a `LongMax` of 1 and a
`ULongMax` of 2 make stamps turn negative and ids too wide within the run; the
durations 0 and 2 make sessions expire before and after the clock stops. The
clock may pass `MaxNow` when the next id was drawn in this second, so that the
bound never blocks a bind. Two shards race for the flag, and either can
reconnect afterwards.

`bot`: three lines are enough for a value to be defined, used by a reference
and assigned again. Two shards are enough for one to stop the interpreter that
the other uses. `events`: with three threads one calls while another detaches
and a third waits; the collector's three ends race in pairs and all together.
An event or the tick may find a collector whose derived class is not constructed.
`object_cache`: three objects of one id are the old, the new and the next, with
two threads that replace and remove them under each other; the clock of 3 passes
the period of 1 after an object was queued and found.
`logging`: a queue of one or two is full at once and overrun by the second
client; three files let a rename fail with one shifted and one not; the sizes
1, 2 and 4 are below, at the half of and above the limit of 3; two failures let a
second one meet what the first has left, as a failed reopen after a failed write.
For the calendar sinks a day has two ticks, messages come one tick late or not,
the daily sink rotates at midnight and at noon, and eight ticks are four days,
which is two more than `max_files_`. `json`: texts of
up to six characters hold every shape of a number, a byte order mark and a
comment; ten tokens hold two containers, one in the other; strings of four
bytes hold every length of a UTF-8 sequence, whole and broken, beside another
character, and a buffer of 16 is crossed at every offset; documents are two
containers deep; lengths and numbers sit on both sides of every boundary of the
binary headers. The number of tokens, and not the depth, decides what the
parser's stacks do, since each turn of its loop looks at the top only.
`genshin`: two uses, two tries and three requests make each cookie cool down,
come back and expire under another request; pages of two with up to seven items
end full, partly full and empty; a clock of 2 or 3 passes the life of an answer,
which is 1.

`CHECK_DEADLOCK FALSE` is set where the system stops: after `Rebind` the thread
waits for itself and every other for it (`button_mutex`); `main` ends without a
token (`bot`); threads that change the router inside a listener wait for
themselves, and a collection ends (`events`); the pool is destroyed, a text or a
list has ended, or the clock and the number of messages are at their bounds
(`object_cache`, `logging`, `json`, `genshin`).

Fairness. `LanguagePreferences` and `Bot` state none: their handlers and `main`
are straight-line and their ends need no property. `ButtonSessions`: weak fairness of the steps of the thread that
holds the mutex, which includes that callbacks return, and of the clock.
Nothing is assumed about who gets the mutex, as `std::shared_mutex` promises
nothing. `CommandRegistration`: weak fairness of the handler's steps and of
Discord's answer to each request. `Collector`: a
thread inside a call, a tick or `cancel()` runs on, and the timer ticks.
`AsyncLogging`: threads that are not waiting run, and `main` comes to call
`shutdown()`; the timeout of `dequeue_for` is not relied on, so that a lost
wakeup would show. `genshin`: the event loop resumes a task whose answer has
come, and the server answers; requests fail a bounded number of times.

**Finding.** `dpp::run_once` is documented to "Run some code within an if()
statement only once" (`src/include/dpp/once.h:28`). `registration_once` shows
two shards that become ready together both reading the flag before either
writes it, so that both send the table. `OncePerShard` shows what does hold.

**Where a library's words go further than its code.** These came up while the
models were written and shape what the properties claim; each can be seen from
the actions named.

* Two threads of an event append to a collector's `stored` at once under the
  shared lock (`Accept`, `Push`); `cancel()` inside `filter()` waits for the
  lock its own thread shares (`BeginInside`); the destructor of the base class
  comes to a pure virtual function (`Stop`), although
  `src/include/dpp/collector.h:142` has the list delivered from there, and so does
  an event or a tick before the derived class is constructed (`CallsPure`): then
  `completed()` is not called at all, which is why `CompletedOnce` says at most
  once; a tick may still run the lambda of a `timed_listener` that `cancel()` has
  freed (`UseFreed`).
* `cache.h`: when two shards change one id, as they do with a user, `remove` erases
  whatever entry has the id and queues the pointer it was given, so that the entry
  of a newer object is lost and nothing frees it. Whoever changes an id, no
  pointer in use is freed, the map leads to nothing freed and nothing is freed
  twice; that nothing is lost (`Managed`) is for the ids of a sole changer.
* spdlog: `shutdown()` may return while another thread still destroys the pool.
  After a failure between the rename and the open, the next message that fits is
  given to `fwrite` with a null pointer, and one that does not throws for ever
  (`Log` of `RotatingFile`). Bytes of a write that failed are in the file and not
  in `current_size_`, so a file may be longer than `max_size_` by one part of a
  message per failure (`SizesBounded` counts them).
* The calendar sinks: with a rotation at another time than midnight a file can be
  opened and counted twice, and then one of the last files is deleted, with
  `max_files` of 1 the open one; a file whose first write failed is never counted
  nor deleted; the first file of the hourly sink that was removed because it was
  empty stays in the queue and counts; files before a gap are never deleted after
  a restart. A message that is handled in a later period than its own goes to the
  file of the later period, or, when the rotation is due, opens one named by its
  own, to which the messages behind it go as well. `LastRetained`, `OnlyTheLast` and `OwnFile` name these conditions
  (`reopened`, `emptied`, `faults`, `restarts`, `late`).
* `json.hpp`: the comment at `src/include/dpp/nlohmann/json.hpp:21480` has it that
  a parent that exists is no primitive, and the default branch asserts so
  (`:21489`). It can be one: in a release build the patch then reports success and
  leaves the document as it is, where a move loses the value it took. A pointer
  token of one character is converted without a test; the magnitude of a CBOR
  negative number beyond 64 bits wraps; members that a callback discarded can stay
  as null.
* genshin.py: `cache or StaticCache()` (`src/include/genshin/client/components/base.py:60`)
  replaces a `Cache` that is given and still empty, too (`Static`), and with the
  default the accounts are fetched whenever a uid is missing; a request that was sent before its cookie was deleted puts it back
  into the dictionary when it succeeds; `wish_history` merges lists that are
  newest first by the least time (`SourcesInOrder` is what holds, and
  `NewestFirst` for a key that has the sources' order); items taken from the
  other sources are lost when the first request of one fails; an empty list
  with a guessed page size raises `IndexError` for ever;
  a list that is read by page number and grows meanwhile gives items twice.

## 4. What is proved

`LanguagePreferencesProofs`, for all sets of shards, users and choices. The
assumptions used are those of the module: the set of shards is finite.

* `TypeCorrect`: `TypeOK` is inductive.
* `OneRow`, `SoloLanguage`, `SoloPing`: none of the three properties is
  inductive, since whether a DELETE or an INSERT harms a user depends on who
  else is running. `Overlaps` states what the history variables mean
  (`OneUnlessRaced`: a user who is not raced has at most one `/language`
  running; `SoloIsAlone`: a solo call has no rival); it is inductive with
  `TypeOK`. `RowsInv` adds the shape of the rows at each place in the code
  (`InsertsFirstRow`, `InsertsChoice`, `PingExportsRow`). The proof of
  `RowsNext` has a lemma for each action that touches rows or locals.
* `RowsBounded`: the bound is not inductive either. The invariant is a budget:
  the rows of a user plus the shards about to insert one never exceed the
  number of shards, because a shard comes to the insert only when the user has
  no row. An insert trades one for the other.
* `ImplementsPreferences`, the refinement: every step of the handlers is, under
  the mapping, a step of `PreferenceService` or a stutter. It needs one fact beyond
  types and steps, `DefaultUntilAssigned`: the local `change_language` is the
  default until the call's last statement assigns it, so that what the call
  shows is what the service showed.

`ButtonSessionsProofs`, for all sets of threads and callbacks, all widths of the
counter, of the numbers that parse and of `long int`, and all durations. The
assumptions used are that these are natural numbers (the counter's maximum not
0) and that `None` is no thread.

* `TypeCorrect`: `TypeOK` is inductive.
* `ClicksRunTheirCallback`, `ForgottenForGood`, `ClearIsComplete`,
  `SessionsAreKept`, `UsableButtonsAnswer` follow from one inductive invariant,
  `IInv`, whose parts are needed for different reasons. `Mutex`: the one thread
  in a critical section is the holder, so that a session cannot go while its
  callback runs or while `clear()` iterates. `Births` and `OfYoungest`: a
  session belongs to the youngest component of its id. A click compares
  `created_at` with the stamp, and the conversion to `long int` never gives
  more than it was given (`LongAtMost`), so a stamp that fits belongs to a
  component at least as young as the session, hence to the session's own
  (`FoundIsOwn`): the wrapped counter, a restart that draws old ids again and a
  stamp that turned negative are all covered. `BoundOnce` and `NoneForgotten`:
  no other session carries a forgotten callback. `Sweeping`: what the loop has
  passed. `LongExact` and `UsableIsFound` give the converse for a time that
  fits. The proof of `IInvNext` has one lemma per part; `Writers` names the
  steps that change sessions at all.

Every theorem about `ButtonSessions` depends on its two named abstractions,
`NextId \notin drawn` and the freshness of callbacks, which are guards of the
model.

`CommandRegistrationProofs`, for all sets of shards, all tables and any bound on
the number of starts. `EachShardOnce`: a shard that is still to register has not
(`RegistersFirst`), and one that has registered has set the flag (`FlagIsSet`),
which only a restart resets. `NothingIgnoredAfterAcceptance` needs `OffersOwn`:
after the first acceptance of a life Discord holds this process's table.

`CollectorProofs`, for all sets of threads and any number of handles. Of the
router, `OnlyAttachedRun`, `CallsInOrder` and `HandlesAreFresh` follow from an
invariant (`Inductive`) that says what the shared lock is for: the readers are
the threads inside `call()` (`ReadersCall`), what they run and will come to is in
the map (`CurrentInMap`), nothing detached is (`DetachedGone`), and what they will
come to is ahead of what they run (`Ahead`). The collector's steps are steps of
the router, so it keeps that invariant, and `CollectorInductive` adds to it
`GoneFromMap` (once a thread is behind its `detach`, or the timer or the timed
listener is gone, the lambda is out of the map) and `OneResult` (`completed()` is
not called while the timer is there, and at most once). `CompletesOnce` follows, and
`CollectorListens`: `ListenersAttached` also while a listener detaches itself.
The invariant needs nothing of when the object is constructed or destroyed: a
call of a pure virtual function ends the process in any case.

`ObjectCacheProofs`, for all threads, ids, objects and periods and any choice of
the threads that change an id, under the assumption that a pointer is held no
longer than the period. `PointersStayAlive`, `MapStaysAlive`, `NoneFreedTwice` and
`NothingLost`, together `LifetimesKept`, follow from an inductive invariant
(`Inductive`): a pointer in use was found before its object was queued, at most
`Hold` ago (`InUse`, `StoredFirst`); what the map leads to is neither queued nor
freed, since an object that has left the map does not come back where several
threads change its id; the pointer of a sole changer is the one in the map
(`ChangerUpToDate`), which is what `NothingLost` needs and the others do not.

`BotProofs`, for all sets of shards, all environment files, all alphabets and
any key. Assumed is that a line is a sequence of characters and that a character
decodes to six bits.

* `LoginInductive`: what a call owns and has still to give back is
  determined by its step (`HeldByStep`, `HeldInRelease`), and a call that no
  other overlaps has the interpreter to itself (`Alone`); `CrashIsExplained`,
  `ReferencesAreAccounted` and `InterpreterDownBetweenCalls` follow.
* `TokenIsDecoded`: the decoder's invariant (`Decoded`) is that the groups before
  `i` have given their bytes and `j` is behind them; with the arithmetic of the
  four shifts it gives the inverse of Base64 and that a group spoils only itself.
* `RunsWithTheLastToken`: the invariant of the loop that edits the line it
  scans is `Along`: the loop has come to a character of the original line, from
  `pos` on the line still is what was read, and what stands before `pos`, with
  the meaning of the rest, is the meaning of the whole. `Env!Expansion`, that
  meaning, is a recursive function from the line's end; that it has a value at
  every character is shown by induction (`Expander`). `LinesAssigned` says that
  the variables are what the lines read so far assign.
  `Stages` ties `main` to the two, and `StartUpInductive` is all of it together.

`LoggingProofs`, for the parts of spdlog.

* The ring, for every capacity: `Refines` shows that it implements
  `BoundedQueue`, step by step from the arithmetic of its indices;
  `SizesAlwaysAgree` that `full`, `empty` and `size` agree.
* The pool. `PoolIsAccounted` and `OneWorkerWritesInOrder` are about any setting
  `s`: any clients, any finite set of workers, any policies and length of the
  queue; the second one about a single worker. The invariant counts:
  messages that were posted are in the queue, with a worker, handled or overrun
  (`PostsCounted`), and terminate messages, which nothing overruns since they come
  behind all others (`EndsLast`), are about to be posted, in the queue, with a
  worker or obeyed (`EndsCounted`). The order is that of `file`, then what is
  held, then the queue (`InOrder`). `MessagesAlwaysAccounted` puts the settings of the run together.
* The rotating files, for all sizes of files and messages, any number of files
  and of failures. `RotatingInv` says that the whole messages of each file fit, that
  it has no more parts of others than there were failures, and that the pieces are
  in order, oldest last (`Good`); that the whole messages of an open file come to
  no more than `current_size_`, which failures leave behind the file's real
  size, but never behind these; and that while nothing failed the kept messages are
  the last ones (`Closed`). The renames of one rotation are a loop; `Source` says
  which file each place has got when the loop stopped at a failure.
* The calendar files, for every period, time of rotation, delay of messages,
  number of failures and restarts, and every `max_files_` but 0, which means no
  limit. `CalendarInv` relates the queue of names (ascending unless a file was
  opened twice), the files there are and those that were made: a file that is
  gone held nothing or has at least `max_files_` later ones (`CalendarDisk`).
  `MadeEarlier` gives that a sink that rotates at midnight opens no file twice: what
  it made is over when the rotation is due. In one life without failures the
  files are those in the queue (`OneLife`), and `Punctual` says which file is
  open as long as no message was late.

`GenshinProofs`, for any number of uses and tries, life of an answer and duration
of a request, size of a page, limit, and number of arrivals and failures. The
lemmas are about any setting (accounts, tasks, games, size of the cache, number
and length of the lists, kind and order of the paginators); the theorems state
them for the settings of the run.

* The cookies. In `RotationInv`, whatever other requests write back meanwhile, an
  account is refused for good, or refused to this request, or still among what it
  copied and has not tried (`Trying`); and one that is not in the dictionary is
  refused for good (`NoneLost`). With one task, also the uses in the dictionary
  and in what the request copied are those counted (`UsesInv`).
  `EveryCookieWasTried` follows.
* The uids. `LockInv`: the tasks that wait or ask are in the lock's queue, each
  once, and only the first one asks, through failures and cancellations. What is
  in the cache, on its way to a task or was told to it dates from its request
  (`ItemRecent`, `TaskRecent`). With the cache to itself (`OwnInv`), an answer is
  there until it times out, so that a task that asks does so after that, and no
  other stores an answer before it. With the default cache nothing is stored, and
  with several accounts nothing is asked for; the same lemmas speak of these.
  `UidsAreCurrent` follows.
* The paginators. `PagesInv`: what a source has given is a window of its list
  (`Window`), from the newest item when it was first asked back to the one that
  comes next, however many arrive behind; the items of the buffer are those below
  the window, and the cursor, page number or token is where the buffer ends. Of
  the window, the caller got everything but the item that the heap, or before it
  `gather()`, holds (`Given`). The counter of a limited source is what it gave and
  the requests that failed (`Counts`), so that it gives at most its limit, and
  exactly its newest items when none failed and none arrived. `AnextIs` shows one
  `__anext__` to move the window by one item or not at all; each step of the
  merge follows. `ItemsEachOnce` follows.
  `PagesSetting` says what this rests on: ids ascend and each is in one list; a
  source that guesses its page size does not meet an empty list by cursor; what is
  read by page number does not grow; that all is given also needs that no first
  request of a merge fails (`Lossless`). Beyond each of these the code really
  loses or repeats items, or raises an `IndexError` (section 3).

Only model-checked:

* liveness: `MutexFreed`, `EventuallyRegistered`, `CompletedAtLast`, `PoolRuns`,
  `AllEnd`;
* `TextsRead`, `DocumentsEdited` and `RoundTrips`: the grammar, the meaning of a
  text and the writers are RECURSIVE operators, which the prover does not
  support, in modules that only TLC uses.

Induction over data is proved where the data are as long as a number says and
the definition is a recursive function (lines of a file, characters of a line,
sizes of messages, items of a cache): the least element of a set of natural
numbers stands for the induction principle, which cannot be instantiated here.

## 5. Plan

What is left is proof: of `json`, the pieces that are machines, not grammars: the
buffer of `JsonStrings` and the flag of `JsonLexer`.

## 6. Not modelled

* Of the bot: embeds, wording, colours and logging; `PRAGMA synchronous=OFF`
  under a crash of the operating system; the presence.
* Of D++: the remaining headers declare functions that are compiled elsewhere,
  or are generated wrappers around them (`cluster_sync_calls.h`,
  `cluster_coro_calls.h`), and have no control of their own.
* `sqlite3.h` and the Python headers are declarations.
* Of spdlog: formatting (`fmt`, `pattern_formatter`), which is text and the
  digits of floating-point numbers, the registry, and the other sinks.
* Of `json.hpp`: BSON and UBJSON, the digits of floating-point numbers, and the
  conversions between C++ types, which are templates without state.
* Of genshin.py: the models of the answers and the endpoints, which are
  declarations, and the geetest server.

These are most of the repository's lines, and they hold no behaviour that a
state machine could describe; the map therefore covers a small share of the
lines, though every component of the bot itself is modelled.
