# Verification project of the user experience daemon

The daemon (`src/src`) collects information about the hardware, the desktop
and the logins, stores it in a sqlite database, and posts it to a web service
while the user takes part in the experience plan and the network is up. It is
built from small objects that run in threads of their own and meet in queues,
in a chain of gates, in one database connection and in a few unprotected
variables. The modules here model those objects, the TLC configurations check
them on small instances, and the `...Proofs` modules prove the main results for
every value of the constants.

## 1. Inventory

| component | state | operations | interacts with |
|---|---|---|---|
| message queue `Queue` (writer.h:110, writer.cc:259) | `queue_`, `mutex_`, condition variable `empty_` | `push`, `pop`, `clear` | collectors push, a writer pops |
| response chain `RespChainInterface` (define.h:232, define.cc:7) | per element `blocked_`, `mutex_`, `nonblock_cond_`, `next_` | `block`, `set_block`, `set_next_chain` | a writer asks, the plan, the network and the web writer set |
| network gate `NetworkRespChain` (resp_chain.cc:37) | its element of the chain | `init`, the `PropertiesChanged` handler | NetworkManager over D-Bus |
| experience plan `ExplanModule` (resp_chain.cc:82) | its element of the chain, an ini file, `experience_enable` | `enable`, `is_enabled`, `save_to_file`, `load_from_file`, `init` | D-Bus clients |
| web writer `ModuleWeb` (writer.cc:457) | `rule_`, its own element of the chain, the urls | `write`, `send`, `set_tid_block`, `release_tid_block` | the chain, a queue, the web service, the call-back of the message |
| database writer `DBModule` (writer.cc:301) over `DataBase` (writer.cc:36) | `db_`, `mutex_`, `table_`, the rows of the tables | `connect`, `disconnect`, `write`, `collect`, `read`, `handler` | one queue to pop, one to push, sqlite |
| url parameters `UrlValues` (writer.cc:424) | an ordered map | `add`, `del`, `encode` | `send` |
| hardware module `HardModule` (config.cc) with `FileUtils` (utils.cc:193) | `info_`, the hardware file, the global `unid` | `load_from_file`, `need_update`, `collect`, `handler`, `save_to_file` | a queue, `SystemInfo`, `DeviceUtils`, the file system |
| application collector `AppCollector` (data.cc) | `apps_` under `mutex_`, the connected signals | `collect`, `monitor_entry`, `add_entry`, `del_entry`, `pop_req` | the dock over D-Bus, a queue |
| `Application`, `Thread` (application.cc, thread.cc) | `threads_`, a pthread each | `start`, `init_*`, `stop`, `run`, join | owns all of the above; hosts are `main.cc` and `plugin.cc` |
| devices `SysModule` and its subclasses, `DeviceUtils` (utils.cc:323) | the slots of the device that is read | `parse`, `get_model`, `get_id`, `generate` | a device manager over D-Bus, `HardModule` |
| messages (define.proto, define.pb.*) | fields and unknown bytes | set, clear, serialize, size, parse, merge | files, the database, the web service |
| log (log.cc, log.h) | pattern and items, appenders with a mutex each | `LogFormater::init`, `Logger::log` | every thread |
| `SystemInfo`, `CryptorUtils`, `StringUtils`, `DBusUtils` (utils.cc) | cached strings, the global `unid` | look-ups, encodings, waiting for a service | everybody |

Where it is hard: the condition variables of the queue and the chain, whose
notifications wake one thread; the chain, which keeps every mutex while it
waits further down; a property read of the start that races with signals; the
gap between asking the gates and sending; a non-recursive mutex locked twice;
one step of several that fails unseen (statements, short writes, null
pointers); a file that a crash leaves empty or cut, read back word by word;
two threads that copy an id into each other's variable without a lock;
call-backs that outlive the locals they refer to; threads that are cancelled
and joined while they wait for something. The list with lines and the
properties that watch over each is `hazards` in `PROJECT.json`.

What makes each component correct: the queue loses, doubles and reorders
nothing and leaves no reader asleep on a message; `block()` returns only when
all gates are open together, and returns if they stay open; the network gate
follows the network; the web writer sends only while the gates are open; the
database holds what was written until it is posted, and its calls return;
the hardware module never makes an id up and keeps a saved one over restarts;
an application is monitored once its entry is added; the application is
destroyed only when its threads have ended; a message is read as it was
written; the log keeps events whole.

## 2. The modules

| module | models | state and actions |
|---|---|---|
| `Mailbox`, `Fifo` | what a queue promises to several readers, and to one | abstract |
| `Queue` | class `Queue` | `PushLock`, `PushAppend`, `PushNotify` are the lines of `push`; `PopLock` to `PopReturn` those of `pop`, the wait split into releasing the mutex and taking it again; `SpuriousWake` is what a condition variable may do |
| `RespChain` | a chain of N elements, any callers and setters | `BlockCall`, `BlockLock`, `BlockSleep`, `BlockNext`, `BlockLast`, `Unwind` are `block()` on the way down and back; `SetCall`, `SetLock`, `SetStore` are `set_block()` |
| `NetworkRespChain` | `NetworkRespChain::init` and its handler | the init thread, NetworkManager with its signals on the bus in order and its answer to the blocking read, and the handler, which some thread may run and none has to |
| `ModuleWeb` | `ModuleWeb::write`, up to `send` | extends `RespChain` with the writer as its only caller and composes it with `Queue` by `INSTANCE`; `stage` is the line of the loop, `own` the place of the writer's own element |
| `DataBase` | class `DataBase` and sqlite | one action per lock, statement start, statement end; `close` whenever it likes; a table is the number of its rows of each value |
| `DBModule` | class `DBModule`, any collectors and call-backs | composes `DataBase` by `INSTANCE`; `connect`, which may leave a closed connection or no table behind, the loop of `write`, `collect`, `handler` with any origin, `disconnect` |
| `UnidStore` | what the hardware module promises about ids over restarts | abstract: `Hear`, `Learn`, `Store`, `Stop`, `Start` |
| `HardModule` | class `HardModule` and `FileUtils` | the collector's steps `Generate` to `Post`, the writer's steps `Call` to `Write`; `Open` truncates, `WritePart` may be the last that reaches the disk; `Crash` anywhere, `Start` loads |
| `AppCollector` | class `AppCollector` and the dock | the thread of `collect`, the dock, and a thread that may run the handlers, with the signals on their way in order; `Monitor` and `ReadWindows` are the two halves of `monitor_entry`; `keeps` says whether the library keeps the connection of a signal object that is gone |
| `Application` | `Application`, `Thread`, both hosts, the plan over restarts | the main thread through the phases of `start`, `stop` and the destructor; each thread begins, waits, gets stuck, ends or is cancelled; `Export` puts the plan on the bus, where `Enable` may be called until its module is destroyed; `Interrupt`, `Die`, `Restart` |
| `Logger` | `Logger::log` over the appenders | lock, print piece by piece, unlock, next appender |
| `LogFormater` | the pattern parser | one action per turn of the loop, with the look ahead it does |
| `UrlValues` | class `UrlValues` | `add`, `del`; `encode()` as `EncodeFirst` and one `EncodeNext` per turn of its loop |
| `CryptorUtils` | `pkcs7_encode` | a pure function, about which there is a theorem and no run |
| `Messages` | the messages of `define.proto`, the generated code, and the word `load_from_file` reads of one | a type is the sequence of its fields; `ByteSizeLong` and `Serialize` take one value of a field per step, `HandOver` gives the reader the bytes, whole or cut, and of a file the word in them; `ReadInt`, `ReadText`, `Open`, `Skip` are the cases of the loop of `_InternalParse`, `Close` and `Done` its ends |
| `Text` | the log, the parser, a url, a message | composes them: they share nothing, `about` says which one a behaviour is of, and which message it looks at |
| `MC...` | the instances for TLC | |
| `...Proofs` | the theorems | |

An operator called `Fault...` is no part of a model. It is a definition as a
plausible bug would change it, and stands before the one it would replace;
each property was seen to fail with one of them.

Abstractions. A message is a model value or a pair (producer, number); an item
of a stored message is a name and its base64 text another, which may be a literal of
SQL, another expression or neither (`Literals`, `Expressions`); of the hardware
message the id and whether it lists devices are kept; time, wording and the
columns nobody reads are left out. The steps of a thread between two points
where another thread can notice it are one action. Mutexes and condition
variables are those of C++: no order among those who wait, one thread per
`notify_one`, spurious wake-ups. Numbers in messages have 31 bits and are not
negative; messages nest once, as those of `define.proto` do. The order in which
`ByteSizeLong` adds the sizes up is that of the field numbers. What a program does
not know of a message is skipped, and not kept as the library keeps it. Which
texts are UTF-8 is a constant (`Utf8`), and how many zeros the library leaves
behind a text that is cut is another (`Slop`).

Undefined behaviour. `close()` may run while a statement does (`ExecEnd` then
has its effect or not). The second lock of `read()` on the same `std::mutex` is
taken as what the pthread mutex of the build does, which is to wait for ever. A
read of a string that another thread is storing gives the old value, the new
one or a `Fragment`. A write through a null pointer ends the process. A copy of
a reference to a local that is gone ends the process or goes through; while
`apps_` is empty the path such a handler looks up is compared with nothing.
An uncaught exception in the thread of the bus ends the process or only the
handler, because that is for the library to say.

Nothing in the repository calls `Bus::run`: a handler of a signal or a method is
run only if a library that shares the process does so. So the handlers are
actions that may happen, one after the other and in the order of the signals,
and no property assumes that they do.

Text without quotes is an expression of SQL: a base64 text may be a number, name
a column, or be no expression at all. `where Data=Data` is true of
every row, so an origin of that kind may remove them all (`Left` in `DataBase`). `ReqResult::origin` is set nowhere, so it may be any text
that a writer puts there (`Origins`).

What the source never calls: nothing in the repository starts `write()` of
either writer (`Application::init_writer` only connects), `set_resp_chain`,
`disconnect`, `clear`, or the call-back `handler()` of the hardware module,
which a writer would call. They are modelled as the public operations they are,
because the classes are written for them; the wiring is modelled as the
application leaves it where a property depends on it.

## 3. The runs

| run | instance | shows |
|---|---|---|
| `queue` | 2 producers with 2 pushes each, 2 consumers or 1 | `WakeupCredit`: while a consumer sleeps each queued message has a notification or a looking consumer to come; `Conservation`: nothing lost or doubled; `ImplementsMailbox`, liveness included; `ImplementsFifo`: order kept for the one reader each queue is meant for. With two readers it does not hold: one may be overtaken between unlock and return |
| `chain` | 3 elements, 2 callers, 2 setters | `PassedStayOpen`, of which "only all resp chain is nonblock can return here" (define.cc:23) is an instance, `NoMissedWakeup`, `ReturnsWhenOpen` where one caller is alone, and `NotAllLeftAsleep`: of those who sleep at a gate that opens for good at least one goes on |
| `network` | 3 levels of connectivity, 3 announced changes | `NeverStuckClosed`, `OnceRightStaysRight`; `OpensAtStart`: a property read that says online opens the gate without any dispatcher, whichever of the two programs starts first |
| `network_race` | 2 levels, 2 changes | violation of `ClosedWhenOffline`: an old reply opens the gate of an offline machine |
| `web` | chains of 3 elements with and without the writer's own, as the rule and without one, 2 producers | `PopsOnlyAfterOpen`, `PopHoldsNoGate`; `ReachesSend`: open gates let a message through, and without a rule nothing holds it; `NeverPops`: the chain of the application, as a rule, would hold its own writer for ever |
| `web_ungated` | the wiring of the application | violation of `SendsOnlyWhenOpen`: data is sent while the plan is disabled |
| `db_shared` | writer, collector, call-back, disconnect; 3 items, 3 messages, 2 handed out; both kinds of url; an origin that is a text, a column or empty | `OnlyFirstItems`, `NothingStored`, `FrozenByRead`, `WriteEnds` |
| `db_read` | writer, collector, disconnect | violation of `ReadReturns`: `read()` waits for itself |
| `hard` | 2 ids, one with a white-space byte in its encoding; any number of crashes, restarts and calls | `SavedIsFound`, `AgreeUnlessRaced`, `PostsOnlyWithoutId`, and the refinement `ImplementsUnidStore` |
| `application` | both hosts, 2 processes, 2 calls of `Stop` in the first and 1 in the second, 2 signals that do not kill | `ReadsConnected`, `PlanIsForgotten`; `GoneInOrder`: destroyed only after its threads, and without `stop()` after two signals; `StuckStays`, `StoppedGoes` |
| `dock` | 3 entries, 2 of them known to dpkg, 3 signals on the way | `NothingKept`, `OnlyLateMonitored`; `LateIsAwaited`, `OpeningIsAwaited`: in whatever order it comes, each late entry and each opening is dealt with or still on its way |
| `text` | 2 threads with 2 events each; all patterns up to 4 of 6 characters; 4 calls on 3 keys and 2 values; messages of the 13 types into an empty message or one with its last field set, cut anywhere, read by a program that knows all or all but the last of its fields; ids of 0 to 14 and of 1152 bytes, and with a blank or a byte that is not UTF-8 | `EventsInOrder`; `InBounds`, `ItemsAreThePattern`; `EncodeRepeatsFirst`; `MessageIsRead`, `IdSurvives`. What a component promises in several properties is joined in `Text` |

Many properties state what the code does, not what one would wish:

* The rows of one message all hold its first item (`OnlyFirstItems`,
  writer.cc:371), and nothing is stored under the path the application connects
  with (`NothingStored`, writer.cc:314).
* The linked chain contains the writer it would gate (`NeverPops`,
  application.cc:80). `ModuleWeb` ends in `crashed` because `send()` dereferences
  the null pointer of `aes_encode` (writer.cc:512, utils.cc:159).
* Hardware that differs is not posted, though the log says so
  (`PostsOnlyWithoutId`, config.cc:147); a machine without an id ends its process
  at each start, because the message that asks for one is written through a null
  pointer (`Post`, config.cc:167).
* The first application that is seen open ends the process (`PopReq`,
  data.cc:147), so none is ever known or queued (`NothingKept`); the entries the
  dock has at the start are read and forgotten (`OnlyLateMonitored`, data.cc:55).
* A database that could be opened keeps the application from being destroyed
  (`StuckStays`); `main()` destroys its application without `stop()`
  (`GoneInOrder`); the plan does not survive a restart
  (`PlanIsForgotten`, resp_chain.cc:103).
* The first url parameter is sent twice (`EncodeRepeatsFirst`), a text that is not
  UTF-8 can be written and not read, and a cut file parses without
  an error exactly where it is cut between two values (both `MessageIsRead`); an id of
  9 to 13 or 32 bytes is lost by the word-wise load, as is any of which a byte
  of the text or of a longer length is white space (`IdSurvives`).

Also known, and not stated as a property of its own:

* `set_block()` of an element waits as long as a caller sleeps further down, the
  other side of `PassedStayOpen`. It wakes one thread (define.cc:14), so of several
  callers that sleep at one element the others may sleep on at an open gate; each
  writer of the repository has a chain of its own.
* `write()` asks its rule before `pop()`, which may wait for any time (writer.cc:466,
  468): with a rule, a message may be sent after a gate was closed. What the asking
  is worth is `PopsOnlyAfterOpen`.
* Nobody runs the bus of the network gate (resp_chain.cc:43), so a gate that the
  property read left closed stays closed when the network comes.
* `handler()` of the database deletes rows for exactly the result of which define.h:51
  ("write failed, dont need delete data") and writer.cc:411 ("only saved result dont
  need to delete") say that nothing need be deleted (writer.cc:412). That rows go on no
  other account is the theorem `DeletesOnlySaved`.
* `pkcs7_encode` gives `append` a position where it wants a count (utils.cc:141), so
  that, against utils.h:68 ("use pkcs7 to pad message"), no message comes back padded
  (theorem `PaddingIsLost`). Nothing in the repository calls it.

### Bounds

`MaxPush`, `MaxChanges`, `MaxMessages`, `MaxStops`, `MaxSignals`, `MaxProcesses`,
`MaxLog` and `MaxCalls` cap counters in the guards. Two producers with two pushes each
reach a queue longer than one with both consumers asleep, the case in which a
single notification could be too few. Three elements give a caller one it has
passed, one it sleeps at and one still to come; two callers and two setters
make every mutex contended. Three changes after the start are enough for a reply
to be older than a signal and for the flag to be wrong and right again. In the
database two messages give the writer a second turn after any failure, and an
item whose text is no literal makes statements fail over an open connection, as any
statement may anyway; an origin that names a column stands for those that are true
of every row, one that is no expression for those that fail.
`HardModule` has no bound: its states are finite. Two ids are one to hold and
one to be given, and `Fragment` stands for every text that is neither. Two
processes are one that a user switches the plan on in and one after it; two calls of
`Stop` (one less in each later process) let the second meet threads that have ended
since the first; two signals are one for each thread that waits for one, a third has
nobody to wake. Three signals on the way let an entry be added, removed and added before the
first is handled. Patterns of four characters hold a date with braces and the
character behind it. Four calls add a key twice and delete it or another; three
keys are the fewest of which the first, a middle and the last differ. The messages have each field at a default, a small and a
two-byte value, alone and beside the first and the last field, and every cut of
their bytes; 1152 is the shortest id whose length takes two bytes of which
one is a blank. The theorems remove the bounds from the safety properties they cover.

`CHECK_DEADLOCK FALSE` is set where the system may rest: all messages pushed
and read, no change announced any more, the process gone, the pattern parsed,
or every thread waiting behind `read()`.

### Fairness

* `Queue`: a push that has begun goes on, and every consumer calls `pop` again
  and again, because both writers do so in a `while (true)` loop. Weak fairness
  is enough: `std::mutex` promises no order, and none is needed with finitely
  many pushes.
* `RespChain`: calls that have begun go on; weak fairness.
* `NetworkRespChain`: the init thread runs, and NetworkManager answers the property
  read that blocks it. Nothing makes the service appear or its state change,
  and nothing makes a handler run, because no thread of the program does.
* `ModuleWeb`: the writer runs, begun calls of the others go on.
* `DBModule`: the loop of `write()` runs, and a thread waiting for `mutex_`
  gets it if it is free again and again. That is the strongest a mutex may be:
  `WriteEnds` needs it because call-backs may come without end, and under it
  the violation of `ReadReturns` is not one of scheduling.
* `AppCollector`: none. Nothing makes a handler run; that nothing is forgotten is said
  by invariants, of what is still on its way.
* `Application`: a cancelled thread reaches its next cancellation point, the
  loops of the main thread go on, the database read goes on. No service that is
  waited for has to appear, and nobody has to call or signal.

## 4. The proofs

All theorems hold for any finite or infinite sets allowed by the named
assumptions: threads are disjoint sets without `NoThread` and, where they are
counted, finite; ids do not contain `NoId` and `Fragment`; base64 texts of two
items differ, no literal is an expression of columns, and messages are sequences of
items (`DBAssumption`); the elements of
a chain are `1..N`, and the web writer is one of its callers (`WebAssumption`) and
no producer (`ProducersAssumption`); the keys of a url are ordered as numbers are
(`KeysAssumption`); a message has up to 15 fields of the kinds of
`define.proto`, one inside it 2 or 3 numbers and texts, a text less than 2^27 bytes
(`WellFormed` in `InputsAssumption`), and the empty text is UTF-8
(`MessagesAssumption`); lengths and bounds are natural numbers. TLC
evaluates each of them on the instances of the runs.

The type invariants (`TypeOK`, where threads and mutexes are concerned with
mutual exclusion in it) are proved, `TypeCorrect` in each module but `TextProofs`,
where they are parts of the invariants below, and so are not among the
properties of the runs.

* `QueueProofs`. `LockInv` adds to the type invariant that the mutex is held by
  exactly the thread in a critical section (`MutexHeld`), that what `pop` has
  copied is still the front (`FrontHeld`), and that a push in progress is
  within its bound. `NoLostWakeup` is then inductive: a new message brings a
  notification, a notification turns a sleeper into a looker, and a looker
  sleeps only on an empty queue. `NothingLost` follows each message from the
  queue to one hand and to the history. `SafeMailbox` maps every step to a
  step or a stutter of `Mailbox`. `SafeFifo` does so with `Fifo` for one reader
  (`OnlyReader`, its only hypothesis): the channel is what the reader has
  taken and not returned, followed by the queue, so that `PopTake` does not
  change it and `PopReturn` takes its front.
* `ModuleWebProofs`, the chain. `MutexHeld` says that a caller holds the mutex of
  all the elements it has passed; so no setter can be between lock and unlock of
  one of them, and `NeverClosedBehind` is inductive. `GateIsOpen` is its instance
  at the last element. `WakeupsBelowHead` uses that the holder of the first mutex
  is alone further down.
* `ModuleWebProofs`, the writer. `WebIsAClient`: each step of `ModuleWeb` is a step of
  `RespChain` or none, and one of `Queue` or none, because `StageInv` ties `stage` to
  where the writer is in either. So all that is proved of the parts holds of the
  composition: `HoldsNoGate` joins `MutexHeld` of both, and `PoppedInOrder` is
  `SafeFifo` and `NothingLost` with the writer as the reader. `PopsAfterOpen` needs
  that the only way from `block()` to `pop()` is the unwinding from the last
  element (`OpenInv`), where `NeverClosedBehind` says that every gate is open.
  For `OwnElementHolds`, nobody is about to set the writer's element and the
  writer does not get to where it would (`OwnInv`).
* `NetworkRespChainProofs`. The invariant is that the last signal on the bus
  speaks of the present (`LastIsNow`), that there is one reply at most
  (`OneReply`), and that without a signal on its way an online process has
  its gate open or a read that will open it (`OpenOrOpening`). `NeverStuck` is
  that invariant on an empty bus. `RightForGood` is an action property: once
  the reply is behind, what survives every step is that the flag is right or
  a signal is on its way (`RightOrToldSo`), and the last of those signals
  speaks of the present.
* `DBModuleProofs`. Mutual exclusion (`LockInv`) makes `ReadFreezes` immediate: the
  owner of the mutex is the thread that waits for it. For `StaysEmpty`, every
  call whose statement may still have an effect is the `CREATE TABLE` of
  `connect()` or uses `table_` (`CallInv`). `HoldsFirstItems` and `DeletesOnlySaved`
  come from one invariant (`HeldInv`): a pending insertion is of the first item of
  a message and a pending removal that of a call-back with `SavedFailed`
  (`ValueInv`), so every value with a count is such a first item, and rows go only
  on account of such a call-back (`DeletedOnAccount`, of that module).
* `HardModuleProofs`. `KnownInv`: every id in memory was found or given, is none,
  or is a `Fragment`, and a post is asked for only where none is known; it gives
  `PostsOnly` and, with what a load can make of each file (`FoundInMessage`), the
  refinement `Implements`, in which a truncation, a partial and a full write are
  each a `Store`. `AgreeInv` follows the two threads step by step while they do
  not overlap: that the collector's copy is still the global unid is what makes
  `Agree` inductive. `SavedInv` needs it too, because `save_to_file` writes `info_`
  and not the answer.
* `ApplicationProofs`. `Shape` ties the number of threads to the phase of the main
  thread, and the export of the plan to there being one, `Fates` says which thread may wait or be stuck and that nothing is
  cancelled without `stop()`, `Taken` counts the signals, `Joined` the threads the
  destructor has passed, and `Plan` that a new process begins with the plan
  off. `TypeCorrect`, `GoesInOrder` (from `NoneOutlives` and `TwoSignals`),
  `ReadsWhatIsConnected` and `Forgotten` follow; `StaysStuck` is an action property over the same invariant.
* `AppCollectorProofs`. `NothingKept` is inductive as it stands. For `OnlyLate`, an
  `EntryAdded` on its way or in its handler is about an entry that came late
  (`LateInv`). `NoneForgotten` and `NoOpeningMissed` are inductive over the type
  invariant: a signal leaves its place on the way only to be handled, and a
  handler only when it has connected, read or given up an entry that is gone.
* `TextProofs`, the parser. The position is at most two behind the last character,
  and the loop condition keeps every look ahead within the string (`Bounds`). A
  stray percent sign or null character is appended only next to a date
  (`StrayInv`). In a pattern without a date, the items are those of the
  letters behind the position, each at its rank among them (`RankInv`).
* `TextProofs`, the log. A thread prints only with the mutex of the appender
  (`PrintsLocked`), what it has begun is the end of the output (`InEvent`), and the
  output holds all of a thread's loud events but the one that is due
  (`PrintedSoFar`), in ascending order. `EventsAreWhole` follows for any number of
  threads and events.
* `TextProofs`, the url. `AsCalled` says for every key which call the map
  owes its value to, or that every `add` has a `del` behind it; `PutOut` where the
  iterator is: from the second pair on the query holds, in ascending order, the
  keys it has left behind. `QueryIsRight` is both when nothing is ahead.
* `TextProofs`, the padding, of blocks of at most 999 bytes: the digits of more are not
  modelled. The remainder decides whether one byte is missing,
  and the padding has one, two or three digits: the position that
  `append` is given is the end of the digits, which adds nothing, or lies behind
  it, which throws, whatever the length of the message (`PaddingIsLost`).
* `TextProofs`, the messages. What is written is a sequence of items, each a value
  of a field that is not empty. `MessageInv` is inductive: while measuring, `sums`
  is where each item will begin (`IsSums`); while writing, the bytes of every
  item that was written lie there (`Laid`); while reading, the reader is at the
  beginning of an item and has got what the items before it are merged to
  (`AtItem`), or at a field of the element in one, with the fields before it
  in the last place of `got` (`InItem`). It cannot be less: what the next step
  reads is known only because the reader is where something was written. That
  a number, a field, an element and an item are read as they were written are
  lemmas (`VarintType` to `ReadCut`, `ReadPiece`, `ElementRead`, `ItemRead`), as is
  what a step sees of one that is cut. A text that is no UTF-8 stops the reader at
  its item, a cut in an item at the end of the input, so that `parsed` is
  reached only between two items; `MessagesAreRead` follows. For `IdIsFound` the
  word in the file is a prefix of it that ends before the first blank (`WordIs`,
  `FirstByte`), so whether the item of the id is in it is decided by that item and
  the place of the cut alone (`IdIsWhole`), and what is got of it is all of it, or a
  beginning with zeros behind it (`IdLeft`).

The library's induction theorems cannot be used here, because they take an
operator as a parameter. Where a least element is needed (the first key of a
map), it is taken from the well-foundedness of the order of the natural numbers
(`HasLeast`).

Only model-checked:

* liveness, because fairness and `ENABLED` are out of the prover's reach:
  `ReturnsWhenOpen`, `NotAllLeftAsleep`, `OpensAtStart`, `ReachesSend`, `WriteEnds`, `StoppedGoes`, and the
  liveness half of `ImplementsMailbox` and `ImplementsFifo`.

Every safety invariant and every safety action property of the runs that pass has a
theorem.

## 5. What could follow

1. What a message keeps of the fields that the program does not know, when it is
   written again.
2. The liveness of the queue and the chain reduced by lemmas to steps that keep
   their promise until they are taken, so that TLC checks only that they are.
3. `ModuleWeb` behind `send()` and `DataBase` behind the lock of
   `execute_with_return()`, once the code can get there.

## 6. Not modelled

* What `SysModule` and its subclasses make of the description of a device, and the
  service that gives it: `generate()` writes through a null pointer behind the
  first part (utils.cc:817), so that what was parsed is never seen. `HardModule`
  has it find no device or end the process.
* What log items print, and the names and colours of levels.
* Descriptors, arenas, swap and reflection of the generated messages; negative
  numbers and those of more than 31 bits; the bytes of unknown fields.
* The encryption and D-Bus libraries, and the declarations of `dbus.h` beyond the
  signals and properties that the models use.
* `LoginCollector`, whose `collect()` is empty; the cached values of
  `SystemInfo`, which are read once; the singletons and macros.
* `Queue::clear()`, which only the destructor calls; `save_to_file` and `is_enabled`
  of the plan, the first never called and the second without an effect; a second
  `start()` in one process.
* The part of `send()` behind the null dereference and of
  `execute_with_return()` behind its lock, which cannot be reached.
