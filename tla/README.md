# tdelibs in TLA+

This directory holds a TLA+ model of the parts of tdelibs where processes work
together: models that TLC checks on small instances, and theorems about them
that TLAPS checks for every value of the constants.  Paths below are relative to
`tde-tdelibs/`.

Run a check with `tlc -config calls.cfg MCDCOPServer.tla`, a proof with
`tlapm DCOPServer_proofs.tla`.

## 1. The system

tdelibs is the library and service layer of the Trinity desktop.  Most of its
eleven thousand files are sequential library code, user interface code, formats
and translations.  The program's own concurrency is in a few services that
desktop processes share, nearly all of them reached over DCOP.

| part | state it keeps | operations | how it interacts |
|---|---|---|---|
| **dcopserver** (`dcop/dcopserver.cpp`) | connections, id table, three lists of waiting clients per connection, daemon flags, notification counters, a timer | register, daemon mode, notifications, send, call, find, answer now, answer later, connection lost, SIGTERM | one socket per client; routes every message; broadcasts registrations |
| **signal connections** (`dcop/dcopsignals.cpp`) | the connections of each signal, a list of them per client | connect, disconnect, emit, forget a client | called by the server for its clients and for itself (`terminateTDE()`) |
| **output queue** (`dcop/dcopserver.cpp:165-397`) | flag, queue, offset, socket notifier per connection | write header, write data, socket writable | kernel socket, dead-connection timer |
| **DCOPClient** (`dcop/dcopclient.cpp`) | current key, posted messages, pending replies, transactions | call, callAsync, send, process message, begin and end transaction, timeout, failure of a call | the server; the application's event loop, re-entered inside a call |
| **KDE-ICE** (`dcop/KDE-ICE`) | saved reply waits, buffers | process messages, write, flush | below client and server |
| **kpasswdserver** (`tdeio/kpasswdserver`) | queues of pending and waiting requests, credentials with expiry, keys per window | check, query, add, window closed, process the next request | DCOP transactions; a dialog with its own event loop; tdewalletd |
| **tdewalletd** (`tdeio/misc/tdewalletd`) | open wallets, handles per application, reference counts, transactions, idle timers | open, close, change password, application gone, timeout, reconfigure | DCOP transactions; dialogs; KTimeout |
| **tdelauncher, tdeinit, autostart** (`tdeinit`) | start requests, the one in progress, idle slaves, waiting slave requests | start, process ended, registration seen, next request, slave idle | tdeinit over a socket; DCOP registrations |
| **TDEIO** (`tdeio/tdeio`: scheduler, slave, connection, slavebase, job) | job queues per protocol, idle, connected and coming slaves | do, schedule, cancel, assign, hold, job finished, slave died | slaves over sockets; tdelauncher |
| **kdirwatch, kdirlister** (`tdeio/tdeio`) | items held by several listers, listings under way | open, update, files added, removed | jobs, file notifications |
| **kcookiejar** (`tdeioslave/http/kcookiejar`) | cookies, pending cookies, requests waiting for a decision | find, add, advice given | DCOP, dialogs |
| **kded, tdesycoca** (`kded`, `tdecore`) | modules, rebuild requests | load on demand, rebuild | DCOP, directory watch |
| **TDELockFile, KUniqueApplication, KManagerSelection** (`tdecore`) | lock files, registrations, X selections | acquire, release, take over | other processes |
| **resolver and sockets** (`tdecore/network`) | worker threads, queue | enqueue, dispatch, cancel | threads under one mutex |
| **tdehtml loader** (`tdehtml/misc/loader.cpp`) | cache lists, counters, requests | request, reference, flush | TDEIO jobs |

Rendering, KJS, widgets, styles, printing, spell checking, address book formats
and Kate are sequential code.  `libltdl`, `tdecore/malloc`, translations and
build files are not this program's own logic.  `PROJECT.json` lists all parts with
their status, and under `hazards` what is hard to test in them, line by line.

### What is hard about each part, and what makes it correct

* dcopserver.  Calls in both directions, immediate and delayed answers, deaths
  and re-registrations interleave.  *Correct* when the lists of waiting clients,
  what clients owe and what clients wait for agree; when a caller is told if the
  called client dies; when the id table, the client count and the notifications
  follow every registration; when SIGTERM and `--suicide` end the server exactly
  when they should.
* Signal connections.  One record is in two or three lists that are taken down in
  any order.  *Correct* when every list holds exactly the live connections.
* Output.  A message is written in pieces, each piece in parts, messages pile up
  behind it.  *Correct* when the client reads the bytes of the messages in order.
* DCOPClient.  The event loop runs again inside a call: messages are posted,
  calls nest, answers and timeouts cross; callees die.  *Correct* when an answer ends the call
  it belongs to, posted messages are handled once, a transaction is answered once.
* kpasswdserver, tdewalletd.  Handlers run dialogs, so other handlers run in their
  middle.  *Correct* when every request is answered once, references equal
  handles, and nothing is used after it was closed.
* TDELockFile.  Processes look at a file, decide and act in separate system calls,
  and die between them.  *Correct* when one process has the lock and a dead
  process's lock is broken.
* tdelauncher, TDEIO.  Processes start, register, fail or hang.  *Correct* when
  every request is answered, and a slave is in one place at a time.

## 2. Plan

Done, in the order in which it was built:

1. *The DCOP server:* `CallService`, `DCOPServer`, `DCOPOutput`, with their proofs.
2. *DCOP clients:* `RequestService`, `DCOPClient`, the library that every process
   uses, with the part of KDE-ICE that matches answers with calls.
3. *The services with dialogs:* `KPasswdServer` with the slaves that ask it, and
   `TDEWalletD`.  Both answer requests from a queue with a dialog in the middle,
   whose event loop lets everything else in.
4. *Processes and files:* `LockFile`.

Each with its proofs: every safety property of a run that passes is proved (section 5).

Left, the most important first:

5. `TDELauncher`: start requests, the one in progress, registration over DCOP,
   death; `Scheduler`: jobs and slaves, with an abstract service in which a job is
   assigned once.
6. `ResolverManager` (threads under one mutex), `DirLister` (a cache shared by
   listers), the cache of tdehtml.
7. `DCOPClient` composed with `DCOPServer` in the place of a server that forwards
   in order; a specification of services with dialogs ("each request is answered
   once") that `KPasswdServer` and `TDEWalletD` both implement.
8. Proofs for each of these: which parts of a composition keep their invariants, and
   the abstract specifications.

Every module keeps the same form: constants with named assumptions, one action
per handler, invariants as conjunctions, no RECURSIVE operator, an `MC` module
only where functions or model values that cfg files cannot write are needed,
proofs in modules of their own.

## 3. The modules

### DCOPServer

The server is a process with one event loop, so every handler runs to its end
before the next: a handler is an action.  A client's messages are handled in the
order it sent them, and only the server reads them; so a message is consumed in
the action that sends it, and a client that is slow to send stands for one whose
message waits in the socket.  What the server has handed to a client and the
client has not answered (in the socket, posted, or inside a handler) is counted.

| variable | code |
|---|---|
| `clients`, `appIds` | `DCOPServer::clients` (and `fd_clients`, kept in step with it), `DCOPServer::appIds` |
| `appId`, `daemon`, `notifyRegister` | the fields of `DCOPConnection` |
| `currentClientNumber`, `shutdown`, `m_timer` | the fields of `DCOPServer`; `m_timer` is whether it runs |
| `waitingOnReply`, `waitingForReply`, `waitingForDelayedReply` | the three lists of `DCOPConnection`, as numbers: only `append` and `removeRef` are applied, and the order of a list only decides the order of the failures sent when a client dies |
| `connections`, `signalList` | `DCOPSignals::connections`, `_signalConnectionList` |
| `timeoutSlots` | the slots connected to the timer's `timeout()` |
| `heard`, `announced`, `exited` | what was emitted in this step, whether `terminateTDE()` ever was, whether `exit()` was called |
| `running`, `owed`, `owedDelayed`, `blocked`, `stray`, `view` | the clients: alive, what they owe an answer to (by id, as the message carries it), what they wait for, whether one got an answer it did not wait for, the ids an observer believes in |

| action | code |
|---|---|
| `NewClient` | `newClient`, `watchConnection` |
| `RegisterAs` | `receive`, `registerAs(TQCString)`, unification and broadcast included |
| `SetDaemonMode`, `SetNotifications` | `receive` |
| `Call`, `Reply`, `ReplyWait`, `ReplyDelayed` | `processMessage` |
| `ConnectSignal`, `DisconnectSignal`, `DisconnectObject`, `Emit` | `receive` and `dcopsignals.cpp` |
| `ClientGone`, `RemoveConnection` | a process dies; the server finds out, `processData` or `slotCleanDeadConnections`, then `removeConnection` |
| `Timeout`, `Shutdown` | `slotTerminate`, `slotSuicide`, `slotExit`; `slotShutdown` |

`DCOPSend` between clients, multicasts and the queries `registeredApplications`
and `isApplicationRegistered` change nothing in the server; the first query gives
`SetNotifications` its starting `view`.  `processMessage()` forwards the call of any
connection; `Call` is that of a registered one, since a `DCOPClient` has an id before it
calls another client: `attach()` registers it as "anonymous" (`dcopclient.cpp:681` and
919), and `registerAs()` registers it with its first call, which is to the server (1006).  Unification tries "app", "app-2", ...:
`Variants[app]` is that sequence, cut to the ids of an instance.

What the server does not decide is a constant: `Renames` says whether a client
that is registered may register again (never, with no call outstanding, at any
time), `NameReuse` whether an id may be taken while an answer to its former owner
is on its way.  The code allows everything; section 4 says which properties hold then.

### CallService

What the server promises its clients: a call stays pending until the called
client answers or is gone, and the service notices eventually that it is gone.
`DCOPServer` implements it under the mapping `pending <- blocked`,
`alive <- running`, `connected <- clients`, `stopped <- exited`.

### DCOPOutput

One connection's output.  The bytes written are numbered; a queued piece is an
interval; `intact` records whether the kernel got the numbers in order.  The
kernel's buffer (`SocketBuffer`) and the client that reads it are external.
`SplitsHeaders` says whether the kernel may take a part of a header.  A handler that
writes is several actions (header, pieces), because the client may read between
them; the server's own slots wait for its end (`~sending`).

### DCOPClient

Several clients that call each other.  The server is the queue `toClient` of the
messages that it has for each client: it reads what one client sends in order and
hands it on; that it keeps no other order, in particular not that of the answers of
different clients, is what the hazards of this module are about.

A client may die anywhere (`Die`).  Then the server does what `removeConnection()` does
(`dcopserver.cpp:1203-1242`): it sends a DCOPReplyFailed to the caller of each call that
the dead client had not answered, the ones whose answers it had promised included; and a
call to a dead client is failed at once.  What the server has in `waitingForReply` and
`waitingForDelayedReply` is read off where the calls are (`DCOPServer` has the lists
themselves); a failure carries in `tid` whether its answer was promised, which is not in the
code's message and which no handler reads.  The order of failures to one caller is one of those
possible.  Death and its discovery are one step; messages that the server has yet to read
from a dead client are read before.

A client is one thread, and its `stack` says what it is in the middle of: a call
that waits, a handler, `processPostedMessages()`.  A call reads the socket itself, so
a handler may run inside a call, call somebody, and so on.

| variable | code |
|---|---|
| `stack` | the C++ stack: for each frame of `callInternal()` and `DCOPProcessInternal()` the call it is about and `oldCurrentKey` |
| `currentKey`, `opcode`, `senderId`, `transaction`, `transactionId`, `messages`, `postMessageTimer`, `pendingReplies`, `transactionList` | the fields of `DCOPClientPrivate` |
| `waits` | `saved_reply_waits` of the connection (`KDE-ICE/process.c`), those not ready |
| `rs` | the `ReplyStruct` of each call; `of`, which call the answer written there was for, is not in the code |
| `calls` | who called whom, how and with which key, which is in the message |
| `dead`, `abandoned` | the clients that died; the calls that a dead client had promised to answer, which is not in the code |

| action | code |
|---|---|
| `call`, `send` | `callInternal()`, `call()`, `callAsync()`, `send()` as far as the first wait |
| `Read` | `IceProcessMessages()` with `DCOPProcessMessage()` and `DCOPProcessInternal()`: `Reply` (DCOPReply and DCOPReplyFailed), `ReplyWait`, `ReplyDelayed`, a call that is handled or posted |
| `Return`, `TimeOut` | the two ways out of the loop of `callInternal()` |
| `processPostedMessages`, `ProcessPosted` | the timer's slot; its loop, one round a step |
| `beginTransaction`, `HandlerReturns`, `endTransaction` | the handler's part, and what `DCOPProcessInternal()` sends when it returns |
| `Die` | a process ends, `DCOPServer::removeConnection()` |

Constants say what applications do: who calls of his own accord (`Initiators`), in
which ways (`Kinds`), with the event loop (`EventLoop`), whether a client calls
while a call of its own is open (`Nesting`), whether a handler both calls and delays
its answer (`CallsAndDelays`), whether it delays its answer inside another handler
(`NestedDelays`), whose calls time out (`Impatient`) and who may die (`Mortal`).  The
code allows all of it.  `DeathAssumption` excludes deaths together with `CallsAndDelays` or
`NestedDelays`: then a transaction may belong to another call than the model notes, and
the promises of a dead client could not be read off its transactions.  A program
begins a transaction for a call only, and ends it after the handler that began it has
returned, from its event loop or in another handler: of a send nobody waits for the answer,
and an answer before the handler's own return would be sent before the promise.  A reply
wait that is ready but not yet taken from the list by its own call is left out; it can
be there only with `Nesting`.
Keys are named after the clients; the code gets a key of its own for each client
from the server.

### RequestService

What DCOP promises about a request, a call or a send: it comes to the client it was
sent to, which handles it once, and a call is answered once, to the client that made
it; this first answer may be the promise of a later one, and it is a failure if the client
that was asked dies first.  `DCOPClient` implements it
under the mapping `asked <- calls`, `sent <-` the requests in a client's queue and
those it posted, `handled <-` the numbers of its handler frames, `answered <-` the
answers in a queue.  A request that is posted, timed out or waited for stays where it
is; one that is taken from a list without being handled, or handled and left in it,
is not a step of this module.

### KPasswdServer

The password server with the slaves that call it.  A slave blocks in its call, so it
has one request at a time.  The queues, the cache and the keys of each window are
variables of the code's names; `timers` counts the single-shot timers that will call
`processRequest()`, `dialog` is the dialog it is in, `s_seqNr` the static variable of
`SlaveBase`.  `processRequest()` is `Retry`, `Ask` up to a dialog, and `RetryClosed` and
`PasswordClosed` after one; what follows the answer (`Finish`: the head is answered,
then every check that waits for no other query) is a part of those actions.

Two reads of the code are of undefined values and are choices here: `info` refers to
the request that was just deleted, so its `verifyPath` is any Boolean for each waiting
check, and `windowId` of a queued check was never set, so it is any member of
`Leftover`.  A window may be closed at any time, also while a slave of it waits or before
it calls: the server does not look.  A path is its depth and a password the sequence number it got.  `MaxSeqNr` is
where slaves begin nothing new.

### LockFile

Processes that share a lock file.  Every system call is a step (`pc` says which one is
next), the file system is the inode under each name (`lock`, `own`), the link counts
and who wrote his pid into it (`writer`).  A process may die anywhere (`Crashing`),
and leaves its files behind.  `Forcing` are the processes that break stale locks;
`Reuse` says whether a free inode number is given again, `StaleByTime` whether the lock
of a live process gets older than the limit.

### TDEWalletD

The wallet daemon: the tables of open wallets, of handles per application, of
passwords and of timers; the queue of transactions; and `dialogs`, the dialogs that
are shown, each over the one before.  `dialogs` is the stack: whoever shows one
(`processTransactions()` or `openPath()`) goes on when it is answered.  While
`openPath()` shows one, DCOP messages wait, since they have another key than the
call it handles (`DCOPClient`), and timers go off; inside `processTransactions()`,
which a timer called, messages are handled too.

| action | code |
|---|---|
| `OpenLater`, `changePassword`, `openPath`, `tryOpen` | the ways to open a wallet |
| `processTransactions`, `ProcessNext` | the timer, and the rounds of the loop |
| `Refuse`, `Accept`, `Authorize`, `KeepPassword`, `NewPassword` | the rest of `internalOpen()` or `doTransactionChangePassword()` after a dialog |
| `close`, `closeByName`, `closeAllWallets`, `timedOut`, `disconnectApplication` | the ways to close one |
| `Leave`, `Start`, `reconfigure` | `slotAppUnregistered()`; a client; new settings |

`crashed` is set where the code follows a null pointer or one to a deleted object:
`internalOpen()` looks a handle up again after a dialog in which the wallet was
closed (`tdewalletd.cpp:541`), `doTransactionChangePassword()` uses the wallet it had.
Both happen, by a timer for instance; no document promises otherwise, so this
is reported here and not as a disagreement.

Wallets are closed by name in `disconnectApplication()` (line 1318) and
`slotAppUnregistered()` (1193), by handle in the model: another wallet is meant only when one is
open under two handles, so with `Overlaps`.  The requests that fail together are those for
the same window (169); which ones these are is any choice.

Handles are recorded under the name of an application without its number, and
`slotAppUnregistered()` gets the full id: only for clients without a number (`Plain`)
does it find anything.  `Overlaps`, `LeavesAsking`, `DisconnectsAny` and `LeaveOpen`
switch on what breaks a property (section 4).

## 4. What TLC checks

| run | instance | distinct states | shows |
|---|---|---|---|
| `calls` | 3 clients, 2 ids, a call per pair, idle renames | 25,299 | the bookkeeping rule; nobody waits for what is not owed; no stray answer; callers of a dead client are told; the server implements `CallService` |
| `lifecycle` | 3 clients, ids `kate`, `kate-2`, `kded`, `--suicide` and SIGTERM | 13,926 | id table, suicide only when idle, exit announced; shutdown never stuck, and complete once the clients are gone |
| `signals` | 2 clients, up to symmetry, 2 connections alive, notifications | 650,511 | lists of connections agree; observers know the ids exactly |
| `output` | headers of 2, data up to 2, 8 bytes in all, a buffer of 3 | 3,173 | order, nothing lost, delivery |
| `dcopclient` | 3 clients, 2 that begin, 3 messages, one that may die, a client that calls and is called | 943,617 | every answer and every failure ends its own call; no list points to a call that returned; no answer comes unexpected; who re-enters a call; promised answers come; transactions answer their caller |
| `dcopclient_live` | the same with 2 messages, one client with the event loop, one that may die, one impatient | 41,305 | every call returns, but for clients that wait for each other; the clients implement `RequestService` |
| `kpasswd` | 2 slaves of 2 windows, two realms one below the other, 2 changes of the cache, windows closed at any time, an unset window id that reads as 0 or as a window | 241,227 | requests are answered once, waiting checks are released, what is kept for a window goes when it is closed, the user is asked only when the slave knows the newest credentials, queries are answered |
| `lockfile` | 3 processes, one that may die, one that breaks locks, 3 inodes | 1,526,356 | one holder, whose file it is; the lock of a dead process is broken |
| `wallet` | 2 applications, 2 wallets, 3 requests, every setting | 136,316 | references, passwords, timers and handles agree; requests are served |

Bounds.  *Server:* `MaxCalls` limits calls of one client to one other, `MaxNotify` the
nesting of notifications, `MaxConnections` the connections alive at a time.  Three
clients give a caller, a called client and a third that takes a name or dies; a call
and its delayed answer pass through all three lists, and calls in both directions
and in a circle are open at once; two connections give one that stays while another
is removed.  More calls per pair and more observers are covered by the theorems
`CallsAlwaysAgree` and `NotificationsAreExact`.  *Output:* `MaxBytes`, `MaxData` and
`MaxQueue`; a buffer of three bytes and pieces of two make every case of a partial
write and of a queue that grows while its first piece is half sent.  *Clients:*
`MaxCalls` is the number of messages that begin something, in all; three are enough
for a call, one that comes back to the caller inside it, and one that has to be
posted, and for two delayed answers with the same number from different clients.  The
client that may die begins calls and is called, so that callers and callees die, the
latter before they are called too; more deaths, and timeouts among them, are in the theorems.
*Passwords:* `MaxSeqNr` is 2, so that an answer may be older than the cache by one.
*Lock:* three inodes are the dead process's file, the breaker's and that of a third
process that gets the lock in between.  *Wallet:* `MaxRequests` is 3: one wallet open,
one dialog, and a request behind it.

`CHECK_DEADLOCK FALSE` is set everywhere: the server exits, clients may all have gone,
and the bounds end the rest.

Fairness.  *Server:* `RemoveConnection(c)`: the event loop serves a closed socket or
the zero-timeout timer of `ioError` eventually.  `Timeout`: a running timer expires.
*Output:* the notifier is served, a handler ends its message, and a client reads.
Clients of the server are never obliged to answer, so no property of the server
claims that a call to a live client returns.  *Clients:* a client goes on with what
it is in; it reads its socket, its timer goes off and the program ends its
transactions, if it can again and again (strong fairness, since a call that waits
alternates between its socket and the event loop).  *Passwords:* timers go off and
the user closes dialogs (written out as `[]<>`, which TLC evaluates faster).  *Lock:*
processes in `lock(LockForce)` go on.  *Wallet:* kded goes on, its timer goes off and
the user answers.

Mutants.  Next to each definition that a plausible bug would change stands its
mutated form (`FailedMutant`, `OutputReadyOnce`, `JudgeMutant`, ...).  They are not
part of the model; each shows that a property fails when the code is changed so.

### Where code and documentation disagree

Three runs show what the code does against its documentation; the rest is what TLC
finds when one constant of a run above is changed.

| run | property | what happens |
|---|---|---|
| `output_split` | `StreamIntact` | the rest of a partly written header is copied from its start (`dcopserver.cpp:265`, `dcopserver.h:78`) |
| `nested_reply` | `AnswersMatch` | the answer goes to the first reply wait that was saved (`KDE-ICE/process.c:103` and 261), but a wait is saved when its call reads a message, not when it is sent (250): a client that calls from the event loop of a call that has read nothing yet has the later call's wait in the list only, and the answer to the earlier call ends the later one |
| `nested_delay` | `PromisesAreKept` | an answer promises the number of another transaction when a handler ran inside the handler (`dcopclient.cpp:548`, `dcopclient.h:500`) |

| change | property violated | what happens |
|---|---|---|
| `calls`, `Renames = "any"` | `WaitingMeansOwed` | a client registers again while it waits; the answer goes to its old id and is dropped, the lists keep the entry (`dcopserver.cpp:891`, `dcopserver.h:84`) |
| `calls`, `NameReuse = TRUE` | `CallBookkeeping` | a client that took a dead caller's id is entered as waiting for a delayed answer (`dcopserver.cpp:900`) |
| `signals`, `Renames = "idle"` | `NotificationsTrackNames` | the old id of a renamed client is never announced as removed: the assignment is under `#ifndef NDEBUG` (`dcopserver.cpp:1434`) and `dcopserver.h:63` defines `NDEBUG` |
| `signals`, as it is | `ServerSignalsFromServer` | connections to the sender "DCOPServer" fire for any client (`dcopsignals.cpp:61`, `dcopclient.h:422`) |
| `signals`, `Object = {o1, o2}`, no symmetry | `DisconnectObjectIsComplete` | a volatile connection of a client to itself survives (`dcopsignals.cpp:245`, `dcopclient.h:456`) |
| `dcopclient`, `CallsAndDelays = TRUE` | `TransactionsKnowTheirCaller` | a handler that calls before it begins a transaction answers whoever sent the last message (`dcopclient.cpp:2108`) |
| `dcopclient`, `GaveUp` without `Abandoned` | `NoDanglingReply` | a callee dies after its DCOPReplyWait: the failure ends `call()`, whose `ReplyStruct`, on its stack frame, stays in `pendingReplies` (`dcopclient.cpp:369`, 404) |
| the same | `AnswersAreAwaited` | the failure of a promised asynchronous call comes when nobody waits: "Very strange!" (`dcopclient.cpp:376`) |
| the same | `AnswersMatch`, `PromisesAreKept` | that failure ends the call that happens to wait; the promised answer never comes |
| `kpasswd`, as it is | `NothingForClosedWindows` | credentials are stored for a window that is closed already, by `addAuthInfo()` or after a dialog, and stay (`kpasswdserver.cpp:287`, 421); so are those of a queued check, whose window is what memory held (481) |
| `lockfile`, `Forcing = {q, r}` | `MutualExclusion` | two breakers pass their last look at the lock together (`OneBreaks` of `LockFile_proofs` fails first): the second deletes the lock that was taken after the first (`klockfile.cpp:176`) |
| `lockfile`, `Reuse = TRUE` or `StaleByTime = TRUE` | `MutualExclusion` | a new lock has the old inode number; the lock of a live process is taken for stale |
| `lockfile`, as it is | `NoOrphanedLock` | a breaker links a new lock while its owner verifies it, who then leaves it behind (`klockfile.cpp:168`) |
| `wallet`, `Overlaps = TRUE` | `PasswordsKnown` | two requests open one wallet; closing one handle forgets the password of the other, the assertion of `tdewalletd.cpp:718` |
| `wallet`, `LeavesAsking = TRUE` | `OnlyTheLivingHold` | a client that exits during its dialog gets a handle afterwards |
| `wallet`, `DisconnectsAny = TRUE` | `RefsAreHandles` | an application that holds a handle twice gives back one reference |
| `wallet`, `LeaveOpen = TRUE` | `RefsAreHandles` | a client that exits loses its handles, their references stay |

## 5. What is proved

The theorems of the first two modules are about `DCOPServer`'s `Spec` for any finite
set of connections, any ids, objects, signals and slots, and any bounds, from the
named assumptions in `DCOPServer.tla`.

`DCOPServer_proofs`:

* `TypeCorrect`.  One lemma per group of actions; the only delicate parts are the
  lists changed by `AbortCalls` and the records of new signal connections.
* `NamesAgree`.  `NameTable` is inductive with `TypeOK`.
* `CountsClients`.  Inductive with the name table: an unregistered connection is
  never a daemon, so the set of counted clients changes by one element where the
  code changes the number by one (facts about `Cardinality` from
  `FiniteSetTheorems`).
* `SuicideIsIdle`, `ShutdownIsDriven`, `ExitIsAnnounced`.  On top of the count:
  which slots the timer has, and when it runs.
* `SignalsAgree`.  Inductive with `TypeOK`.
* `NotificationsAreExact`, assuming `Renames = "never"`: without it the property
  is false (section 4).

`DCOPServerCalls_proofs`, assuming `Renames # "any"` and `~NameReuse` (without
them TLC finds counterexamples, section 4):

* `CallsAlwaysAgree`.  `CallsAgree` is the strengthening that makes the call
  properties inductive.  The bookkeeping rule alone is not: an answer moves an
  entry only if the called client's list really holds the caller, which holds
  because debts (`owed`, by id) equal list entries (by connection) for every
  registered client, and no debt is recorded for an id nobody has unless its
  owner died; so a new owner would inherit it, which `~NameReuse` excludes.
* `CallsAreBooked`, `NobodyWaitsInVain`, `AnswersAreDue` follow.
* `ImplementsService`: initial states and steps of the server are those of
  `CallService`.

`DCOPOutput_proofs`, for any sizes of headers, data, buffer and queue, from
`SizesAssumption` and the assumption that the kernel does not split a header (run
`output_split` is the counterexample without it):

* `OutputTypeCorrect`, `StreamStaysIntact`, `BlockedExactlyWhileQueued`,
  `NothingIsLost`.  That the stream was intact so far is not inductive: the next
  piece must begin with the first byte not taken.  `QueueInv` says so: the queued
  pieces form a `Chain`, each beginning where the one before ends, from the byte
  `taken - outputBufferStart` to the last byte written, and after a failed write
  the queue is empty.  A write while blocked appends to the chain, a partial write
  starts one, and the notifier removes its head (`ChainAppend`, `ChainOne`,
  `ChainTail`).

`KPasswdServer_proofs`, for any slaves, windows, realms and directories:

* `KPasswdTypeCorrect`, `KPasswdOneAtATime`.  They are inductive together: that the
  head exists when a dialog is closed follows from `OneAtATime`.
* `KPasswdRequestsMatchCalls`.  The inductive form says it by place: each query and
  each check is that of a slave in that state, two queries are of two slaves, and a
  slave in a call has one.
* `KPasswdAskedOnlyForNews`.  `NewsInv` orders what is known by age: a cached item is
  no newer than the last sequence number, two items of one key have different realms,
  a query carries the number that its slave knew, and what a slave was told is as new
  as the items it could have found in the cache, or it will ask.  It needs that
  "no item" (`None`) is not an item, which is an assumption of the module.
* `KPasswdWaitersHaveReason`.  Whatever the deleted request reads as, a check is
  left waiting only by a query that is pending.
* `KPasswdWindows`, with nothing assumed of windows and slaves.  `KeptInv`: an item that is
  kept for windows lists one at least, and each of these windows remembers the item's key,
  without which closing it would not find the item.  An item that is stored for a window
  that is closed already is in that window's list as well, which nobody will look at again:
  so the theorem is about what a closing window takes away, and not
  `NothingForClosedWindows`, which is false.

`LockFile_proofs`, for any processes and inodes:

* `LockTypeCorrect`.
* `HolderOwnsFileHolds`, `LockMutualExclusion`, for any number of processes that break locks,
  with inode numbers used again and locks of live processes that get too old, on runs that
  keep two conditions: no two processes are between their last look at the lock and its
  deletion (`OneBreaks`), and the stale lock that one of them is about to delete is that of
  a dead process (`JudgedRight`).  The code guarantees neither, so they are hypotheses about
  the run (`Spec /\ []OneBreaks /\ []JudgedRight => ...`) and not about who may break locks:
  the theorem says that all that goes wrong goes wrong in one of these two ways.  The
  invariant counts the names of an inode: a process that found two links to its file, and
  a breaker that found one more than it had seen, have the lock itself.
* `StaleLocksJudgedRight`: without inode reuse and without live locks that get too old the
  second condition always holds, for any number of breakers.  The invariant follows the
  inode: one that was a lock once is never linked again (`Past`), so as long as the lock is
  the inode remembered its pid is that of the owner.
* `OnlyBreakersCollide` puts them together: then two breakers at their deletion are the
  only way to lose mutual exclusion.  With one breaker (`lockfile`) there are none.

`DCOPClient_proofs`, for any clients, depth of nesting and numbers of calls:

* `ClientTypeCorrect`.
* `ClientReentry`.  `KeyInv`: while a call is open the client's current key is that of
  the call, and so is the key that every frame above it restores when it is left.
  Nothing is assumed about nesting, timeouts or delayed answers.
* `ClientTransactions`, assuming `~CallsAndDelays`.  `SenderInv`: the sender is that
  of the handler's call as long as the handler has done nothing, since only a call
  reads a message.

`DCOPClientAnswers_proofs`, first with nothing assumed of what programs do:

* `ClientServesRequests`: initial states and steps of the clients are those of
  `RequestService`.  `RequestInv` is what the mapping needs: a request is once in a
  queue, once among the posted messages and in one frame of a stack (`QueuesInv`), and
  in one of these places only, with its callee, or its answer with its caller
  (`PlacesInv`).  Without the last, taking a message from a list would not take the
  request from the union that `sent` is.  A call that times out takes a frame of its
  own from the stack, never a handler's, so the request of its callee is not touched.  When
  a client dies its requests are failed, each once, since they were in one place each, and
  what others had for it is left to them.

Then assuming that a client does not call while it has a call
open (`~Nesting`), that no handler both calls and delays its answer
(`~CallsAndDelays`) and that none delays it inside another handler
(`~NestedDelays`).  `nested_reply` and `nested_delay` are the counterexamples without
the first and the last:

* `ClientAnswersMatch`, `ClientNoDanglingReply`, `ClientAnswersAwaited`,
  `ClientPromisesKept`.  None is inductive alone: an answer is matched with the first
  of the saved reply waits, which is right because that list has one element, which is
  so because no answer was lost, which is matching again.  `AnswerInv` follows each
  call through the system.  A request is in one place: in the callee's queue, posted,
  handled, answered or failed in the caller's queue, or over (`WireInv`, `PostedInv`, `StackInv`,
  and `OwnLife`, which says what the others may be meanwhile).  A callee promises a
  call one number, and owes it until the delayed answer is on its way (`OwedInv`,
  `Told`, `Late`).  What the caller has written in its `ReplyStruct` says where the
  request is (`KnownOf`).  A client that waits has its call, and only that, in the list
  of reply waits and its pending replies are those that were promised (`WaitsInv`,
  `Awaited`).  A handler that delays is alone on its stack (`DelayInv`), so the number
  it promises is its own.  A callee that dies
  leaves each call that it did not answer exactly one failure, in the place of the answer,
  and there is no other message about that call.  All of it holds until a call of the client
  times out or a callee dies that had promised it an answer: the code keeps none of it then
  (section 4).

`TDEWalletD_proofs`, for any clients, wallets, settings and numbers of requests:

* `WalletTypeCorrect`.  With `Shown`: a dialog of `processTransactions()` is alone and
  about the first request, which is there when it is answered.
* `WalletTimers`.  Inductive with the types.
* `WalletPasswordsKnown`, assuming `~Overlaps`.  Closing one handle forgets the
  password of its wallet, so no wallet may have two.  `Sound` says why: handles are not
  used again, a wallet that a dialog is to open is closed and has one such dialog, and
  no other request opens it in between.
* `WalletHolders`, assuming `~LeavesAsking`.  Whoever waits for a handle is there.
* `WalletReferences`, assuming `~LeaveOpen` and `~DisconnectsAny` (TLC refutes it
  without either, section 4).  `Books` ties
  the reference count of each handle to the size of its `Holdings`, a set with a pair
  for each time that an application holds it, so that facts about `Cardinality` do
  instead of induction; a handle that `tryOpen()` opened has one reference more.
  Closed handles have none, and handles not yet given are closed.

Properties proved that no run lists: `JudgedRight`, `CallsAgree`, `ClientCount`, `BlockedWhileQueued`,
`OneAtATime` and the `TypeOK` of `LockFile` and of `DCOPOutput`, most of them inductive
forms of what the runs check.

Only model-checked:

* liveness (`CalleeDeathReleases`, `ShutdownCompletes`, `AllDelivered`, `CallsReturn`,
  `QueriesAnswered`, `StaleLockIsBroken`, `RequestsServed`) and the fairness part of
  `ImplementsCallService`: out of reach of the prover.

Every safety property of a run that passes is stated by a theorem.

## 6. What is not modelled

* Server: authentication, listening sockets, the lock and authority files and the
  fork of `kdemain()`, start-up I/O.  A client set-up that never completes blocks the
  server in `newClient()`'s loop; in the model accepting a client is one step.  The
  content of messages, and forwarding that keeps no state.  Memory exhaustion, the
  limit of file descriptors, and the growth of an output queue, which the code does
  not limit.  Windows (`dcopserver_win.cpp`).
* `DCOPClient`: calls to a client in the same process, `setAcceptCalls(false)`,
  `suspend()`, priority calls, the wrap of `transactionId`, read and write errors,
  attaching and detaching.  What is promised after a call of a client timed out, or a
  callee died that had promised it an answer: a reply wait or a pending reply stays in its
  list, and the code keeps none of `AnswersMatch`, `NoDanglingReply`, `AnswersAreAwaited`
  and `PromisesAreKept` then; they are stated until that.
* `KPasswdServer`: the store in TDEWallet, which decides no more than whether
  "keep password" stays set and may answer a check that the cache does not.
* `LockFile`: file systems without link counts, and locks of other hosts; there the
  code has the race that its comment (`klockfile.cpp:226`) admits.
* `TDEWalletD`: wallet files and entries, the first-use wizard, message boxes, the
  throttles for clients that fail again and again, `createFolder()` on a new wallet.
* The other parts of section 1, in the order of the plan.  The sequential library
  code, widgets, formats, Kate and vendored code, by far the most of the repository,
  have no states and actions that a model would add to their tests.
