# node-ssh in TLA+

node-ssh wraps libssh for node.js (2011): a JavaScript layer (`src/index.js`)
queues operations, native objects (`src/src/*.cc`) execute each of them in one or
several *rounds* on the eio thread pool, and answer by emitting the event
`callback` on the main thread.  This directory models that machinery in TLA+,
checks it with TLC and proves its main invariants with TLAPS.

## 1. Inventory

| Component | State | Operations | Talks to |
|---|---|---|---|
| Task queue (`index.js` 26-105) | `_tasks`, `_cb`, `_timeout`, the listener of `callback` | `_addCommand`, `_executeNext`, the `callback` handler, the 15 s timer, the 100 s keep-alive timer | user callbacks (reentrant, may throw); native objects |
| Native base (`sshBase.cc`) | `m_ssh_session`, keys, `m_error`, `m_done`, `m_wdata` | `init`, `connect`, `setPubKey`, `setPrvKey`, `interrupt` | libssh, the thread pool |
| File transfers (`sftp.cc` 168-306) | `m_size`, `m_pos`, `m_sftp_file`, `m_done`, `m_error` | `writeFile`, `readFile`: `start*`, then `continue*` once per chunk | libssh; a local temporary file |
| Spawn (`sftp.cc` 433-619, `index.js` 429-454, 568-576) | `m_ssh_channel`, `m_buf`, `m_size`, `m_buf2`, `m_size2`, `m_timer`, `m_killed`; the listeners of `stdout`, `stderr` | `spawn`, `kill`, the polling rounds, the 0.1 s timer, `onExit` | libssh; the remote command; the child objects |
| One-round operations (`sftp.cc` 152-166, 308-431, 599-660; `index.js` 219-409) | `m_buf`, `m_buf2`, `m_int`, `m_int2`, `m_stat`, `m_list`; `_stats` | `mkdir`, `rename`, `chmod`, `chown`, `stat`, `unlink`, `rmdir`, `listDir` | the SFTP server |
| Compound operations (`index.js` 116-186, 280-323) | temporary files and their descriptors, which all objects of the process share | `init` with keys, `setPubKey`, `setPrvKey`, `readFile`, `readdir` | the queue, `fs` |
| Tunnel (`tunnel.cc`, `index.js` 458-517) | `m_ssh_channel`, `m_rdata`, `m_size`; the reading loops and their timers | `init`, `connect`, `write`, `read` | libssh; what is behind the tunnel |
| Module set-up (`init.cc`), `Stats` and helpers, `sftp.js` | none that changes | | |

What is hard here:

* **Reentrancy.** A user callback runs inside the `callback` handler and may call
  back into the queue; the next operation is started inside the emit of the
  previous one, with `onStat` or `onExit` still on the stack.
* **Threads.** Rounds run on worker threads over members that the main thread
  also uses; only the queue's discipline keeps them apart, and the spawn timer
  and `interrupt()` do not go through the queue.
* **Timeouts.** The timer of a command races its answer; after it fires the
  listener is removed, but what was started goes on, with its descriptor.
* **Partial failure.** A transfer has many rounds, each may fail or be short; a
  reply may be lost after the server did the work.
* **C++.** Unsigned sizes compared with -1, members never initialised, memory
  owned by the object across operations.

What makes each component correct:

* queue: one operation at a time, in order, each command settled at most once, no
  lost wake-up, timers that belong to the head;
* transfers: an answer without an error means the whole file; the handle is closed
  exactly once; the event loop is held exactly while something is unanswered;
* spawn: polling never stalls; output in order, complete before the exit; one exit
  for each spawn (the last three only as long as requests do not run side by side);
* connection: a connect without an error is connected, with the last keys that were
  given; no sftp session outlives its session; calls with keys
  call back;
* compound operations: a readFile gives its own data, whatever overlaps; its user
  hears once; only failures leave a file or a descriptor behind;
* tunnel: data in order and in the end; a connect without an error leaves an open
  channel;
* one-round operations: no error means done, as documented; results are the server's; no
  attributes leaked or freed twice.

## 2. Modules

| Module | Models | Notes |
|---|---|---|
| `SerialExecutor` | the promise of `sshBase.h` 36-40 | abstract specification; commands are numbered in the order they were queued |
| `FileTransfer` | what a user sees of `writeFile`, `readFile` and `interrupt` | abstract specification |
| `TaskQueue` | `index.js` 26-105 | implements `SerialExecutor` (`ImplementsExecutor`) |
| `TaskQueueProofs` | | TLAPS proofs for `TaskQueue` |
| `SftpTransfer` | `sftp.cc` 168-306, `interrupt` | round by round; implements `FileTransfer` (`ImplementsFileTransfer`) |
| `SftpTransferProofs` | | TLAPS proofs for `SftpTransfer` |
| `SftpSpawn` | `sftp.cc` 433-619, `index.js` 429-454 | worker threads, a timer that fires while rounds are in flight, kill; implements `SerialExecutor` as long as each request has run when the one before it was done (`ImplementsExecutor`) |
| `Connection` | `init`, `setPubKey`, `setPrvKey`, `connect`: `index.js` 107-178, `sshBase.cc` 83-146, `sftp.cc` 117-150 | calls, worker, callbacks; commands are executed one by one, in order (proved) |
| `TmpFiles` | `readFile`, `readdir`: `index.js` 164-186, 280-323 | several objects that share descriptors, time-outs; each object executes its commands one by one, in order (proved) |
| `Tunnel` | `tunnel.cc`, `index.js` 458-517 | calls, worker, reading loops; commands are executed one by one, in order (proved) |
| `SftpCommands`, `MCSftpCommands` | the one-round operations and the stat cache | main thread and worker; operations are executed one by one, in order, each with its own arguments (proved) |
| `SftpSpawnProofs`, `ConnectionProofs`, `ConnectionKeysProofs`, `TmpFilesProofs`, `TunnelProofs`, `SftpCommandsProofs` | | TLAPS proofs for these modules |

The modules meet at the queue: `TaskQueue` sees a native object as something that
answers each operation once, if at all; `SftpTransfer`, `SftpSpawn`, `SftpCommands`,
`Connection` and `Tunnel` show what the native object does between being given an operation and the
answer.  `SerialExecutor` is the promise between the two: `TaskQueue` implements it with
reentrant and throwing callbacks and time-outs, `SftpSpawn` with the polling rounds behind it.
The other modules have small queues of their own, and theorems that say what these queues do
with each command (section 4), so that none assumes more of its queue than `TaskQueue` gives.
`TmpFiles` is a client of
the queues of several objects: it has the queue with its time-outs and sees the
native `readFile` from outside, as something that writes into a descriptor until it
returns.  `Connection` and `Tunnel` have the queue without time-outs and without
reentrant calls, which `TaskQueue` has.
`SftpSpawn` shows (run `spawn_one_exit`) that a spawn whose rounds run side by side may
answer twice, which is outside what `TaskQueue` assumes.

**State and actions against code.**  Each variable is commented with the member
it stands for.  JavaScript runs to completion, so a turn of the event loop is one
action, split where user code runs (`frame` in `TaskQueue`, `SftpSpawn` and
`SftpCommands`).  A request of the thread pool is queued, taken by a worker
and returned; worker actions are one `start*` or `continue*` function each.  In
`TaskQueue` the actions are `UserCall` (`_addCommand` from a method),
`OnCallback`/`HandlerReturns`/`HandlerThrows` (the handler around the user's
function), `TaskTimeout`/`TimerReturns` (the 15 s timer) and `KeepAlive`.
The external parts are libssh, the server, the remote command and the thread
pool; they may fail wherever their interface lets them.

**Abstractions.**  A file is the sequence of its byte positions, an output chunk
its number in its stream, a mode two octal digits given as a string or as a number, a remote directory a function
from names to a kind, a mode and two ids.  Error texts are a Boolean.  On a freed
session a libssh call returns anything (`SftpTransfer`), since what it does is
undefined.  A huge `m_size` after a failed read is `Wrapped` (in `SftpSpawn`); the buffer of that
size cannot be allocated and the process ends there.  `m_size2` and `m_int2` start
with any value.  In `Connection` the keys of a call and the session it makes are its
number; in `Tunnel` the data are the numbers of the pieces in their order of arrival,
and `m_rdata` an array of them; in `TmpFiles` the content of a file is the set of the
calls whose data were written into it.

## 3. Runs

Passing runs:

| Run | Bounds | Shows |
|---|---|---|
| `queue` | 4 commands, throwing callbacks, stalls | the queue's invariants, that it implements `SerialExecutor`, and that commands settle as far as the session answers or the timers fire |
| `transfer` | chunks of 2, files of up to 5, 2 transfers | whole files, handle discipline, loop kept alive, that the rounds implement `FileTransfer`, and transfers end |
| `spawn` | 2 children, 2 chunks each on the two streams together, 2 requests in flight at a time, polls and reads that fail for the first child | whatever overlaps: no spawn is passed over, and one ends when its command does or after kill. While each request has run when the one before it was done: order of output, output before exit, and that spawns are executed as `SerialExecutor` promises, each with one exit |
| `connection` | 3 calls of `init`, `setPubKey`, `setPrvKey`; 2 connects | connects called when all calls with keys were done use the last keys (but for one case, see Switches), failures are reported, the sftp session is the session's, calls with keys call back |
| `commands` (`MCSftpCommands`) | 2 names, 3 calls of any kind | no error means done as documented (with two exceptions, see Switches), results are the server's, attributes accounted for |
| `tmp_files` | 2 objects, 3 calls, 2 descriptors | a readFile's data are its own, callbacks come once and in the end, only failures leave files |
| `tunnel` | 4 calls, 3 pieces through a channel, a buffer of 2, writes of 0 or 1, a `size_t` of 8 values | data in order and in the end, channel open after a connect without an error |

Why the bounds are enough: four commands let one run, one be queued behind it,
one be queued by a callback, and one come after that; a file of 5 in chunks of 2
has a first, a middle and a short last chunk, and lengths 0, 2 and 4 are the
boundaries; two chunks on one stream have an order, and one on each let a
round read both or only one; two children let the second wait, run and inherit members from the first; two requests
in flight let one wait behind another, run beside it, and be left over from the spawn
before;
three calls that give keys let one finish, one be
in its chain of commands and one be called meanwhile, with a connect before and
after; interference between one-round operations goes through members of the object and
the stat cache, which two or three operations exercise; two objects and three calls
let a readFile of one time out, give up or keep its descriptor and still write, while
another is opened on the other object and a third queued, and two descriptors let
them run out or be used again; four calls on a tunnel let it be initialised,
connected, written to and connected again with two reading loops, and three pieces in
a buffer of two need two reads.  `MaxTasks`,
`MaxTransfers`, `MaxFile`, `MaxChildren`, `MaxOutput`, `MaxRounds`, `MaxConnects`,
`MaxCalls`, `MaxData` and `MaxWrite` only cap
counters; `CHECK_DEADLOCK FALSE` stands where the system comes to rest when they
are reached (`SftpCommands` has an explicit final step instead).

Switches and exceptions.  `CallbackMayThrow` and `SessionMayStall` restrict the environment
of the queue.

In `SftpSpawn` nothing is assumed of how long a round takes.  The timer is stopped only at the
exit and reset only after an empty round, so with output flowing it ticks while a round is in
flight, however short rounds are, and adds a request each time (sftp.cc:575-597).  Requests that
wait behind one another do no harm.  What does is two that are executed side by side; that this
does not happen is promised in sshBase.h:36-40 and ensured nowhere.  The history variable
`discipline` says how requests have run: `"kept"`, each when the one before it was done;
`"broken"`, one beside another that has returned and is not answered; `"raced"`, two at the same
time or one without a channel, after which any result is possible.  `OutputInOrder`,
`ExitAfterOutput` and `ImplementsExecutor` hold while it is `"kept"`, with any number of requests
queued; `NoneForgotten` and `TypeOK` hold always, `SpawnExits` until a race.  `MaxRounds` bounds
the requests in flight, beyond which the timer adds none; `MayFail` says for which children polls and reads
may fail.

In `SftpCommands` the history variable `overtaken` says that a worker has executed a stat before
`onStat` of the stat before returned; `AttributesReachable` and `StatIsTheServers` hold until
then.  The names are symmetric, and the properties are safety properties.  `ToldMeansDone`
compares the mode that chmod sets with the one documented, which is octal (`Octal`), and excepts
the strings that the code misreads, those of more than one digit (`Misread`); it excepts a
refusal with `FILE_ALREADY_EXISTS` of unlink and rmdir, which the code takes for a success
(`ignored`), and says nothing of the mode of mkdir nor of chown, which are never sent as given.

In `Connection` `racing` says that `init` has freed sessions that a command was using; what
follows is undefined and `ConnectTold` and `SftpOfThisSession` do not speak of it.  `overtaken`
says there that the last `setPrvKey` was called while an older init had yet to queue its private
key (`PrivateKeyToCome`), which then comes behind it; without this exception
`ConnectUsesLastKeys` is violated, and it is the only one besides keys that could not be written
or set.  A later private key clears it: calls of `setPubKey` and `setPrvKey` one behind
the other, or behind an init that has come as far as its private key, are not excepted.

In `Tunnel` `flaws` collects what later steps depend on: a read that failed, a call on a channel
that was closed or freed (`misused`), whose results are undefined, and `racing` as above.  init
frees the channel at once: under a command that a worker is executing, or when the channel was
freed before because it could not be opened, that is a misuse too.  `up` says that the last
connect was answered without an error.

Fairness.  `FairSpec` of `TaskQueue` assumes that handlers run to their end and that
user callbacks return; that the native object answers (libssh calls return within
`SSH_OPTIONS_TIMEOUT`, 10 s, set in `init`) is a hypothesis of `EveryTaskSettles`, that
node fires the timers one of `TimedTaskSettles`, which assumes nothing of the native
object.  `FairSpec` of `SftpTransfer` is fair to a worker only while the session is
live; that of `Connection` says that files are written, libssh's calls return and
node serves their events; that of `SftpSpawn` is fair to the main loop, the timer and the worker, not to
the remote command; that of `Tunnel` to the worker, the main loop and the timers of the
reading loops, not to what is behind the tunnel; that of `TmpFiles` says that what was
started on an object comes to its end, and demands no time-out.

Where the code disagrees with what the repository says, a run checks the statement
and TLC finds it violated:

| Run | Statement | What happens |
|---|---|---|
| `queue_moves_on` | index.js:29-31 | after one timeout the rest of the queue is never started |
| `transfer_shared` | sshBase.h:38-40 | `interrupt()` frees sessions under a worker |
| `spawn_one_exit` | index.js:29 | one spawn answers twice |
| `spawn_own_output` | sftp_test.js:247 | output goes to the child created last |
| `commands_stat` | index.js:377-378 | a stat without error and without result |

Other disagreements are in the models and have no run of their own, being visible
in a line or two: after a callback has thrown, `_cb` stays set and the queue stops
(index.js:45); transfers go on queueing rounds after `interrupt()` (sftp.cc:197, 264;
sshBase.cc:254); a failed poll ends a spawn without an error (sftp.cc:504); `stderr` is
emitted from a stale `m_size2` when a spawn cannot be started (sftp.cc:558); a cached
stat calls back synchronously (index.js:389); `chown` sends the gid as uid and an
uninitialised member as gid (sftp.cc:817-818); `mkdir` ignores its mode (sftp.cc:157);
octal mode strings are read as decimal (index.js:223, 349); `chown` with ids given as
strings throws, parsing a `mode` that is not defined there (index.js:365-367); a short write to the local
disk ends `readFile` without an error and with a prefix of the file (sftp.cc:286 against
index.js:262); a failed read of a spawn does not end it (sftp.cc:510 against the comment
of the next line); a key that `setPrvKey` sets while an init is under way is replaced
by the init's older one (index.js:123); the file of the private key is never unlinked
(index.js:154); when the native `readFile` fails its temporary file and descriptor stay
(index.js:291); the wrapper of `readdir` throws when it times out (index.js:317); the
keep-alive timer calls `stat`, which a tunnel does not have (index.js:102).  Of the tunnel:
a `ssh_channel_write` that returns -1 is no error (tunnel.cc:88); a channel that could not
be opened is freed and used again (tunnel.cc:78); the reading loop starts although
connect failed, and no loop ever ends (index.js:513).

Leaving the descriptor open there (index.js:291) is what keeps `OwnData` true: the error
may be a time-out, with the native `readFile` still writing.  A plain `closeSync` in that
branch lets another `readFile` get the same descriptor and the late data; that is the
mutant of `OwnData`.

## 4. Proofs

Every theorem holds for every value of the constants; the assumptions are those on the
constants in the modules, and hypotheses where they are stated.  Every invariant and every
action property of the passing runs is proved, and so are the refinements they check.

**The queue.** `TaskQueueProofs` proves `TypeOK`, `OnlyHeadRuns`, `SettledInOrder`,
`NoLostWakeup`, `TimerDiscipline`, `NothingAfterTimeout` and `ImplementsExecutor`.  The argument
is one inductive invariant.  The properties are not inductive by themselves: that an answer is
for the head needs the ids in `_tasks` to be consecutive and to follow the settled ones; that
no second operation starts needs to know which `frame` goes with which value of `_cb` and
whether an operation is running; and that a timer belongs to the head needs that a handler
never leaves one armed.  The refinement maps the executor's busy command to the operation
that the native object has.  `ThrowStopsTheQueue` says why `NoLostWakeup` excepts a callback
that throws: `_cb` stays set, and from then on nothing is started and nothing is delivered.

**Transfers.** `SftpTransferProofs` proves `TypeOK`, `WriteWhole`, `ReadWhole`,
`HandleDiscipline` and `LoopKeptAlive` for any chunk size and any file length.  The inductive
invariant says where the remote or the local file stands after each round: what was written
is the prefix of length `m_pos`, and the handle is open exactly between a successful start and
the round that sets `m_done`.  `TransfersKeepPromise` shows that the rounds implement
`FileTransfer`: a round is a stutter or a change of the copy, which is always a prefix of its
source, and the emit of `callback` is the abstract answer.

**Spawn.** `SftpSpawnProofs` proves `TypeOK` and `NoneForgotten` for all behaviours, and
`ExitsInOrder`, `OutputInOrder`, `ExitAfterOutput` and `ImplementsExecutor` as long as each request
has run when the one before it was done, for any number of children, any output, and any number
of requests that the timer has queued.  The invariant (`IInv`) is kept while `discipline` is
`"kept"`: at most one request is taken and not done, however many wait.  Order needs to know, at each stage
of that request, whether the chunk in `m_buf` is still to be emitted, and exactly how many were;
completeness at the exit needs that `m_done` without a failure or a kill was set by a round that
found the end of file and nothing to read.  The executor's answer is the exit, which starts the
next child in the same step.
What holds with requests side by side too is `SpawnsNotForgotten`: no spawn is passed over, and
the references to the event loop and the exits add up to the children started, so that an exit
too many takes away the reference of a spawn that comes later.

**Connection.** `ConnectionProofs` proves `TypeOK`, `SftpOfThisSession` and `ConnectTold`.  The
invariant says that a queued key belongs to a call with keys, and what a connect that has
returned, and is not answered yet, has left in the members.  `ConnectionKeysProofs` adds
`ConnectUsesLastKeys`.  The chains of the calls mix in the queue, and an init behind whose public
key a `setPrvKey` was called overtakes it; the invariant says of each kind of key, but for this
case, that the last one given is set with none to come, or that the call that gave it is in the
queue and every other that gives one sets it before (`LastStays`, `Ahead`), that a call has one command at a time (`OneCommandEach`), and that no key
command is ever before a connect that was called when all were done (`ReadyConnects`).

**Temporary files.** `TmpFilesProofs` proves `TypeOK`, `OwnData`, `AnsweredOnce` and
`LeftByFailures` for any number of objects, calls and descriptors.  The invariant follows a
call through its stages: where its temporary file and descriptor are is determined by whether
its command is queued, executed, given up or answered; a descriptor that a native `readFile`
may still write to is open on the file of that call, also after a time-out.  `LeakedForGood` is
the price: a descriptor whose `readFile` has been answered stays open for the rest of the
process, because only a command that is still heard closes one, and closes its own.

**Tunnel.** `TunnelProofs` proves `TypeOK`, `DataInOrder` and `ChannelDiscipline`.  The invariant
says where each piece of data is (in the channel, in `m_rdata` while a read is unanswered, or
with the user) and what the channel is at each stage of a connect.  `LoopsNeverEnd` counts the
reading loops, as timers or as reads in the queue: an answered connect adds one, also when it
has failed, and no step takes one away.

**One-round operations.** `SftpCommandsProofs` proves `TypeOK`, `AttributesReachable`,
`ToldMeansDone`, `ListingIsTheDirectory` and `StatIsTheServers` for any set of names and any
number of calls.  The invariant ties a request that has returned to what the server did for it,
and counts the attributes: those not yet freed are those of `m_list` and of `m_stat`.

**The queues of the other modules.**  `Connection`, `Tunnel`, `SftpCommands` and `TmpFiles` keep no
account of the commands that have left their queue.  Their proof modules add histories of the
commands themselves, not of their number: those that were queued, those that were executed, and
those that were answered.  `HSpec` changes them together with the steps of `Next` and restrains
none of these.  `CommandsOneByOne` (`EachObjectOneByOne` in `TmpFiles`) proves that at any time what
was queued is what was answered followed by the queue, and what was executed is what was answered
and at most the head of the queue: each command is executed once, in the order of queueing,
and answered after that.  In `SftpCommands` what is executed is what the worker finds in the
members, so each has its own arguments; in `TmpFiles` a time-out leaves the head in the queue, and
when it comes to its end nothing follows.

**The only cause.**  Three statements that runs refute hold when one thing is excluded, which
shows that it is what breaks them, and that nothing else does: `OneExitPerSpawn` as long as each
request has run when the one before it was done (`OneExitWithoutOverlap`); `ChildSeesItsOutput`,
which speaks of that case only, while no spawn is called during another (`AloneSeesItsOutput`); `StatDelivered` while no
worker that executes the next stat is faster than `onStat` (`OnlyOvertakingLosesAStat`).

**Only model-checked**: the liveness properties (`EveryTaskSettles`, `TimedTaskSettles`,
`TransferEnds`, `SpawnExits`, `KeysAnswered`, `CallsAnswered`, `DataDelivered`), which need the
`ENABLED` of the fairness conditions, and which the prover does not treat.

## 5. Plan

The modules were written in the order of what depends on what: the queue, the
transfers, the spawn, the one-round operations, the connection; then the tunnel and
the temporary files, which are clients of the queue; then the proofs and the refinements of
`SerialExecutor` and `FileTransfer`.  What is left is the
**composition** of `TaskQueue` with `SftpSpawn`, with requests side by side: what a double
answer does to the commands behind a spawn.

## 6. Not modelled

`init.cc` registers classes and libssh's thread callbacks once, before there is an
object; it has no state afterwards.  `BuildStatsObject`,
`Stats.prototype`, `uuid`, `tmpDir`, `createBuffer`, `setOption` and `setMember` are pure
conversions.  `sftp.js` is a former wrapper that names an undefined variable and a
class that the build no longer exports.  Garbage collection of a native object with a
request in flight (no `Ref()` is taken) is outside the models.
