----------------------------- MODULE SftpSpawn -----------------------------
(***************************************************************************)
(* spawn and kill: the child objects of index.js and the polling loop of   *)
(* the native SFTP object (src/sftp.cc), which runs the remote command and *)
(* emits what it prints.                                                   *)
(*                                                                         *)
(* startSpawn opens a channel; continueSpawn, a round of polling, reads at *)
(* most one chunk of stdout and of stderr; cbSpawn emits the chunks and    *)
(* queues the next round, or starts a repeating timer that will, or ends   *)
(* the spawn.  The worker pool has several threads.  Nothing stops the     *)
(* timer while rounds follow each other directly, and it does not look     *)
(* whether one is in flight: a command that prints after a silence gets a  *)
(* second request with every tick.                                         *)
(*                                                                         *)
(* Requests that wait do no harm; what the code relies on, and sshBase.h,  *)
(* lines 36-40, promises, is that a request runs only when the one before  *)
(* it is done.  The history variable discipline says whether that was so.  *)
(*                                                                         *)
(* Children are numbered in the order of the calls; the queue of index.js  *)
(* starts them one at a time (TaskQueue shows it), with no timeout.  A     *)
(* chunk is the number it has in its stream.  User code runs while the     *)
(* events are emitted: cbSpawn is split there.                             *)
(***************************************************************************)
EXTENDS Integers, Sequences

CONSTANTS
  MaxChildren, \* bound on the number of spawns
  MaxOutput,   \* bound on the chunks a child prints, on both streams together
  MaxRounds,   \* bound on the requests in flight when the timer fires
  MayFail      \* the children the polls and reads of whose channel may fail

ASSUME BoundsAssumption ==
  MaxChildren \in Nat /\ MaxOutput \in Nat /\ MaxRounds \in Nat \ {0}

VARIABLES
  called,     \* the children created; stdout and stderr go to the last one
  cur,        \* the child whose spawn the native object executes, 0 if none
  exits,      \* history: the 'callback' events of spawns
  evRefs,     \* ev_ref calls minus ev_unref calls
  out,        \* m_size and m_buf: the chunk of stdout read, 0 if m_size is 0
  err,        \* m_size2 and m_buf2, the same for stderr
  done,       \* m_done
  killed,     \* m_killed
  error,      \* m_error is not empty
  channel,    \* m_ssh_channel: the child it belongs to, 0 for NULL
  timer,      \* m_timer is active
  starts,     \* how many requests of startSpawn there are at each stage
  rounds,     \* how many requests of continueSpawn
  frame,      \* cbSpawn is on the stack
  produced,   \* how many chunks of each child have arrived in its channel
  consumed,   \* how many of them were read
  eof,        \* the children whose end of file has arrived
  shown,      \* history: the chunks emitted while a child was executed
  seen,       \* history: what each child object got on stdout
  pollFailed, \* history: the children one of whose polls failed
  readFailed, \* history: the children one of whose reads failed
  discipline  \* history: whether each request ran when the last was done

members == <<out, err, done, killed, error, channel, timer>>
requests == <<starts, rounds, frame>>
remote == <<produced, eof>>
history == <<shown, seen, pollFailed, readFailed, discipline>>
js == <<called, cur, exits, evRefs>>
vars == <<js, members, requests, remote, consumed, history>>

Child == 1..MaxChildren
Stream == {"out", "err"}
Stage == {"queued", "running", "returned"}
Wrapped == -1  \* ssh_channel_read's -1 as a size_t, a huge m_size
Stale == -2    \* m_size2 not 0 though nothing was read
Chunk == 0..MaxOutput

\* How the requests have run so far: each when the one before it was done; one
\* beside another that had returned, so that both use the members; two at the
\* same time, or one without a channel, after which no result is defined.
Discipline == {"kept", "broken", "raced"}

PerStream(S) == [Stream -> S]

TypeOK ==
  /\ called \in 0..MaxChildren /\ cur \in 0..called /\ channel \in 0..called
  /\ exits \in Seq([child : 0..MaxChildren, error : BOOLEAN])
  /\ evRefs \in Int
  /\ out \in Chunk \cup {Wrapped} /\ err \in Chunk \cup {Wrapped, Stale}
  /\ {done, killed, error, timer} \subseteq BOOLEAN
  /\ starts \in [Stage -> Nat] /\ rounds \in [Stage -> Nat]
  /\ frame \in {"none", "cb"}
  /\ produced \in [Child -> PerStream(Chunk)]
  /\ consumed \in [Child -> PerStream(Chunk)]
  /\ \A c \in Child, s \in Stream : consumed[c][s] <= produced[c][s]
  /\ eof \subseteq Child /\ pollFailed \subseteq Child /\ readFailed \subseteq Child
  /\ discipline \in Discipline

\* m_size2 is not initialised by the constructor.
Init ==
  /\ called = 0 /\ cur = 0 /\ exits = <<>> /\ evRefs = 0
  /\ out = 0 /\ err \in {0, Stale}
  /\ done = FALSE /\ killed = FALSE /\ error = FALSE
  /\ channel = 0 /\ timer = FALSE
  /\ starts = [g \in Stage |-> 0] /\ rounds = starts /\ frame = "none"
  /\ produced = [c \in Child |-> [s \in Stream |-> 0]]
  /\ consumed = produced
  /\ eof = {}
  /\ shown = [c \in 0..MaxChildren |-> [s \in Stream |-> <<>>]]
  /\ seen = [c \in Child |-> <<>>]
  /\ pollFailed = {} /\ readFailed = {} /\ discipline = "kept"

-----------------------------------------------------------------------------
(* The pieces of the handlers, each preceded by what it would be with a    *)
(* plausible mistake; the mistaken forms are used by no definition.        *)

Requests(stage) == starts[stage] + rounds[stage]
InFlight == Requests("queued") + Requests("running") + Requests("returned")

\* The last request that was taken is not done yet.
Occupied == Requests("running") + Requests("returned") > 0 \/ frame = "cb"

\* The last child whose spawn was started.
Begun == IF cur = 0 THEN called ELSE cur

\* Whether the queue of index.js starts a new command at once.
AtOnce == TRUE
QueueIdle == cur = 0

\* The chunk that a round reads from stream s, 0 if there is none.
UnreadUnpolled(s) == consumed[channel][s] + 1
UnreadOrLast(s) ==
  IF consumed[channel][s] < produced[channel][s]
  THEN consumed[channel][s] + 1 ELSE consumed[channel][s]
Unread(s) ==
  IF consumed[channel][s] < produced[channel][s]
  THEN consumed[channel][s] + 1 ELSE 0

\* At the end of file, whether the chunks o and e just read were the last.
StdoutDrained(o, e) == o = 0
Drained(o, e) == o = 0 /\ e = 0

KillIgnored == FALSE
KillSeen == killed

\* ev_unref
NoUnref == evRefs
Unref == evRefs - 1

\* What poll and read of stream s leave in m_size: nothing when the poll fails
\* (which ends the spawn), -1 as a size_t when the read that follows a poll with
\* a result fails.
Polls(s) ==
  {[size |-> Unread(s), failed |-> FALSE]}
  \cup {r \in {[size |-> 0, failed |-> TRUE], [size |-> Wrapped, failed |-> FALSE]} :
         channel \in MayFail /\ (r.failed \/ channel \in eof \/ Unread(s) # 0)}

\* What m_size is left with after a race: nothing or anything.
Garbage == {0, MaxOutput}

\* SFTP::spawn for child c, n being ev_refs before it; resetData leaves m_size2.
NativeSpawn(c, n, e) ==
  /\ cur' = c
  /\ out' = 0 /\ err' = (IF e = 0 THEN 0 ELSE Stale)
  /\ done' = FALSE /\ killed' = FALSE /\ error' = FALSE
  /\ starts' = [starts EXCEPT !["queued"] = @ + 1]
  /\ evRefs' = n + 1

\* The output is not recorded any more once requests have mixed.
Forget ==
  /\ shown' = [c \in 0..MaxChildren |-> [s \in Stream |-> <<>>]]
  /\ seen' = [c \in Child |-> <<>>]
  /\ pollFailed' = {}

\* A chunk emitted on stream s while child cur is executed.
Show(sh, s, chunk) ==
  IF chunk = 0 \/ discipline # "kept" THEN sh ELSE [sh EXCEPT ![cur][s] = Append(@, chunk)]

-----------------------------------------------------------------------------
(* The main thread.                                                        *)

\* sftp.spawn in index.js: the new child takes over the listeners of stdout
\* and stderr at once, its command waits for its turn.
Spawn ==
  /\ called < MaxChildren
  /\ called' = called + 1
  /\ \/ QueueIdle /\ NativeSpawn(called', evRefs, err)
     \/ ~QueueIdle /\ UNCHANGED <<cur, out, err, done, killed, error, starts, evRefs>>
  /\ UNCHANGED <<exits, channel, timer, rounds, frame, remote, consumed, history>>

\* child.kill(), of any child: the flag is the native object's.
Kill ==
  /\ called > 0
  /\ killed' = TRUE
  /\ UNCHANGED <<js, out, err, done, error, channel, timer, requests, remote,
                 consumed, history>>

\* cbSpawn up to the return of the listeners of stdout.  A wrapped m_size is
\* the size of a buffer that cannot be allocated: the process ends.
CbSpawnBegins ==
  /\ frame = "none" /\ out # Wrapped
  /\ \/ /\ starts["returned"] > 0
        /\ starts' = [starts EXCEPT !["returned"] = @ - 1]
        /\ UNCHANGED rounds
     \/ /\ rounds["returned"] > 0
        /\ rounds' = [rounds EXCEPT !["returned"] = @ - 1]
        /\ UNCHANGED starts
  /\ frame' = "cb"
  /\ shown' = Show(shown, "out", out)
  /\ seen' = IF out = 0 \/ discipline # "kept" THEN seen
             ELSE [seen EXCEPT ![called] = Append(@, <<cur, out>>)]
  /\ UNCHANGED <<js, members, remote, consumed, pollFailed, readFailed, discipline>>

\* onExit: the channel is closed, under a worker that may be reading from it;
\* 'callback' ends the command at the head of the queue, whichever that is, and
\* the queue starts the next one.  With an empty queue (cur = 0) the handler of
\* index.js throws, which the process may survive.
OnExit ==
  /\ timer' = FALSE
  /\ channel' = 0
  /\ exits' = Append(exits, [child |-> cur, error |-> error])
  /\ \/ cur # 0 /\ called > cur /\ NativeSpawn(cur + 1, Unref, err)
     \/ /\ cur = 0 \/ called = cur
        /\ cur' = 0 /\ evRefs' = Unref
        /\ UNCHANGED <<out, err, done, killed, error, starts>>
  /\ discipline' = IF Requests("running") > 0 THEN "raced" ELSE discipline
  /\ UNCHANGED rounds

\* The rest of cbSpawn.
CbSpawnEnds ==
  /\ frame = "cb" /\ err # Wrapped
  /\ frame' = "none"
  /\ shown' = Show(shown, "err", err)
  /\ \/ done /\ OnExit
     \/ /\ ~done
        /\ \/ /\ out # 0 \/ err # 0
              /\ rounds' = [rounds EXCEPT !["queued"] = @ + 1]
              /\ UNCHANGED timer
           \/ /\ out = 0 /\ err = 0
              /\ timer' = TRUE
              /\ UNCHANGED rounds
        /\ UNCHANGED <<cur, exits, evRefs, out, err, done, killed, error, channel,
                       starts, discipline>>
  /\ UNCHANGED <<called, remote, consumed, seen, pollFailed, readFailed>>

\* The repeating timer fires, whatever is in flight.
TimerSpawn ==
  /\ frame = "none" /\ timer
  /\ InFlight < MaxRounds
  /\ rounds' = [rounds EXCEPT !["queued"] = @ + 1]
  /\ UNCHANGED <<js, members, starts, frame, remote, consumed, history>>

-----------------------------------------------------------------------------
(* The worker threads.                                                     *)

Take ==
  /\ \/ /\ starts["queued"] > 0
        /\ starts' = [starts EXCEPT !["queued"] = @ - 1, !["running"] = @ + 1]
        /\ UNCHANGED rounds
     \/ /\ rounds["queued"] > 0
        /\ rounds' = [rounds EXCEPT !["queued"] = @ - 1, !["running"] = @ + 1]
        /\ UNCHANGED starts
  /\ discipline' =
       IF Requests("running") > 0 \/ (rounds' # rounds /\ channel = 0) THEN "raced"
       ELSE IF Occupied /\ discipline = "kept" THEN "broken" ELSE discipline
  /\ IF discipline' = "kept" THEN UNCHANGED <<shown, seen, pollFailed>> ELSE Forget
  /\ UNCHANGED <<js, members, frame, remote, consumed, readFailed>>

\* startSpawn: the command is started on a new channel, or one of the calls
\* fails and the channel is freed again.
StartSpawn ==
  /\ starts["running"] > 0
  /\ starts' = [starts EXCEPT !["running"] = @ - 1, !["returned"] = @ + 1]
  /\ \/ channel' = Begun /\ out' = 0 /\ err' = 0 /\ UNCHANGED <<done, error>>
     \/ channel' = 0 /\ done' = TRUE /\ error' = TRUE /\ UNCHANGED <<out, err>>
  /\ UNCHANGED <<js, killed, timer, rounds, frame, remote, consumed, history>>

\* continueSpawn.  A poll that reports the end of file is followed by a read:
\* what has arrived is read first.  After kill() the channel is not touched.
\* What libssh does in a race is not defined: any result is possible.
ContinueSpawn ==
  /\ rounds["running"] > 0
  /\ rounds' = [rounds EXCEPT !["running"] = @ - 1, !["returned"] = @ + 1]
  /\ \/ /\ KillSeen
        /\ out' = 0 /\ err' = 0 /\ done' = TRUE
        /\ UNCHANGED <<consumed, pollFailed, readFailed>>
     \/ /\ ~KillSeen /\ discipline # "raced"
        /\ \E o \in Polls("out"), e \in Polls("err") :
             /\ out' = o.size /\ err' = e.size
             /\ done' = (\/ done \/ o.failed \/ e.failed
                         \/ channel \in eof /\ Drained(o.size, e.size))
             /\ consumed' = [consumed EXCEPT ![channel] =
                  [s \in Stream |-> LET r == IF s = "out" THEN o ELSE e IN
                     IF r.size > @[s] THEN r.size ELSE @[s]]]
             /\ pollFailed' = IF discipline = "kept" /\ (o.failed \/ e.failed)
                              THEN pollFailed \cup {channel} ELSE pollFailed
             /\ readFailed' = IF Wrapped \in {o.size, e.size}
                              THEN readFailed \cup {channel} ELSE readFailed
     \/ /\ ~KillSeen /\ discipline = "raced"
        /\ out' \in Garbage /\ err' \in Garbage
        /\ \/ done' = done
           \/ done' = TRUE /\ (MayFail # {} \/ channel \in eof)
        /\ UNCHANGED <<consumed, pollFailed, readFailed>>
  /\ UNCHANGED <<js, killed, error, channel, timer, starts, frame, remote, shown,
                 seen, discipline>>

Worker == Take \/ StartSpawn \/ ContinueSpawn

-----------------------------------------------------------------------------
(* The remote command: a chunk, or the end of file, arrives in the channel. *)
(* After a race it does not matter any more what arrives.                   *)

Arrives(s) ==
  /\ channel \in Child \ eof /\ discipline # "raced"
  /\ produced[channel]["out"] + produced[channel]["err"] < MaxOutput
  /\ produced' = [produced EXCEPT ![channel][s] = @ + 1]
  /\ UNCHANGED <<js, members, requests, eof, consumed, history>>

EofArrives ==
  /\ channel \in Child \ eof /\ discipline # "raced"
  /\ eof' = eof \cup {channel}
  /\ UNCHANGED <<js, members, requests, produced, consumed, history>>

Next ==
  \/ Spawn
  \/ Kill
  \/ CbSpawnBegins
  \/ CbSpawnEnds
  \/ TimerSpawn
  \/ Worker
  \/ \E s \in Stream : Arrives(s)
  \/ EofArrives

Spec == Init /\ [][Next]_vars

\* The main loop runs and libssh's calls return.
FairSpec ==
  /\ Spec
  /\ WF_vars(CbSpawnBegins) /\ WF_vars(CbSpawnEnds) /\ WF_vars(TimerSpawn)
  /\ WF_vars(Worker)

-----------------------------------------------------------------------------
(* Properties.                                                             *)

\* Whatever the timer adds, no spawn is passed over: while one is executed a
\* request is in flight or the timer will queue one, and each child started
\* before it has had an exit.  References to the event loop and exits add up to
\* the spawns that were started: an exit too many is an ev_unref too many.
NoneForgotten ==
  /\ cur # 0 /\ frame = "none" => InFlight > 0 \/ timer
  /\ evRefs + Len(exits) = Begun
  /\ \A c \in 1..Begun : c = cur \/ \E i \in 1..Len(exits) : exits[i].child = c

\* The chunks of a child are emitted in order, none twice and none left out,
\* stdout and stderr each, as long as no read has failed and each request has
\* run when the one before it was done (nothing is recorded afterwards).  A
\* command that could not be started has no output, but for what m_size2 was
\* left with, once.
OutputInOrder ==
  \A c \in Child, s \in Stream :
    discipline = "kept" /\ c \notin readFailed =>
      \/ /\ Len(shown[c][s]) <= consumed[c][s]
         /\ \A i \in 1..Len(shown[c][s]) : shown[c][s][i] = i
      \/ s = "err" /\ consumed[c]["out"] = 0 /\ shown[c][s] = <<Stale>>

\* When a child exits because its command ended, everything the command printed
\* was emitted before, as long as each request has run when the one before it
\* was done, no matter how many the timer has queued.
ExitAfterOutput ==
  [][ \A c \in eof :
        /\ cur = c /\ exits' # exits
        /\ ~killed /\ c \notin pollFailed \cup readFailed /\ discipline = "kept"
        => \A s \in Stream : Len(shown'[c][s]) = produced[c][s] ]_vars

\* Each child exits once, in the order of the spawns.
ExitsInOrder == \A i \in 1..Len(exits) : exits[i].child = i

\* As long as each request has run when the one before it was done, the spawns
\* of one object are executed as the serial executor promises: one at a time,
\* in the order of the calls, each answered by one exit, and the next is not
\* started before.
Answers == [i \in 1..Len(exits) |-> [id |-> exits[i].child, how |-> "done"]]
Executor == INSTANCE SerialExecutor
  WITH submitted <- called, busy <- cur, settled <- Answers, open <- TRUE

ImplementsExecutor ==
  Executor!Init /\ [][Executor!Next \/ discipline # "kept"]_(Executor!vars)

\* A spawn ends when its command does, and at the latest after kill(), even if
\* the command prints and runs forever, and also when requests have mixed, but
\* not if they have raced.
SpawnExits ==
  \A c \in Child :
    cur = c /\ (c \in eof \/ killed)
      ~> Len(exits) >= c \/ c \in readFailed \/ discipline = "raced"

\* The comment of index.js, line 29: a task emits a callback event, so that the
\* queue is not moved on twice by one spawn.
OneExitPerSpawn == Len(exits) <= called

\* The test of spawn (examples/sftp_test.js, line 247): when a child exits, the
\* data it got on stdout are what its command printed.
ChildSeesItsOutput ==
  [][ \A c \in eof :
        /\ cur = c /\ exits' # exits
        /\ ~killed /\ c \notin pollFailed \cup readFailed /\ discipline = "kept"
        => seen'[c] = [i \in 1..produced[c]["out"] |-> <<c, i>>] ]_vars
=============================================================================
