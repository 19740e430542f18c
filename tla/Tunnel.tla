------------------------------- MODULE Tunnel -------------------------------
(***************************************************************************)
(* The tunnel: src/tunnel.cc and the Tunnel class of index.js.  connect    *)
(* opens one forwarding channel on a new connection; write sends a buffer; *)
(* read polls the channel and reads what has come.  connect's callback     *)
(* starts a loop that reads, emits 'data' and sets a timer to read again,  *)
(* whether or not the tunnel was connected, and nothing ends it.           *)
(*                                                                         *)
(* The queue is that of TaskQueue, without its timeouts; the keys are in   *)
(* Connection.  libssh, the server and what is behind the tunnel are       *)
(* external.  Data are the numbers of the pieces that come through the     *)
(* channel.  A libssh call on NULL fails, or Spec stops there; one on a     *)
(* channel that was closed or freed, also by init under a running worker,  *)
(* is undefined: it returns anything, and so may all calls that follow.    *)
(***************************************************************************)
EXTENDS Integers, Sequences

CONSTANTS
  BufferSize,  \* SSH_READ_BUFFER_SIZE, in pieces
  SizeRange,   \* how many values a size_t has
  MaxWrite,    \* bound on the length of a write
  MaxData,     \* bound on the pieces that come through one channel
  MaxCalls     \* bound on the user's calls

ASSUME SizeAssumption ==
  BufferSize \in Nat \ {0} /\ MaxWrite \in Nat /\ SizeRange \in Nat
  /\ SizeRange > MaxWrite + 1
ASSUME BoundsAssumption == MaxData \in Nat /\ MaxCalls \in Nat

VARIABLES
  tasks,      \* _tasks
  step,       \* where the head of _tasks is
  timers,     \* the reading loops whose timer is set
  error,      \* m_error is not empty
  size,       \* m_size
  rdata,      \* m_rdata
  channel,    \* m_ssh_channel
  arrived,    \* how many pieces have come through the channel
  taken,      \* how many of them ssh_channel_read returned
  delivered,  \* history: the pieces given to the user since the connect, up to
              \* a call on a freed channel
  calls,      \* history: how many calls the user made
  up,         \* history: the last connect was answered without error, and no
              \* init came after it
  flaws       \* history: what has happened that later steps depend on

js == <<tasks, step, timers>>
members == <<error, size, rdata, channel>>
stream == <<arrived, taken, delivered>>
history == <<calls, up, flaws>>
vars == <<js, members, stream, history>>

Task == [cmd : {"connect"}] \cup [cmd : {"write"}, len : 0..MaxWrite]
        \cup [cmd : {"read"}, loop : BOOLEAN]
Cmd == Head(tasks).cmd
Unset == [i \in 1..BufferSize |-> 0]
Flaw == {"readFailed", "misused", "racing"}

TypeOK ==
  /\ tasks \in Seq(Task)
  /\ step \in {"none", "queued", "running", "returned"}
  /\ step = "none" <=> tasks = <<>>
  /\ timers \in Nat
  /\ error \in BOOLEAN /\ up \in BOOLEAN
  /\ size \in Nat /\ rdata \in [1..BufferSize -> 0..MaxData]
  /\ channel \in {"null", "open", "stale", "freed"}
  /\ arrived \in 0..MaxData /\ taken \in 0..arrived
  /\ calls \in 0..MaxCalls
  /\ flaws \subseteq Flaw

Init ==
  /\ tasks = <<>> /\ step = "none" /\ timers = 0
  /\ error = FALSE /\ size = 0 /\ rdata = Unset /\ channel = "null"
  /\ arrived = 0 /\ taken = 0 /\ delivered = <<>>
  /\ calls = 0 /\ up = FALSE /\ flaws = {}

-----------------------------------------------------------------------------
(* The pieces of the handlers, each preceded by what it would be with a    *)
(* plausible mistake; the mistaken forms are used by no definition.        *)

\* The head of the queue ts, when it is not being executed, is started.
StepAlways(ts) == "queued"
StepAfter(ts) == IF ts = <<>> THEN "none" ELSE "queued"

\* What resetData leaves in m_size.
KeepSize == size
ResetSize == 0

\* m_ssh_channel after freeSessions.
NoChannel == "null"

\* m_error after channel_open_forward failed.
OpenErrorDropped == FALSE
OpenError == TRUE

\* Whether n, what ssh_channel_write returned for len bytes, is an error: an
\* int and a size_t are compared as size_t, so -1 is none.
WriteError(n, len) == n % SizeRange < len

\* Whether the loop goes on after a read.
LoopIfData == IF size = 0 THEN 0 ELSE 1
LoopAlways == 1

\* How much is read when a pieces are there.
ReadAtMost(a) == IF a < BufferSize THEN a ELSE BufferSize

-----------------------------------------------------------------------------
(* The calls.                                                              *)

\* _executeNext on the queue ts: resetData, and the request is made; a write
\* sets m_size to its length.
ExecuteNext(ts) ==
  /\ step' = StepAfter(ts)
  /\ error' = (error /\ ts = <<>>)
  /\ size' = IF ts = <<>> THEN size
             ELSE IF Head(ts).cmd = "write" THEN Head(ts).len ELSE ResetSize

\* _addCommand
AddCommand(t) ==
  /\ tasks' = Append(tasks, t)
  /\ \/ tasks = <<>> /\ ExecuteNext(tasks')
     \/ tasks # <<>> /\ UNCHANGED <<step, error, size>>

Counted == calls < MaxCalls /\ calls' = calls + 1

\* Whether a command is running, or has run and is not answered.
InUse == step \in {"running", "returned"}

\* init is not queued: it frees the channel and the session at once.  What a
\* worker does with them after that is undefined, and so is to free a channel
\* that channel_open_forward's failure has freed.
CallInit ==
  /\ Counted
  /\ channel' = NoChannel
  /\ up' = FALSE
  /\ flaws' = flaws \cup (IF step = "running" \/ channel = "freed" THEN {"misused"} ELSE {})
                    \cup (IF InUse THEN {"racing"} ELSE {})
  /\ UNCHANGED <<js, error, size, rdata, stream>>

\* connect, write and read queue their command.
Call(t) ==
  /\ Counted
  /\ AddCommand(t)
  /\ UNCHANGED <<timers, rdata, channel, stream, up, flaws>>

\* The timer of a reading loop fires.
ReadAgain ==
  /\ timers > 0
  /\ timers' = timers - 1
  /\ AddCommand([cmd |-> "read", loop |-> TRUE])
  /\ UNCHANGED <<rdata, channel, stream, history>>

-----------------------------------------------------------------------------
(* A worker thread.                                                        *)

Take ==
  /\ step = "queued" /\ step' = "running"
  /\ UNCHANGED <<tasks, timers, members, stream, history>>

Return == step' = "returned" /\ UNCHANGED <<tasks, timers, calls, up>>

\* startConnect: a live connection is closed, and its channel with it; then a
\* new connection and its channel are opened, as far as that works.
StartConnect ==
  /\ step = "running" /\ Cmd = "connect"
  /\ \/ /\ error' = TRUE  \* SSHBase::startConnect has failed
        /\ channel' = IF channel = "open" THEN "stale" ELSE channel
        /\ UNCHANGED <<stream, flaws>>
     \/ /\ channel' = "freed"
        /\ error' = OpenError
        /\ UNCHANGED <<stream, flaws>>
     \/ /\ channel' = "open"
        /\ arrived' = 0 /\ taken' = 0 /\ delivered' = <<>>
        /\ flaws' = flaws \ {"readFailed"}
        /\ UNCHANGED error
  /\ Return
  /\ UNCHANGED <<size, rdata>>

\* A call whose results are undefined: on a channel that was closed or freed, or
\* after such a call.
Misuse ==
  IF channel \in {"open", "null"} /\ "misused" \notin flaws THEN {} ELSE {"misused"}

\* startWrite: ssh_channel_write sends the first n bytes, or fails with -1.
StartWrite(n) ==
  /\ step = "running" /\ Cmd = "write" /\ n <= size
  /\ channel = "null" /\ Misuse = {} => n = -1
  /\ error' = (error \/ WriteError(n, size))
  /\ flaws' = flaws \cup Misuse
  /\ Return
  /\ UNCHANGED <<size, rdata, channel, stream>>

\* startRead when pieces are there and ssh_channel_read returns the first n.
StartRead(n) ==
  /\ step = "running" /\ Cmd = "read" /\ channel = "open"
  /\ n \in 1..ReadAtMost(arrived - taken)
  /\ size' = n
  /\ rdata' = [i \in 1..BufferSize |-> IF i <= n THEN taken + i ELSE rdata[i]]
  /\ taken' = taken + n
  /\ Return
  /\ UNCHANGED <<error, channel, arrived, delivered, flaws>>

\* startRead when nothing is there: the poll returns 0 and nothing is read, or
\* a negative number, and the read returns 0 at the end of the stream.
StartReadEmpty ==
  /\ step = "running" /\ Cmd = "read" /\ channel = "open" /\ arrived = taken
  /\ size' \in {size, 0}
  /\ Return
  /\ UNCHANGED <<error, rdata, channel, stream, flaws>>

\* startRead when ssh_channel_read fails, or its results are undefined.
StartReadFails ==
  /\ step = "running" /\ Cmd = "read"
  /\ \/ size' = 0 /\ error' = TRUE /\ UNCHANGED rdata
     \/ /\ Misuse # {}
        /\ size' \in {size} \cup 0..BufferSize
        /\ rdata' = Unset
        /\ UNCHANGED error
  /\ flaws' = flaws \cup {"readFailed"} \cup Misuse
  /\ Return
  /\ UNCHANGED <<channel, stream>>

Worker ==
  \/ StartConnect
  \/ \E n \in -1..MaxWrite : StartWrite(n)
  \/ \E n \in 1..MaxData : StartRead(n)
  \/ StartReadEmpty
  \/ StartReadFails

-----------------------------------------------------------------------------
(* The main thread: onDone and onRead emit 'callback' for the head.        *)

Answered(cmd) ==
  /\ step = "returned" /\ Cmd = cmd
  /\ tasks' = Tail(tasks)
  /\ ExecuteNext(tasks')
  /\ UNCHANGED <<rdata, channel, arrived, taken, calls, flaws>>

\* connect's callback starts a reading loop.
OnConnect ==
  /\ Answered("connect")
  /\ timers' = timers + 1
  /\ up' = (~error /\ "racing" \notin flaws)
  /\ UNCHANGED delivered

OnWrite ==
  /\ Answered("write")
  /\ UNCHANGED <<timers, delivered, up>>

\* onRead gives the user m_size pieces of m_rdata, if m_size is not 0; the loop
\* sets its timer again.
OnRead ==
  /\ Answered("read")
  /\ delivered' = delivered \o SubSeq(rdata, 1, IF "misused" \in flaws THEN 0 ELSE size)
  /\ timers' = timers + (IF Head(tasks).loop THEN LoopAlways ELSE 0)
  /\ UNCHANGED up

Callback == OnConnect \/ OnWrite \/ OnRead

-----------------------------------------------------------------------------
\* What is behind the tunnel sends a piece.
Arrives ==
  /\ channel = "open" /\ arrived < MaxData
  /\ arrived' = arrived + 1
  /\ UNCHANGED <<js, members, taken, delivered, history>>

Next ==
  \/ CallInit
  \/ \E t \in [cmd : {"connect"}] \cup [cmd : {"write"}, len : 0..MaxWrite]
              \cup [cmd : {"read"}, loop : {FALSE}] : Call(t)
  \/ ReadAgain
  \/ Take
  \/ Worker
  \/ Callback
  \/ Arrives

Spec == Init /\ [][Next]_vars

\* libssh's calls return, and node serves its events and its timers.
FairSpec ==
  Spec /\ WF_vars(Take) /\ WF_vars(Worker) /\ WF_vars(Callback) /\ WF_vars(ReadAgain)

-----------------------------------------------------------------------------
(* Properties.                                                             *)

\* The user gets the pieces in the order in which they came, none twice and
\* none left out, though m_rdata and m_size are used again by each command,
\* as long as no call was made on a freed channel.
DataInOrder ==
  "misused" \notin flaws
    => /\ \A i \in 1..Len(delivered) : delivered[i] = i
       /\ step # "returned" => Len(delivered) = taken

\* A connect that is answered without an error leaves an open channel to the
\* commands behind it, up to the next connect or init, also when the connection
\* or the channel of a connect before it had failed.
ChannelDiscipline == up => channel = "open" \/ (InUse /\ Cmd = "connect")

\* What comes through the channel is given to the user, behind whatever writes
\* and reads he has queued, unless a read fails or he calls init or connect.
DataDelivered ==
  \A n \in 1..MaxData :
    up /\ arrived >= n ~>
      Len(delivered) >= n \/ {"readFailed", "misused"} \cap flaws # {} \/ ~up \/ arrived < n
=============================================================================
