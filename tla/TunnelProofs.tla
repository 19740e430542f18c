---------------------------- MODULE TunnelProofs ----------------------------
(***************************************************************************)
(* Safety of the tunnel, for every size of the buffer and any number of    *)
(* calls and pieces of data.                                               *)
(***************************************************************************)
EXTENDS Tunnel, SequenceTheorems, FiniteSetTheorems, FunctionTheorems, TLAPS

QueueOK ==
  /\ tasks \in Seq(Task)
  /\ step \in {"none", "queued", "running", "returned"}
  /\ step = "none" <=> tasks = <<>>

MembersOK ==
  /\ size \in Nat /\ rdata \in [1..BufferSize -> 0..MaxData]
  /\ channel \in {"null", "open", "stale", "freed"}

Booleans == error \in BOOLEAN /\ up \in BOOLEAN

StreamOK ==
  /\ arrived \in 0..MaxData /\ taken \in 0..arrived
  /\ delivered \in Seq(0..MaxData)

CountersOK == timers \in Nat /\ calls \in 0..MaxCalls /\ flaws \subseteq Flaw

\* A read has returned and onRead has not run.
ReadReturned == step = "returned" /\ Cmd = "read"

\* Between a read and its onRead the new pieces are in m_rdata, m_size of them;
\* before a read m_size is 0, whatever a write has put there.
Delivery ==
  "misused" \notin flaws =>
    /\ \A i \in 1..Len(delivered) : delivered[i] = i
    /\ step \in {"queued", "running"} /\ Cmd = "read" => size = 0
    /\ ~ReadReturned => Len(delivered) = taken
    /\ ReadReturned => /\ size <= BufferSize /\ Len(delivered) + size = taken
                       /\ \A i \in 1..size : rdata[i] = Len(delivered) + i

\* A connect that has returned without an error has opened a channel.
Channel ==
  step = "returned" /\ Cmd = "connect" /\ ~error /\ "racing" \notin flaws
    => channel = "open"

IInv ==
  /\ QueueOK /\ MembersOK /\ Booleans /\ StreamOK /\ CountersOK
  /\ Delivery
  /\ Channel
  /\ ChannelDiscipline

-----------------------------------------------------------------------------

LEMMA InitIInv == Init => IInv
<1> SUFFICES ASSUME Init PROVE IInv
  OBVIOUS
<1> USE SizeAssumption, BoundsAssumption DEF Init
<1>1. QueueOK
  BY EmptySeq DEF QueueOK
<1>2. MembersOK
  BY DEF MembersOK, Unset
<1>3. Booleans
  BY Zenon DEF Booleans
<1>4. StreamOK
  BY EmptySeq DEF StreamOK
<1>5. CountersOK
  BY DEF CountersOK
<1>6. Delivery
  BY DEF Delivery, ReadReturned
<1>7. Channel
  BY DEF Channel
<1>8. ChannelDiscipline
  BY DEF ChannelDiscipline
<1> QED
  BY <1>1, <1>2, <1>3, <1>4, <1>5, <1>6, <1>7, <1>8 DEF IInv

\* What is the same for a command that is running or has returned.
SameHead ==
  /\ InUse' => InUse
  /\ InUse => /\ Cmd' = Cmd /\ step' = step /\ error' = error /\ size' = size

\* A command behind the others leaves the head; if there are none it is started.
LEMMA AddCommandStep ==
  ASSUME IInv, NEW t \in Task, AddCommand(t)
  PROVE  /\ QueueOK' /\ size' \in Nat /\ error' \in BOOLEAN
         /\ SameHead
         /\ step' = "queued" /\ Cmd' = "read" => size' = 0 \/ (step = "queued" /\ Cmd = "read" /\ size' = size)
<1> USE DEF IInv, QueueOK
<1>1. tasks' = Append(tasks, t) /\ tasks' \in Seq(Task) /\ tasks' # <<>>
  BY DEF AddCommand
<1>2. CASE tasks = <<>>
  <2>1. Head(tasks') = t
    BY <1>1, <1>2
  <2>2. step' = "queued" /\ error' = FALSE
    BY <1>1, <1>2 DEF AddCommand, ExecuteNext, StepAfter
  <2>3. size' = IF t.cmd = "write" THEN t.len ELSE 0
    BY <1>1, <1>2, <2>1 DEF AddCommand, ExecuteNext, ResetSize
  <2>4. t.cmd = "write" => t.len \in Nat
    BY SizeAssumption DEF Task
  <2> QED
    BY <1>1, <1>2, <2>1, <2>2, <2>3, <2>4 DEF SameHead, InUse, Cmd
<1>3. CASE tasks # <<>>
  <2>1. step' = step /\ error' = error /\ size' = size
    BY <1>3 DEF AddCommand
  <2>2. Head(tasks') = Head(tasks)
    BY <1>1, <1>3
  <2> QED
    BY <1>1, <1>3, <2>1, <2>2 DEF SameHead, InUse, Cmd, MembersOK, Booleans
<1> QED
  BY <1>2, <1>3

\* A command that is queued changes nothing else that the invariant is about.
LEMMA QueuedStep ==
  ASSUME IInv, NEW t \in Task, AddCommand(t), CountersOK',
         UNCHANGED <<rdata, channel, stream, up, flaws>>
  PROVE  IInv'
<1>1. /\ QueueOK' /\ size' \in Nat /\ error' \in BOOLEAN
      /\ SameHead
      /\ step' = "queued" /\ Cmd' = "read"
           => size' = 0 \/ (step = "queued" /\ Cmd = "read" /\ size' = size)
  BY AddCommandStep
<1>2. MembersOK' /\ Booleans' /\ StreamOK'
  BY <1>1 DEF IInv, MembersOK, Booleans, StreamOK, stream
<1>3. ReadReturned' <=> ReadReturned
  BY <1>1 DEF ReadReturned, SameHead, InUse
<1>4. ReadReturned => size' = size
  BY <1>1 DEF ReadReturned, SameHead, InUse
<1>5. step' \in {"queued", "running"} /\ Cmd' = "read" /\ "misused" \notin flaws => size' = 0
  BY <1>1 DEF IInv, Delivery, SameHead, InUse
<1>6. Delivery'
  BY <1>3, <1>4, <1>5 DEF IInv, Delivery, stream
<1>7. Channel' /\ ChannelDiscipline'
  BY <1>1 DEF IInv, Channel, ChannelDiscipline, SameHead, InUse
<1> QED
  BY <1>1, <1>2, <1>6, <1>7 DEF IInv

LEMMA CallInitStep == IInv /\ CallInit => IInv'
<1> SUFFICES ASSUME IInv, CallInit PROVE IInv'
  OBVIOUS
<1>1. /\ calls < MaxCalls /\ calls' = calls + 1
      /\ channel' = "null" /\ up' = FALSE
      /\ flaws \subseteq flaws'
      /\ InUse => "racing" \in flaws'
      /\ flaws' \subseteq flaws \cup {"misused", "racing"}
      /\ UNCHANGED <<js, error, size, rdata, stream>>
  BY DEF CallInit, Counted, NoChannel
<1>2. QueueOK' /\ MembersOK' /\ StreamOK'
  BY <1>1 DEF IInv, QueueOK, MembersOK, StreamOK, js, stream
<1>3. Booleans'
  BY <1>1 DEF IInv, Booleans
<1>4. CountersOK'
  BY <1>1, BoundsAssumption DEF IInv, CountersOK, Flaw, js
<1>5. Cmd' = Cmd /\ step' = step
  BY <1>1 DEF Cmd, js
<1>6. Delivery'
  BY <1>1, <1>5 DEF IInv, Delivery, ReadReturned, stream
<1>7. Channel' /\ ChannelDiscipline'
  BY <1>1, <1>5 DEF IInv, Channel, ChannelDiscipline, InUse
<1> QED
  BY <1>2, <1>3, <1>4, <1>6, <1>7 DEF IInv

LEMMA CallStep ==
  ASSUME IInv, NEW t \in Task, Call(t)
  PROVE  IInv'
<1>1. AddCommand(t) /\ UNCHANGED <<timers, rdata, channel, stream, up, flaws>>
  BY DEF Call
<1>2. CountersOK'
  BY <1>1, BoundsAssumption DEF Call, Counted, IInv, CountersOK
<1> QED
  BY <1>1, <1>2, QueuedStep

LEMMA ReadAgainStep == IInv /\ ReadAgain => IInv'
<1> SUFFICES ASSUME IInv, ReadAgain PROVE IInv'
  OBVIOUS
<1> DEFINE t == [cmd |-> "read", loop |-> TRUE]
<1>1. t \in Task /\ AddCommand(t) /\ UNCHANGED <<rdata, channel, stream, up, flaws>>
  BY DEF ReadAgain, Task, history
<1>2. CountersOK'
  BY DEF ReadAgain, IInv, CountersOK, history
<1> HIDE DEF t
<1> QED
  BY <1>1, <1>2, QueuedStep

LEMMA TakeStep == IInv /\ Take => IInv'
<1> SUFFICES ASSUME IInv, Take PROVE IInv'
  OBVIOUS
<1>1. /\ step = "queued" /\ step' = "running" /\ Cmd' = Cmd
      /\ UNCHANGED <<tasks, timers, error, size, rdata, channel, arrived, taken,
                     delivered, calls, up, flaws>>
  BY DEF Take, members, stream, history, Cmd
<1>2. QueueOK' /\ MembersOK' /\ Booleans' /\ StreamOK' /\ CountersOK'
  BY <1>1 DEF IInv, QueueOK, MembersOK, Booleans, StreamOK, CountersOK
<1>3. Delivery'
  BY <1>1 DEF IInv, Delivery, ReadReturned
<1>4. Channel' /\ ChannelDiscipline'
  BY <1>1 DEF IInv, Channel, ChannelDiscipline, InUse
<1> QED
  BY <1>2, <1>3, <1>4 DEF IInv

\* What the functions of a worker have in common.
LEMMA ReturnStep ==
  ASSUME IInv, step = "running", Return
  PROVE  QueueOK' /\ Cmd' = Cmd /\ step' = "returned"
         /\ UNCHANGED <<tasks, timers, calls, up>>
BY DEF IInv, QueueOK, Return, Cmd

LEMMA StartConnectStep == IInv /\ StartConnect => IInv'
<1> SUFFICES ASSUME IInv, StartConnect PROVE IInv'
  OBVIOUS
<1>1. /\ QueueOK' /\ Cmd = "connect" /\ Cmd' = Cmd
      /\ step = "running" /\ step' = "returned"
      /\ UNCHANGED <<tasks, timers, calls, up, size, rdata>>
  BY ReturnStep DEF StartConnect
<1>2. /\ \/ UNCHANGED <<arrived, taken, delivered>>
         \/ arrived' = 0 /\ taken' = 0 /\ delivered' = <<>>
      /\ error' \in BOOLEAN
      /\ channel' \in {"null", "open", "stale", "freed"}
      /\ "misused" \in flaws' <=> "misused" \in flaws
      /\ flaws' \subseteq flaws
      /\ ~error' => channel' = "open"
  BY DEF StartConnect, OpenError, stream, IInv, Booleans, MembersOK
<1>3. MembersOK' /\ Booleans'
  BY <1>1, <1>2 DEF IInv, MembersOK, Booleans
<1>4. StreamOK'
  <2>1. CASE UNCHANGED <<arrived, taken, delivered>>
    BY <2>1 DEF IInv, StreamOK
  <2>2. CASE arrived' = 0 /\ taken' = 0 /\ delivered' = <<>>
    <3>1. delivered' \in Seq(0..MaxData)
      BY <2>2, EmptySeq
    <3>2. arrived' \in 0..MaxData /\ taken' \in 0..arrived'
      BY <2>2, BoundsAssumption
    <3> QED
      BY <3>1, <3>2 DEF StreamOK
  <2> QED
    BY <1>2, <2>1, <2>2
<1>5. CountersOK'
  BY <1>1, <1>2 DEF IInv, CountersOK, Flaw
<1>6. Delivery'
  BY <1>1, <1>2 DEF IInv, Delivery, ReadReturned
<1>7. Channel' /\ ChannelDiscipline'
  BY <1>1, <1>2 DEF IInv, Channel, ChannelDiscipline, InUse
<1> QED
  BY <1>1, <1>3, <1>4, <1>5, <1>6, <1>7 DEF IInv

\* A write or a read keeps the channel, and adds at most these flaws.
LEMMA ChannelKept ==
  ASSUME IInv, step = "running", Cmd # "connect", Return, channel' = channel,
         flaws \subseteq flaws', flaws' \subseteq flaws \cup {"readFailed", "misused"}
  PROVE  Channel' /\ ChannelDiscipline' /\ CountersOK'
<1>1. Cmd' = Cmd /\ step' = "returned" /\ UNCHANGED <<tasks, timers, calls, up>>
  BY ReturnStep
<1>2. Channel' /\ ChannelDiscipline'
  BY <1>1 DEF IInv, Channel, ChannelDiscipline, InUse
<1>3. CountersOK'
  BY <1>1 DEF IInv, CountersOK, Flaw
<1> QED
  BY <1>2, <1>3

LEMMA StartWriteStep ==
  ASSUME IInv, NEW n \in -1..MaxWrite, StartWrite(n)
  PROVE  IInv'
<1>1. /\ step = "running" /\ Cmd = "write" /\ Return /\ channel' = channel
      /\ flaws' = flaws \cup Misuse
      /\ UNCHANGED <<size, rdata, arrived, taken, delivered>>
  BY DEF StartWrite, stream
<1>2. QueueOK' /\ Cmd' = Cmd /\ step' = "returned" /\ up' = up
  BY <1>1, ReturnStep
<1>3. flaws \subseteq flaws' /\ flaws' \subseteq flaws \cup {"readFailed", "misused"}
  BY <1>1 DEF Misuse
<1>4. Channel' /\ ChannelDiscipline' /\ CountersOK'
  BY <1>1, <1>3, ChannelKept
<1>5. error' \in BOOLEAN
  BY Zenon DEF StartWrite
<1>6. MembersOK' /\ Booleans' /\ StreamOK'
  BY <1>1, <1>2, <1>5 DEF IInv, MembersOK, Booleans, StreamOK
<1>7. Delivery'
  BY <1>1, <1>2, <1>3 DEF IInv, Delivery, ReadReturned
<1> QED
  BY <1>2, <1>4, <1>6, <1>7 DEF IInv

LEMMA StartReadStep ==
  ASSUME IInv, NEW n \in 1..MaxData, StartRead(n)
  PROVE  IInv'
<1>1. /\ step = "running" /\ Cmd = "read" /\ Return
      /\ size' = n /\ taken' = taken + n
      /\ rdata' = [i \in 1..BufferSize |-> IF i <= n THEN taken + i ELSE rdata[i]]
      /\ UNCHANGED <<error, channel, arrived, delivered, flaws>>
  BY DEF StartRead
<1>2. QueueOK' /\ Cmd' = Cmd /\ step' = "returned" /\ up' = up
  BY <1>1, ReturnStep
<1>3. Channel' /\ ChannelDiscipline' /\ CountersOK'
  BY <1>1, ChannelKept
<1>4. /\ arrived \in 0..MaxData /\ taken \in 0..arrived
      /\ n \in Nat /\ n <= BufferSize /\ n <= arrived - taken
  BY SizeAssumption, BoundsAssumption DEF StartRead, ReadAtMost, IInv, StreamOK
<1>5. \A i \in 1..n : taken + i \in 0..MaxData
  BY <1>4, BoundsAssumption
<1>6. rdata' \in [1..BufferSize -> 0..MaxData]
  <2>1. rdata \in [1..BufferSize -> 0..MaxData]
    BY DEF IInv, MembersOK
  <2>2. ASSUME NEW i \in 1..BufferSize
        PROVE  (IF i <= n THEN taken + i ELSE rdata[i]) \in 0..MaxData
    <3>1. CASE i <= n
      <4>1. i \in 1..n
        BY <1>4, <3>1
      <4> QED
        BY <1>5, <3>1, <4>1
    <3>2. CASE ~(i <= n)
      BY <2>1, <3>2
    <3> QED
      BY <3>1, <3>2
  <2> QED
    BY ONLY <1>1, <2>2
<1>7. MembersOK' /\ Booleans'
  BY <1>1, <1>2, <1>4, <1>6 DEF IInv, MembersOK, Booleans
<1>8. StreamOK'
  BY <1>1, <1>4, BoundsAssumption DEF IInv, StreamOK
<1>9. Delivery'
  <2> SUFFICES ASSUME "misused" \notin flaws
               PROVE  /\ \A i \in 1..Len(delivered') : delivered'[i] = i
                      /\ size' <= BufferSize /\ Len(delivered') + size' = taken'
                      /\ \A i \in 1..size' : rdata'[i] = Len(delivered') + i
    BY <1>1, <1>2 DEF Delivery, ReadReturned
  <2>1. Len(delivered) = taken /\ \A i \in 1..Len(delivered) : delivered[i] = i
    BY <1>1 DEF IInv, Delivery, ReadReturned
  <2>2. \A i \in 1..n : rdata'[i] = taken + i
    BY <1>1, <1>4, SizeAssumption
  <2> QED
    BY <1>1, <1>4, <2>1, <2>2
<1> QED
  BY <1>2, <1>3, <1>7, <1>8, <1>9 DEF IInv

\* A read that gets nothing.
LEMMA NothingReadStep == IInv /\ (StartReadEmpty \/ StartReadFails) => IInv'
<1> SUFFICES ASSUME IInv, StartReadEmpty \/ StartReadFails PROVE IInv'
  OBVIOUS
<1>1. /\ step = "running" /\ Cmd = "read" /\ Return /\ channel' = channel
      /\ flaws \subseteq flaws' /\ flaws' \subseteq flaws \cup {"readFailed", "misused"}
      /\ UNCHANGED <<arrived, taken, delivered>>
  BY DEF StartReadEmpty, StartReadFails, Misuse, stream
<1>2. QueueOK' /\ Cmd' = Cmd /\ step' = "returned" /\ up' = up
  BY <1>1, ReturnStep
<1>3. Channel' /\ ChannelDiscipline' /\ CountersOK'
  BY <1>1, ChannelKept
<1>4. size' \in Nat /\ rdata' \in [1..BufferSize -> 0..MaxData] /\ error' \in BOOLEAN
  <2>1. size \in Nat /\ rdata \in [1..BufferSize -> 0..MaxData] /\ error \in BOOLEAN
    BY DEF IInv, MembersOK, Booleans
  <2>2. Unset \in [1..BufferSize -> 0..MaxData]
    BY BoundsAssumption DEF Unset
  <2>3. size' \in {size, 0} \cup 0..BufferSize /\ rdata' \in {rdata, Unset} /\ error' \in {error, TRUE}
    BY Zenon DEF StartReadEmpty, StartReadFails, stream
  <2>4. size' \in Nat
    BY <2>1, <2>3, SizeAssumption
  <2> QED
    BY <2>1, <2>2, <2>3, <2>4
<1>5. MembersOK' /\ Booleans' /\ StreamOK'
  BY <1>1, <1>2, <1>4 DEF IInv, MembersOK, Booleans, StreamOK
<1>6. "misused" \notin flaws' => "misused" \notin flaws /\ (size' = 0 \/ size' = size)
  BY <1>1 DEF StartReadEmpty, StartReadFails, Misuse
<1>7. Delivery'
  <2> SUFFICES ASSUME "misused" \notin flaws'
               PROVE  /\ \A i \in 1..Len(delivered') : delivered'[i] = i
                      /\ size' <= BufferSize /\ Len(delivered') + size' = taken'
                      /\ \A i \in 1..size' : rdata'[i] = Len(delivered') + i
    BY <1>2, <1>1 DEF Delivery, ReadReturned
  <2>1. /\ Len(delivered) = taken /\ size = 0
        /\ \A i \in 1..Len(delivered) : delivered[i] = i
    BY <1>1, <1>6 DEF IInv, Delivery, ReadReturned
  <2>2. size' = 0
    BY <1>6, <2>1
  <2>3. taken \in Nat
    BY BoundsAssumption DEF IInv, StreamOK
  <2> QED
    BY <1>1, <2>1, <2>2, <2>3, SizeAssumption
<1> QED
  BY <1>2, <1>3, <1>5, <1>7 DEF IInv

\* The head has been answered and the next command, if there is one, is queued.
LEMMA AnsweredStep ==
  ASSUME IInv, NEW cmd \in {"connect", "write", "read"}, Answered(cmd)
  PROVE  /\ QueueOK' /\ MembersOK' /\ error' \in BOOLEAN
         /\ step' \in {"none", "queued"}
         /\ step' = "queued" /\ Cmd' = "read" => size' = 0
<1>1. /\ tasks' = Tail(tasks) /\ ExecuteNext(tasks') /\ rdata' = rdata /\ channel' = channel
      /\ tasks # <<>> /\ tasks \in Seq(Task)
  BY DEF Answered, IInv, QueueOK
<1>2. tasks' \in Seq(Task)
  BY <1>1
<1>3. step' = IF tasks' = <<>> THEN "none" ELSE "queued"
  BY <1>1 DEF ExecuteNext, StepAfter
<1>4. error' \in BOOLEAN
  BY <1>1, Zenon DEF ExecuteNext
<1>5. tasks' # <<>> => size' = IF Cmd' = "write" THEN Head(tasks').len ELSE 0
  BY <1>1 DEF ExecuteNext, ResetSize, Cmd
<1>6. tasks' # <<>> /\ Cmd' = "write" => Head(tasks').len \in Nat
  <2> SUFFICES ASSUME tasks' # <<>>, Cmd' = "write" PROVE Head(tasks').len \in Nat
    OBVIOUS
  <2>1. Head(tasks') \in Task
    BY <1>2
  <2> QED
    BY <2>1, SizeAssumption DEF Task, Cmd
<1>7. tasks' = <<>> => size' = size
  BY <1>1 DEF ExecuteNext
<1>8. MembersOK'
  BY <1>1, <1>5, <1>6, <1>7 DEF IInv, MembersOK
<1> QED
  BY <1>2, <1>3, <1>4, <1>5, <1>8 DEF QueueOK

LEMMA OnDoneStep == IInv /\ (OnConnect \/ OnWrite) => IInv'
<1> SUFFICES ASSUME IInv, OnConnect \/ OnWrite PROVE IInv'
  OBVIOUS
<1>1. PICK cmd \in {"connect", "write"} :
        /\ step = "returned" /\ Cmd = cmd /\ Answered(cmd)
        /\ cmd = "write" => up' = up /\ timers' = timers
        /\ cmd = "connect" => /\ up' = (~error /\ "racing" \notin flaws)
                              /\ timers' = timers + 1
  BY DEF OnConnect, OnWrite, Answered
<1>2. UNCHANGED <<channel, arrived, taken, delivered, calls, flaws>>
  BY DEF OnConnect, OnWrite, Answered
<1>3. /\ QueueOK' /\ MembersOK' /\ error' \in BOOLEAN
      /\ step' \in {"none", "queued"}
      /\ step' = "queued" /\ Cmd' = "read" => size' = 0
  BY <1>1, AnsweredStep
<1>4. up' \in BOOLEAN
  <2>1. CASE cmd = "write"
    BY <1>1, <2>1 DEF IInv, Booleans
  <2>2. CASE cmd = "connect"
    BY <1>1, <2>2, Zenon
  <2> QED
    BY <2>1, <2>2
<1>5. up' => channel = "open"
  <2>1. CASE cmd = "write"
    BY <1>1, <2>1 DEF IInv, ChannelDiscipline
  <2>2. CASE cmd = "connect"
    <3>1. up' => ~error /\ "racing" \notin flaws
      BY <1>1, <2>2, Zenon
    <3> QED
      BY <1>1, <2>2, <3>1 DEF IInv, Channel
  <2> QED
    BY <2>1, <2>2
<1>6. Booleans' /\ StreamOK' /\ CountersOK'
  BY <1>1, <1>2, <1>3, <1>4 DEF IInv, Booleans, StreamOK, CountersOK
<1>7. Delivery'
  BY <1>1, <1>2, <1>3 DEF IInv, Delivery, ReadReturned
<1>8. Channel' /\ ChannelDiscipline'
  BY <1>2, <1>3, <1>5 DEF IInv, Channel, ChannelDiscipline
<1> QED
  BY <1>3, <1>6, <1>7, <1>8 DEF IInv

LEMMA OnReadStep == IInv /\ OnRead => IInv'
<1> SUFFICES ASSUME IInv, OnRead PROVE IInv'
  OBVIOUS
<1> DEFINE n == IF "misused" \in flaws THEN 0 ELSE size
           new == SubSeq(rdata, 1, n)
<1>1. /\ step = "returned" /\ Cmd = "read" /\ Answered("read")
      /\ delivered' = delivered \o new
      /\ timers' \in {timers, timers + 1} /\ up' = up
      /\ UNCHANGED <<channel, arrived, taken, calls, flaws>>
  BY DEF OnRead, Answered, LoopAlways, IInv, CountersOK
<1>2. /\ QueueOK' /\ MembersOK' /\ error' \in BOOLEAN
      /\ step' \in {"none", "queued"}
      /\ step' = "queued" /\ Cmd' = "read" => size' = 0
  BY <1>1, AnsweredStep
<1>3. n \in Nat /\ n <= BufferSize
  BY <1>1, SizeAssumption DEF IInv, Delivery, MembersOK, ReadReturned
<1> HIDE DEF n
<1>4. /\ new \in Seq(0..MaxData) /\ Len(new) = n
      /\ \A i \in 1..n : new[i] = rdata[i]
  <2>1. \A i \in 1..n : rdata[i] \in 0..MaxData
    BY <1>3, SizeAssumption DEF IInv, MembersOK
  <2> QED
    BY <1>3, <2>1, SubSeqProperties
<1> HIDE DEF new
<1>5. /\ delivered' \in Seq(0..MaxData) /\ Len(delivered') = Len(delivered) + n
      /\ \A i \in 1..Len(delivered) : delivered'[i] = delivered[i]
      /\ \A i \in 1..n : delivered'[Len(delivered) + i] = rdata[i]
  <2>1. delivered \in Seq(0..MaxData) /\ Len(delivered) \in Nat
    BY DEF IInv, StreamOK
  <2>2. /\ delivered' \in Seq(0..MaxData) /\ Len(delivered') = Len(delivered) + n
        /\ \A i \in 1..Len(delivered) + n :
             delivered'[i] = IF i <= Len(delivered) THEN delivered[i]
                                                    ELSE new[i - Len(delivered)]
    <3> DEFINE S == 0..MaxData
    <3>1. delivered \in Seq(S) /\ new \in Seq(S) /\ Len(new) = n
      BY <1>4, <2>1
    <3> HIDE DEF S
    <3>2. /\ delivered \o new \in Seq(S)
          /\ Len(delivered \o new) = Len(delivered) + n
          /\ \A i \in 1..Len(delivered) + n :
               (delivered \o new)[i] = IF i <= Len(delivered) THEN delivered[i]
                                                              ELSE new[i - Len(delivered)]
      BY ONLY <3>1, ConcatProperties
    <3> QED
      BY <1>1, <3>2 DEF S
  <2>3. ASSUME NEW i \in 1..Len(delivered) PROVE delivered'[i] = delivered[i]
    BY <1>3, <2>1, <2>2
  <2>4. ASSUME NEW i \in 1..n PROVE delivered'[Len(delivered) + i] = rdata[i]
    <3> DEFINE k == Len(delivered) + i
    <3>1. k \in 1..Len(delivered) + n /\ ~(k <= Len(delivered)) /\ k - Len(delivered) = i
      BY <1>3, <2>1
    <3> HIDE DEF k
    <3>2. delivered'[k] = new[i]
      BY <2>2, <3>1
    <3> QED
      BY <1>4, <3>2 DEF k
  <2> QED
    BY <2>2, <2>3, <2>4
<1>6. StreamOK' /\ CountersOK'
  BY <1>1, <1>5 DEF IInv, StreamOK, CountersOK
<1>7. Booleans'
  BY <1>1, <1>2 DEF IInv, Booleans
<1>8. Delivery'
  <2> SUFFICES ASSUME "misused" \notin flaws
               PROVE  /\ \A i \in 1..Len(delivered') : delivered'[i] = i
                      /\ Len(delivered') = taken
    BY <1>1, <1>2 DEF Delivery, ReadReturned
  <2>1. /\ \A i \in 1..Len(delivered) : delivered[i] = i
        /\ n = size /\ Len(delivered) + n = taken
        /\ \A i \in 1..n : rdata[i] = Len(delivered) + i
    BY <1>1 DEF IInv, Delivery, ReadReturned, n
  <2>2. Len(delivered) \in Nat
    BY DEF IInv, StreamOK
  <2>3. ASSUME NEW i \in 1..Len(delivered') PROVE delivered'[i] = i
    <3>1. CASE i <= Len(delivered)
      BY <1>5, <2>1, <2>2, <3>1
    <3>2. CASE i > Len(delivered)
      <4>1. PICK j \in 1..n : i = Len(delivered) + j
        <5>1. i - Len(delivered) \in 1..n /\ i = Len(delivered) + (i - Len(delivered))
          BY <1>3, <1>5, <2>2, <3>2
        <5> QED
          BY <5>1
      <4> QED
        BY <1>5, <2>1, <4>1
    <3> QED
      BY <1>3, <1>5, <2>2, <3>1, <3>2
  <2> QED
    BY <1>5, <2>1, <2>3
<1>9. Channel' /\ ChannelDiscipline'
  BY <1>1, <1>2 DEF IInv, Channel, ChannelDiscipline, InUse
<1> QED
  BY <1>2, <1>6, <1>7, <1>8, <1>9 DEF IInv

LEMMA ArrivesStep == IInv /\ Arrives => IInv'
<1> SUFFICES ASSUME IInv, Arrives PROVE IInv'
  OBVIOUS
<1>1. /\ arrived < MaxData /\ arrived' = arrived + 1 /\ Cmd' = Cmd
      /\ UNCHANGED <<tasks, step, timers, error, size, rdata, channel, taken,
                     delivered, calls, up, flaws>>
  BY DEF Arrives, js, members, history, Cmd
<1>2. StreamOK'
  BY <1>1, BoundsAssumption DEF IInv, StreamOK
<1>3. QueueOK' /\ MembersOK' /\ Booleans' /\ CountersOK'
  BY <1>1 DEF IInv, QueueOK, MembersOK, Booleans, CountersOK
<1>4. Delivery'
  BY <1>1 DEF IInv, Delivery, ReadReturned
<1>5. Channel' /\ ChannelDiscipline'
  BY <1>1 DEF IInv, Channel, ChannelDiscipline, InUse
<1> QED
  BY <1>2, <1>3, <1>4, <1>5 DEF IInv

LEMMA NextIInv == IInv /\ [Next]_vars => IInv'
<1> SUFFICES ASSUME IInv, [Next]_vars PROVE IInv'
  OBVIOUS
<1>1. CASE Next
  <2>1. CASE CallInit
    BY <2>1, CallInitStep
  <2>2. ASSUME NEW t \in [cmd : {"connect"}] \cup [cmd : {"write"}, len : 0..MaxWrite]
                         \cup [cmd : {"read"}, loop : {FALSE}],
               Call(t)
        PROVE  IInv'
    <3>1. t \in Task
      BY DEF Task
    <3> QED
      BY <2>2, <3>1, CallStep
  <2>3. CASE ReadAgain \/ Take \/ Arrives
    BY <2>3, ReadAgainStep, TakeStep, ArrivesStep
  <2>4. CASE Worker
    BY <2>4, StartConnectStep, StartWriteStep, StartReadStep, NothingReadStep DEF Worker
  <2>5. CASE Callback
    BY <2>5, OnDoneStep, OnReadStep DEF Callback
  <2> QED
    BY <1>1, <2>1, <2>2, <2>3, <2>4, <2>5 DEF Next
<1>2. CASE UNCHANGED vars
  <2>1. /\ UNCHANGED <<tasks, step, timers, error, size, rdata, channel, arrived, taken,
                       delivered, calls, up, flaws>>
        /\ Cmd' = Cmd
    BY <1>2 DEF vars, js, members, stream, history, Cmd
  <2>2. QueueOK' /\ MembersOK' /\ Booleans' /\ StreamOK' /\ CountersOK'
    BY <2>1 DEF IInv, QueueOK, MembersOK, Booleans, StreamOK, CountersOK
  <2>3. Delivery'
    BY <2>1 DEF IInv, Delivery, ReadReturned
  <2>4. Channel' /\ ChannelDiscipline'
    BY <2>1 DEF IInv, Channel, ChannelDiscipline, InUse
  <2> QED
    BY <2>2, <2>3, <2>4 DEF IInv
<1> QED
  BY <1>1, <1>2

\* The invariant that the theorems rest on.
THEOREM Invariance == Spec => []IInv
<1>1. Init => IInv
  BY InitIInv
<1>2. IInv /\ [Next]_vars => IInv'
  BY NextIInv
<1> QED
  BY <1>1, <1>2, PTL DEF Spec

\* The variables of the tunnel and its queue keep their types, for any buffer,
\* any number of calls and any amount of data.
THEOREM TypeCorrect == Spec => []TypeOK
<1>1. IInv => TypeOK
  BY DEF IInv, QueueOK, MembersOK, Booleans, StreamOK, CountersOK, TypeOK
<1> QED
  BY <1>1, Invariance, PTL

\* The user gets what came through the channel in order and complete, whatever
\* he writes and reads besides the reading loops, and however often he connects.
THEOREM DataOrdered == Spec => []DataInOrder
<1>1. IInv => DataInOrder
  BY DEF IInv, Delivery, ReadReturned, DataInOrder
<1> QED
  BY <1>1, Invariance, PTL

\* After a connect without an error the channel is open to the commands behind it,
\* up to the next connect or init, whatever failed before that connect.
THEOREM ChannelsKept == Spec => []ChannelDiscipline
<1>1. IInv => ChannelDiscipline
  BY DEF IInv
<1> QED
  BY <1>1, Invariance, PTL
-----------------------------------------------------------------------------
(* The reading loops.                                                      *)

IsLoop(t) == t.cmd = "read" /\ t.loop
LoopReads == {i \in 1..Len(tasks) : IsLoop(tasks[i])}

\* A loop is waiting for its timer, or has its read in the queue.
Loops == timers + Cardinality(LoopReads)

LEMMA LoopReadsFinite ==
  ASSUME QueueOK
  PROVE  IsFiniteSet(LoopReads) /\ Cardinality(LoopReads) \in Nat
<1>1. Len(tasks) \in Nat
  BY DEF QueueOK
<1>2. IsFiniteSet(1..Len(tasks)) /\ LoopReads \in SUBSET (1..Len(tasks))
  BY <1>1, FS_Interval DEF LoopReads
<1>3. IsFiniteSet(LoopReads)
  BY <1>2, FS_Subset
<1> QED
  BY <1>3, FS_CardinalityType

\* A command that is queued counts if it is the read of a loop.
LEMMA LoopQueued ==
  ASSUME QueueOK, NEW t \in Task, tasks' = Append(tasks, t)
  PROVE  Cardinality(LoopReads') = Cardinality(LoopReads) + IF IsLoop(t) THEN 1 ELSE 0
<1>1. /\ tasks \in Seq(Task) /\ Len(tasks) \in Nat
      /\ Len(tasks') = Len(tasks) + 1 /\ tasks'[Len(tasks) + 1] = t
      /\ \A i \in 1..Len(tasks) : tasks'[i] = tasks[i]
  BY DEF QueueOK
<1>2. LoopReads' = {i \in 1..Len(tasks) + 1 : IsLoop(tasks'[i])}
  BY <1>1 DEF LoopReads, IsLoop
<1>3. Len(tasks) + 1 \notin LoopReads
  BY <1>1 DEF LoopReads
<1>4. CASE IsLoop(t)
  <2>1. LoopReads' = LoopReads \cup {Len(tasks) + 1}
    BY <1>1, <1>2, <1>4 DEF LoopReads
  <2> QED
    BY <1>3, <1>4, <2>1, LoopReadsFinite, FS_AddElement
<1>5. CASE ~IsLoop(t)
  <2>1. LoopReads' = LoopReads
    BY <1>1, <1>2, <1>5 DEF LoopReads
  <2> QED
    BY <1>5, <2>1, LoopReadsFinite
<1> QED
  BY <1>4, <1>5

\* The head leaves the queue, and the others move up.
LEMMA LoopUnqueued ==
  ASSUME QueueOK, tasks # <<>>, tasks' = Tail(tasks)
  PROVE  /\ Cardinality(LoopReads') \in Nat
         /\ Cardinality(LoopReads') =
              Cardinality(LoopReads) - IF IsLoop(Head(tasks)) THEN 1 ELSE 0
<1> DEFINE rest == LoopReads \ {1}
           up1 == [i \in rest |-> i - 1]
<1>1. /\ tasks \in Seq(Task) /\ Len(tasks) \in Nat \ {0} /\ Head(tasks) = tasks[1]
      /\ Len(tasks') = Len(tasks) - 1
      /\ \A i \in 1..Len(tasks) - 1 : tasks'[i] = tasks[i + 1]
  BY EmptySeq DEF QueueOK
<1>2. LoopReads' = {i \in 1..Len(tasks) - 1 : IsLoop(tasks[i + 1])}
  BY <1>1 DEF LoopReads, IsLoop
<1>3. rest = {i \in 2..Len(tasks) : IsLoop(tasks[i])}
  BY <1>1 DEF LoopReads
<1>4. up1 \in Bijection(rest, LoopReads')
  <2>1. ASSUME NEW i \in rest PROVE i - 1 \in LoopReads'
    <3>1. i \in 2..Len(tasks) /\ IsLoop(tasks[i])
      BY <1>3
    <3>2. i - 1 \in 1..Len(tasks) - 1 /\ (i - 1) + 1 = i
      BY <1>1, <3>1
    <3> QED
      BY <1>2, <3>1, <3>2
  <2>2. ASSUME NEW j \in LoopReads' PROVE j + 1 \in rest /\ (j + 1) - 1 = j
    <3>1. j \in 1..Len(tasks) - 1 /\ IsLoop(tasks[j + 1])
      BY <1>2
    <3>2. j + 1 \in 2..Len(tasks) /\ (j + 1) - 1 = j
      BY <1>1, <3>1
    <3> QED
      BY <1>3, <3>1, <3>2
  <2>3. ASSUME NEW i \in rest, NEW j \in rest, i - 1 = j - 1 PROVE i = j
    BY <1>1, <1>3, <2>3
  <2> HIDE DEF rest
  <2>4. up1 \in [rest -> LoopReads'] /\ \A i \in rest : up1[i] = i - 1
    BY <2>1
  <2>5. \A i, j \in rest : up1[i] = up1[j] => i = j
    BY <2>3, <2>4
  <2>6. \A j \in LoopReads' : \E i \in rest : up1[i] = j
    BY <2>2, <2>4
  <2> HIDE DEF up1
  <2> QED
    BY <2>4, <2>5, <2>6, Fun_IsBij
<1>5. IsFiniteSet(rest)
      /\ Cardinality(rest) = Cardinality(LoopReads) - IF IsLoop(Head(tasks)) THEN 1 ELSE 0
  <2>1. 1 \in LoopReads <=> IsLoop(Head(tasks))
    BY <1>1 DEF LoopReads
  <2> QED
    BY <2>1, LoopReadsFinite, FS_RemoveElement
<1>6. ExistsBijection(rest, LoopReads')
  BY <1>4 DEF ExistsBijection
<1> HIDE DEF rest
<1> QED
  BY <1>5, <1>6, FS_Bijection, FS_CardinalityType
\* Every connect that is answered, with an error or without, starts one more
\* reading loop, and no step ends one: neither an error of its read, nor init,
\* nor the next connect (index.js, 496-516).
THEOREM LoopsNeverEnd ==
  Spec => [][Loops' = Loops + IF OnConnect THEN 1 ELSE 0]_vars
<1> DEFINE A == Loops' = Loops + IF OnConnect THEN 1 ELSE 0
           Others == tasks' = tasks /\ timers' = timers
<1>1. ASSUME IInv, Next PROVE A
  <2>1. /\ QueueOK /\ timers \in Nat /\ tasks \in Seq(Task)
        /\ Cardinality(LoopReads) \in Nat
    BY <1>1, LoopReadsFinite DEF IInv, CountersOK, QueueOK
  <2>2. CASE Others
    <3>1. Loops' = Loops
      BY <2>2 DEF Loops, LoopReads, IsLoop
    <3>2. ~OnConnect
      BY <2>1, <2>2 DEF OnConnect
    <3> QED
      BY <2>1, <3>1, <3>2 DEF Loops
  <2>3. CallInit \/ Take \/ Worker \/ Arrives => Others
    BY DEF CallInit, Take, Worker, Arrives, StartConnect, StartWrite, StartRead,
           StartReadEmpty, StartReadFails, Return, js
  <2>4. ASSUME NEW t \in Task, ~IsLoop(t), Call(t) PROVE A
    <3>1. tasks' = Append(tasks, t) /\ timers' = timers /\ ~OnConnect
      BY <2>1, <2>4 DEF Call, AddCommand, OnConnect
    <3>2. Cardinality(LoopReads') = Cardinality(LoopReads)
      BY <2>1, <2>4, <3>1, LoopQueued
    <3> QED
      BY <2>1, <3>1, <3>2 DEF Loops
  <2>5. CASE ReadAgain
    <3> DEFINE t == [cmd |-> "read", loop |-> TRUE]
    <3>1. tasks' = Append(tasks, t) /\ timers' = timers - 1 /\ ~OnConnect
      BY <2>1, <2>5 DEF ReadAgain, AddCommand, OnConnect
    <3>2. t \in Task /\ IsLoop(t)
      BY DEF Task, IsLoop
    <3> HIDE DEF t
    <3>3. Cardinality(LoopReads') = Cardinality(LoopReads) + 1
      BY <2>1, <3>1, <3>2, LoopQueued
    <3> QED
      BY <2>1, <3>1, <3>3 DEF Loops
  <2>6. CASE Callback
    <3>1. tasks # <<>> /\ tasks' = Tail(tasks)
      BY <2>1, <2>6 DEF Callback, OnConnect, OnWrite, OnRead, Answered, IInv, QueueOK
    <3>2. /\ Cardinality(LoopReads') \in Nat
          /\ Cardinality(LoopReads') =
               Cardinality(LoopReads) - IF IsLoop(Head(tasks)) THEN 1 ELSE 0
      BY <2>1, <3>1, LoopUnqueued
    <3>3. CASE OnConnect
      <4>1. timers' = timers + 1 /\ ~IsLoop(Head(tasks))
        BY <3>3 DEF OnConnect, Answered, Cmd, IsLoop
      <4> QED
        BY <2>1, <3>2, <3>3, <4>1 DEF Loops
    <3>4. CASE OnWrite
      <4>1. timers' = timers /\ ~IsLoop(Head(tasks)) /\ ~OnConnect
        BY <3>4 DEF OnWrite, OnConnect, Answered, Cmd, IsLoop
      <4> QED
        BY <2>1, <3>2, <4>1 DEF Loops
    <3>5. CASE OnRead
      <4>1. /\ timers' = timers + IF IsLoop(Head(tasks)) THEN 1 ELSE 0
            /\ ~OnConnect
        BY <3>5 DEF OnRead, OnConnect, Answered, Cmd, IsLoop, LoopAlways
      <4> QED
        BY <2>1, <3>2, <4>1 DEF Loops
    <3> QED
      BY <2>6, <3>3, <3>4, <3>5 DEF Callback
  <2>7. ASSUME NEW t \in [cmd : {"connect"}] \cup [cmd : {"write"}, len : 0..MaxWrite]
                         \cup [cmd : {"read"}, loop : {FALSE}],
               Call(t)
        PROVE  A
    <3>1. t \in Task /\ ~IsLoop(t)
      BY DEF Task, IsLoop
    <3> QED
      BY <2>4, <2>7, <3>1
  <2> QED
    BY <1>1, <2>2, <2>3, <2>5, <2>6, <2>7 DEF Next
<1>2. IInv /\ [Next]_vars => [A]_vars
  BY <1>1
<1> QED
  BY <1>2, Invariance, PTL DEF Spec
-----------------------------------------------------------------------------
(* The order in which commands are executed and answered.  History         *)
(* variables keep the commands that were queued, those that a worker has   *)
(* begun, and those whose callback was called, as they are.                *)

VARIABLES
  entered,   \* history: the commands queued, by calls and by reading loops
  executed,  \* history: the commands that a worker has taken
  settled    \* history: the commands whose callback was called

accounts == <<entered, executed, settled>>

UserTask == [cmd : {"connect"}] \cup [cmd : {"write"}, len : 0..MaxWrite]
            \cup [cmd : {"read"}, loop : {FALSE}]

Enters(t) == entered' = Append(entered, t) /\ UNCHANGED <<executed, settled>>
Begins == executed' = Append(executed, Head(tasks)) /\ UNCHANGED <<entered, settled>>
Leaves == settled' = Append(settled, Head(tasks)) /\ UNCHANGED <<entered, executed>>

HInit == Init /\ entered = <<>> /\ executed = <<>> /\ settled = <<>>
HNext ==
  \/ \E t \in UserTask : Call(t) /\ Enters(t)
  \/ ReadAgain /\ Enters([cmd |-> "read", loop |-> TRUE])
  \/ Take /\ Begins
  \/ Callback /\ Leaves
  \/ (CallInit \/ Worker \/ Arrives) /\ UNCHANGED accounts
HSpec == HInit /\ [][HNext]_<<vars, accounts>>

\* What was queued and is not answered is the queue, in the order of the calls;
\* and what was executed was answered, but for the head while it is executed.
OneByOne ==
  /\ entered = settled \o tasks
  /\ executed = settled \o (IF InUse THEN <<Head(tasks)>> ELSE <<>>)

AccountsOK == /\ entered \in Seq(Task) /\ executed \in Seq(Task) /\ settled \in Seq(Task)
              /\ OneByOne

LEMMA EntersInOrder ==
  ASSUME IInv, AccountsOK, NEW t \in Task, AddCommand(t), Enters(t)
  PROVE  AccountsOK'
<1>1. tasks \in Seq(Task) /\ tasks' = Append(tasks, t)
  BY DEF IInv, QueueOK, AddCommand
<1>2. entered' = Append(entered, t) /\ executed' = executed /\ settled' = settled
  BY DEF Enters
<1>3. entered' = settled \o tasks'
  <2>1. entered' = (settled \o tasks) \o <<t>> /\ tasks' = tasks \o <<t>>
    BY <1>1, <1>2, AppendIsConcat DEF AccountsOK, OneByOne
  <2>2. <<t>> \in Seq(Task) /\ settled \in Seq(Task)
    BY DEF AccountsOK
  <2> QED
    BY <1>1, <2>1, <2>2, ConcatAssociative
<1>4. InUse' = InUse /\ (InUse => Head(tasks') = Head(tasks))
  <2>1. CASE tasks = <<>>
    BY <1>1, <2>1 DEF AddCommand, ExecuteNext, StepAfter, InUse, IInv, QueueOK
  <2>2. CASE tasks # <<>>
    BY <1>1, <2>2, HeadTailAppend DEF AddCommand, InUse
  <2> QED
    BY <2>1, <2>2
<1>5. entered' \in Seq(Task)
  BY <1>2 DEF AccountsOK
<1>6. executed' = settled' \o (IF InUse' THEN <<Head(tasks')>> ELSE <<>>)
  <2>1. CASE InUse
    BY <1>2, <1>4, <2>1 DEF AccountsOK, OneByOne
  <2>2. CASE ~InUse
    BY <1>2, <1>4, <2>2 DEF AccountsOK, OneByOne
  <2> QED
    BY <2>1, <2>2
<1> QED
  BY <1>2, <1>3, <1>5, <1>6 DEF AccountsOK, OneByOne

LEMMA BeginsInOrder ==
  ASSUME IInv, AccountsOK, Take, Begins
  PROVE  AccountsOK'
<1>1. step = "queued" /\ step' = "running" /\ tasks' = tasks
  BY DEF Take
<1>2. tasks # <<>> /\ Head(tasks) \in Task
  BY <1>1 DEF IInv, QueueOK
<1>3. executed = settled /\ executed' = Append(executed, Head(tasks))
  BY <1>1, ConcatEmptySeq DEF AccountsOK, OneByOne, InUse, Begins
<1>4. executed' = settled \o <<Head(tasks)>>
  BY <1>2, <1>3, AppendIsConcat DEF AccountsOK
<1> QED
  BY <1>1, <1>2, <1>3, <1>4 DEF AccountsOK, OneByOne, Begins, InUse

LEMMA LeavesInOrder ==
  ASSUME IInv, AccountsOK, Callback, Leaves
  PROVE  AccountsOK'
<1>1. step = "returned" /\ tasks' = Tail(tasks) /\ step' \in {"none", "queued"}
  BY DEF Callback, OnConnect, OnWrite, OnRead, Answered, ExecuteNext, StepAfter
<1>2. tasks \in Seq(Task) /\ tasks # <<>> /\ Head(tasks) \in Task /\ Tail(tasks) \in Seq(Task)
  BY <1>1 DEF IInv, QueueOK
<1>3. settled' = Append(settled, Head(tasks)) /\ entered' = entered /\ executed' = executed
  BY DEF Leaves
<1>4. settled' = settled \o <<Head(tasks)>> /\ settled' \in Seq(Task)
  BY <1>2, <1>3, AppendIsConcat DEF AccountsOK
<1>5. entered' = settled' \o tasks'
  <2>1. tasks = <<Head(tasks)>> \o Tail(tasks)
    BY <1>2, HeadTailProperties
  <2>2. <<Head(tasks)>> \in Seq(Task) /\ settled \in Seq(Task)
    BY <1>2 DEF AccountsOK
  <2>3. (settled \o <<Head(tasks)>>) \o Tail(tasks) = settled \o (<<Head(tasks)>> \o Tail(tasks))
    BY <1>2, <2>2, ConcatAssociative
  <2> QED
    BY <1>1, <1>3, <1>4, <2>1, <2>3 DEF AccountsOK, OneByOne
<1>6. executed' = settled' /\ ~InUse'
  BY <1>1, <1>3, <1>4 DEF AccountsOK, OneByOne, InUse
<1>7. settled' \o <<>> = settled'
  BY <1>4, ConcatEmptySeq
<1> QED
  BY <1>3, <1>4, <1>5, <1>6, <1>7 DEF AccountsOK, OneByOne

\* The commands that connect, write, read and the reading loops queue are executed
\* one at a time and answered in the order in which they were queued, each after it
\* was executed, also when init frees the channel under one of them.
THEOREM CommandsOneByOne == HSpec => []OneByOne
<1>1. HInit => AccountsOK
  <2> SUFFICES ASSUME HInit PROVE AccountsOK
    OBVIOUS
  <2>1. tasks = <<>> /\ entered = <<>> /\ executed = <<>> /\ settled = <<>> /\ ~InUse
    BY DEF HInit, Init, InUse
  <2>2. <<>> \in Seq(Task) /\ <<>> \o <<>> = <<>>
    BY EmptySeq, ConcatEmptySeq
  <2> QED
    BY <2>1, <2>2 DEF AccountsOK, OneByOne
<1>2. HSpec => Spec
  <2>1. HInit => Init
    BY DEF HInit
  <2>2. [HNext]_<<vars, accounts>> => [Next]_vars
    BY DEF HNext, Next, UserTask
  <2> QED
    BY <2>1, <2>2, PTL DEF HSpec, Spec
<1>3. IInv /\ AccountsOK /\ [HNext]_<<vars, accounts>> => AccountsOK'
  <2> SUFFICES ASSUME IInv, AccountsOK, [HNext]_<<vars, accounts>> PROVE AccountsOK'
    OBVIOUS
  <2>1. ASSUME NEW t \in UserTask, Call(t), Enters(t) PROVE AccountsOK'
    <3>1. t \in Task
      BY DEF Task, UserTask
    <3> QED
      BY <2>1, <3>1, EntersInOrder DEF Call
  <2>2. CASE ReadAgain /\ Enters([cmd |-> "read", loop |-> TRUE])
    <3>1. [cmd |-> "read", loop |-> TRUE] \in Task
      BY DEF Task
    <3> QED
      BY <2>2, <3>1, EntersInOrder DEF ReadAgain
  <2>3. CASE Take /\ Begins
    BY <2>3, BeginsInOrder
  <2>4. CASE Callback /\ Leaves
    BY <2>4, LeavesInOrder
  <2>5. CASE (CallInit \/ Worker \/ Arrives) /\ UNCHANGED accounts
    <3>1. tasks' = tasks /\ InUse' = InUse
      BY <2>5 DEF CallInit, Worker, Arrives, StartConnect, StartWrite, StartRead,
                  StartReadEmpty, StartReadFails, Return, js, InUse
    <3> QED
      BY <2>5, <3>1 DEF accounts, AccountsOK, OneByOne
  <2>6. CASE UNCHANGED <<vars, accounts>>
    BY <2>6 DEF vars, js, accounts, AccountsOK, OneByOne, InUse
  <2> QED
    BY <2>1, <2>2, <2>3, <2>4, <2>5, <2>6 DEF HNext
<1>4. AccountsOK => OneByOne
  BY DEF AccountsOK
<1> QED
  BY <1>1, <1>2, <1>3, <1>4, Invariance, PTL DEF HSpec
=============================================================================
