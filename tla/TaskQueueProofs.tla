-------------------------- MODULE TaskQueueProofs --------------------------
(***************************************************************************)
(* Safety of the task queue of index.js, for every bound on the number of  *)
(* commands, with and without throwing callbacks and stalling operations.  *)
(***************************************************************************)
EXTENDS TaskQueue, SequenceTheorems, TLAPS

\* A timed-out command is settled but stays at the head of the queue.
Lag == IF listening THEN 0 ELSE 1

\* The queue holds the commands that are not settled, numbered in order.
Numbering ==
  /\ Len(settled) + Len(tasks) = submitted + Lag
  /\ \A i \in 1..Len(tasks) : tasks[i].id = i + Len(settled) - Lag

\* Which handler can be on the stack, and what _cb, _timeout and _session
\* then are.
Frames ==
  /\ frame \in {"handler", "handlerNoCb"} => cb /\ listening
  /\ frame = "timer" => ~listening
  /\ cb => listening /\ running = <<>> /\ armed = {}
  /\ cb /\ frame = "none" => threw
  /\ ~listening => tasks # <<>> /\ armed = {}

\* The keep-alive timer is armed only while there is nothing to do.
KeepAliveIdle ==
  \A t \in armed : t.kind = "keepAlive" => listening /\ tasks = <<>>

IInv ==
  /\ TypeOK
  /\ Numbering
  /\ Frames
  /\ KeepAliveIdle
  /\ OnlyHeadRuns
  /\ SettledInOrder
  /\ NoLostWakeup
  /\ TimerDiscipline

-----------------------------------------------------------------------------

LEMMA InitIInv == Init => IInv
<1> SUFFICES ASSUME Init PROVE IInv
  OBVIOUS
<1> USE MaxTasksAssumption DEF Init
<1>1. TypeOK
  <2>1. tasks \in Seq(Task) /\ running \in Seq(1..MaxTasks)
    BY EmptySeq
  <2>2. /\ settled \in Seq([id : 1..MaxTasks, how : {"done", "timedOut"}])
        /\ Len(settled) <= submitted
    BY EmptySeq
  <2>3. timeout \in Timer \cup {NoTimer} /\ armed \subseteq Timer
    OBVIOUS
  <2>4. frame \in Frame /\ submitted \in 0..MaxTasks
    BY DEF Frame
  <2> QED
    BY <2>1, <2>2, <2>3, <2>4 DEF TypeOK
<1>2. Numbering /\ Frames /\ KeepAliveIdle
  BY DEF Numbering, Frames, KeepAliveIdle, Lag
<1>3. OnlyHeadRuns /\ SettledInOrder /\ NoLostWakeup /\ TimerDiscipline
  BY DEF OnlyHeadRuns, SettledInOrder, NoLostWakeup, TimerDiscipline
<1> QED
  BY <1>1, <1>2, <1>3 DEF IInv

\* Appending a command to the queue leaves the others in their places.
LEMMA AppendTask ==
  ASSUME NEW s \in Seq(Task), NEW t \in Task
  PROVE  /\ Append(s, t) \in Seq(Task)
         /\ Len(Append(s, t)) = Len(s) + 1
         /\ Append(s, t)[Len(s) + 1] = t
         /\ \A i \in 1..Len(s) : Append(s, t)[i] = s[i]
OBVIOUS

LEMMA AddCommandStep ==
  ASSUME IInv, frame # "handlerNoCb",
         NEW c \in Cmd, NEW f \in BOOLEAN, NEW ar \in SUBSET armed,
         AddCommand(c, f, ar)
  PROVE  IInv'
<1> DEFINE new == [id |-> submitted', cmd |-> c, cb |-> f]
<1> USE DEF IInv
<1>1. /\ submitted' = submitted + 1 /\ submitted' \in 1..MaxTasks
      /\ UNCHANGED <<cb, listening, frame, threw, settled>>
  BY MaxTasksAssumption DEF AddCommand, TypeOK
<1>2. new \in Task
  BY <1>1 DEF Task
<1>3. /\ tasks' \in Seq(Task) /\ Len(tasks') = Len(tasks) + 1
      /\ tasks'[Len(tasks) + 1] = new
      /\ \A i \in 1..Len(tasks) : tasks'[i] = tasks[i]
  BY <1>2, AppendTask DEF TypeOK, AddCommand
<1>4. Numbering'
  <2>1. /\ Lag' = Lag /\ Lag \in Nat /\ submitted \in Nat
        /\ Len(settled) \in Nat /\ Len(tasks) \in Nat /\ settled' = settled
    BY <1>1 DEF Lag, TypeOK
  <2>2. Len(settled') + Len(tasks') = submitted' + Lag'
    <3>1. Len(settled) + Len(tasks) = submitted + Lag
      BY DEF Numbering
    <3> QED
      BY <1>1, <1>3, <2>1, <3>1
  <2>3. ASSUME NEW i \in 1..Len(tasks')
        PROVE  tasks'[i].id = i + Len(settled') - Lag'
    <3>1. CASE i \in 1..Len(tasks)
      BY <1>1, <1>3, <2>1, <3>1 DEF Numbering
    <3>2. CASE i = Len(tasks) + 1
      BY <1>1, <1>3, <2>1, <3>2 DEF Numbering
    <3> QED
      BY <1>3, <2>1, <3>1, <3>2
  <2> QED
    BY <2>2, <2>3 DEF Numbering
<1>5. SettledInOrder'
  BY <1>1 DEF SettledInOrder
<1>6. CASE MustExecute(tasks')
  <2>1. /\ tasks = <<>> /\ tasks'[1] = new /\ Len(tasks') = 1 /\ tasks' # <<>>
        /\ ~cb /\ listening /\ running = <<>>
    BY <1>3, <1>6, EmptySeq DEF MustExecute, TypeOK, Frames, OnlyHeadRuns
  <2>2. \A t \in armed : t.kind = "keepAlive"
    BY <2>1 DEF TimerDiscipline, TypeOK, Timer
  <2>3. ar \ {timeout} = {}
    BY DEF TimerDiscipline
  <2>4. running' = Append(running, new.id)
    BY <1>6, <2>1 DEF AddCommand, ExecuteNext
  <2>5. running' = <<new.id>> /\ running' \in Seq(1..MaxTasks) /\ running' # <<>>
    BY <1>1, <2>1, <2>4
  <2>6. \/ timeout' = TaskTimer(new) /\ armed' = {timeout'} /\ new.cmd # "spawn"
        \/ timeout' = timeout /\ armed' = {}
    BY <1>6, <2>1, <2>3 DEF AddCommand, ExecuteNext, Timed
  <2>7. TypeOK'
    BY <1>1, <1>3, <2>5, <2>6, MaxTasksAssumption
    DEF TypeOK, Timer, TaskTimer
  <2>8. Frames' /\ KeepAliveIdle'
    BY <1>1, <2>1, <2>6 DEF Frames, KeepAliveIdle, TaskTimer
  <2>9. OnlyHeadRuns' /\ NoLostWakeup'
    BY <2>1, <2>5 DEF OnlyHeadRuns, NoLostWakeup
  <2>10. TimerDiscipline'
    BY <1>1, <2>1, <2>5, <2>6 DEF TimerDiscipline, TaskTimer
  <2> QED
    BY <1>4, <1>5, <2>7, <2>8, <2>9, <2>10
<1>7. CASE ~MustExecute(tasks')
  <2>1. armed' = ar /\ UNCHANGED <<timeout, running>>
    BY <1>7 DEF AddCommand
  <2>2. TypeOK'
    BY <1>1, <1>3, <2>1, MaxTasksAssumption DEF TypeOK
  <2>3. tasks # <<>> \/ cb
    BY <1>3, <1>7, EmptySeq DEF MustExecute, TypeOK
  <2>4. tasks # <<>> => Head(tasks') = Head(tasks)
    BY <1>3, EmptySeq DEF TypeOK
  <2>5. tasks' # <<>>
    BY <1>3, EmptySeq DEF TypeOK
  <2>6. Frames' /\ KeepAliveIdle'
    BY <1>1, <2>1, <2>3, <2>5 DEF Frames, KeepAliveIdle
  <2>7. OnlyHeadRuns' /\ NoLostWakeup' /\ TimerDiscipline'
    BY <1>1, <2>1, <2>3, <2>4, <2>5
    DEF OnlyHeadRuns, NoLostWakeup, TimerDiscipline, Frames
  <2> QED
    BY <1>4, <1>5, <2>2, <2>6, <2>7
<1> QED
  BY <1>6, <1>7

\* Delivering the outcome of the head keeps the outcomes numbered in order.
LEMMA SettleHead ==
  ASSUME TypeOK, Numbering, SettledInOrder, listening, tasks # <<>>,
         NEW h \in {"done", "timedOut"},
         settled' = Append(settled, Outcome(Head(tasks), h))
  PROVE  /\ settled' \in Seq([id : 1..MaxTasks, how : {"done", "timedOut"}])
         /\ Len(settled') = Len(settled) + 1 /\ Len(settled') <= submitted
         /\ Len(tasks) \in Nat \ {0} /\ submitted = Len(settled) + Len(tasks)
         /\ SettledInOrder'
<1>1. Len(tasks) \in Nat \ {0} /\ Len(settled) \in Nat /\ submitted \in Nat
  BY EmptySeq DEF TypeOK
<1>2. /\ Len(settled) + Len(tasks) = submitted
      /\ Head(tasks) = tasks[1] /\ tasks[1].id = 1 + Len(settled)
  BY <1>1 DEF Numbering, Lag
<1>3. Outcome(Head(tasks), h) \in [id : 1..MaxTasks, how : {"done", "timedOut"}]
  <2>1. tasks[1] \in Task
    BY <1>1, ElementOfSeq DEF TypeOK
  <2> QED
    BY <1>2, <2>1 DEF Outcome, Task
<1>4. /\ settled' \in Seq([id : 1..MaxTasks, how : {"done", "timedOut"}])
      /\ Len(settled') = Len(settled) + 1
      /\ settled'[Len(settled) + 1] = Outcome(Head(tasks), h)
      /\ \A i \in 1..Len(settled) : settled'[i] = settled[i]
  BY <1>3 DEF TypeOK
<1>5. SettledInOrder'
  <2> SUFFICES ASSUME NEW i \in 1..Len(settled')
               PROVE  settled'[i].id = i
    BY DEF SettledInOrder
  <2>1. CASE i \in 1..Len(settled)
    BY <1>4, <2>1 DEF SettledInOrder
  <2>2. CASE i = Len(settled) + 1
    BY <1>2, <1>4, <2>2, <1>1 DEF Outcome
  <2> QED
    BY <1>1, <1>4, <2>1, <2>2
<1> QED
  BY <1>1, <1>2, <1>4, <1>5

\* The native object has one command at most, so an answer leaves it idle.
LEMMA AnswerIdles ==
  ASSUME TypeOK, OnlyHeadRuns, NEW i \in DOMAIN running, OnCallback(i)
  PROVE  /\ tasks # <<>> /\ running = <<Head(tasks).id>>
         /\ running # <<>> /\ Len(running) = 1
         /\ running' = <<>>
<1>1. running # <<>> /\ tasks # <<>> /\ running = <<Head(tasks).id>>
  BY DEF OnlyHeadRuns, TypeOK
<1>2. i = 1 /\ Len(running) = 1
  BY <1>1
<1>3. running' = SubSeq(running, 1, 0) \o SubSeq(running, 2, 1)
  BY <1>2 DEF OnCallback
<1>4. SubSeq(running, 1, 0) = <<>> /\ SubSeq(running, 2, 1) = <<>>
  BY SubSeqEmpty
<1>5. running' = <<>>
  BY <1>3, <1>4, EmptySeq, ConcatEmptySeq
<1> QED
  BY <1>1, <1>2, <1>5

LEMMA OnCallbackStep ==
  ASSUME IInv, NEW i \in DOMAIN running, OnCallback(i)
  PROVE  IInv'
<1> USE DEF IInv
<1>1. running # <<>> /\ tasks # <<>> /\ running = <<Head(tasks).id>>
  BY AnswerIdles
<1>2. running' = <<>>
  BY AnswerIdles
<1>3. running' \in Seq(1..MaxTasks) /\ UNCHANGED <<listening, threw, submitted>>
  BY <1>2, EmptySeq DEF OnCallback
<1>4. CASE listening
  <2>1. /\ armed' = {} /\ timeout' = NoTimer /\ cb' = TRUE
        /\ frame' \in {"handler", "handlerNoCb"}
        /\ settled' = Append(settled, Outcome(Head(tasks), "done"))
    BY <1>4 DEF OnCallback, ClearTimer, TimerDiscipline
  <2>2. /\ tasks' \in Seq(Task) /\ Len(tasks') = Len(tasks) - 1
        /\ \A j \in 1..Len(tasks') : tasks'[j] = tasks[j + 1]
    BY <1>1, <1>4, HeadTailProperties DEF OnCallback, Shifted, TypeOK
  <2>3. /\ settled' \in Seq([id : 1..MaxTasks, how : {"done", "timedOut"}])
        /\ Len(settled') = Len(settled) + 1 /\ Len(settled') <= submitted
        /\ Len(tasks) \in Nat \ {0} /\ submitted = Len(settled) + Len(tasks)
        /\ SettledInOrder'
    BY <1>1, <1>4, <2>1, SettleHead
  <2>4. TypeOK'
    BY <1>3, <2>1, <2>2, <2>3 DEF TypeOK, Frame
  <2>5. Numbering'
    <3>1. Lag = 0 /\ Lag' = 0 /\ Len(settled) \in Nat
      BY <1>3, <1>4 DEF Lag, TypeOK
    <3>2. \A j \in 1..Len(tasks) : tasks[j].id = j + Len(settled) - Lag
      BY DEF Numbering
    <3>3. Len(settled') + Len(tasks') = submitted' + Lag'
      BY <1>3, <2>2, <2>3, <3>1
    <3>4. ASSUME NEW j \in 1..Len(tasks')
          PROVE  tasks'[j].id = j + Len(settled') - Lag'
      <4>1. j + 1 \in 1..Len(tasks) /\ j \in Nat
        BY <2>2, <2>3
      <4>2. tasks[j + 1].id = j + 1 + Len(settled)
        BY <3>1, <3>2, <4>1
      <4> QED
        BY <2>2, <2>3, <3>1, <4>1, <4>2
    <3> QED
      BY <3>3, <3>4 DEF Numbering
  <2>6. Frames' /\ KeepAliveIdle'
    BY <1>2, <1>3, <1>4, <2>1 DEF Frames, KeepAliveIdle
  <2>7. OnlyHeadRuns' /\ NoLostWakeup' /\ TimerDiscipline'
    BY <1>2, <2>1 DEF OnlyHeadRuns, NoLostWakeup, TimerDiscipline
  <2> QED
    BY <2>3, <2>4, <2>5, <2>6, <2>7
<1>5. CASE ~listening
  <2>1. UNCHANGED <<armed, timeout, cb, tasks, frame, settled>>
    BY <1>5 DEF OnCallback
  <2>2. TypeOK' /\ Frames' /\ KeepAliveIdle'
    BY <1>2, <1>3, <2>1 DEF TypeOK, Frames, KeepAliveIdle
  <2>3. Numbering' /\ SettledInOrder'
    BY <1>3, <2>1 DEF Numbering, SettledInOrder, Lag
  <2>4. OnlyHeadRuns' /\ NoLostWakeup' /\ TimerDiscipline'
    BY <1>2, <1>3, <1>5, <2>1
    DEF OnlyHeadRuns, NoLostWakeup, TimerDiscipline, Frames
  <2> QED
    BY <2>2, <2>3, <2>4
<1> QED
  BY <1>4, <1>5

LEMMA HandlerReturnsStep ==
  ASSUME IInv, HandlerReturns
  PROVE  IInv'
<1> USE DEF IInv
<1>1. /\ listening /\ running = <<>> /\ armed = {} /\ cb' = FALSE /\ frame' = "none"
      /\ UNCHANGED <<tasks, listening, threw, submitted, settled>>
  BY DEF HandlerReturns, ResetCb, Frames
<1>2. Numbering' /\ SettledInOrder'
  BY <1>1 DEF Numbering, SettledInOrder, Lag
<1>3. CASE tasks # <<>>
  <2>1. tasks[1] \in Task /\ Head(tasks) = tasks[1]
    BY <1>3, EmptySeq, ElementOfSeq DEF TypeOK
  <2>2. running' = Append(running, Head(tasks).id)
    BY <1>3 DEF HandlerReturns, ExecuteNext
  <2>3. /\ running' = <<Head(tasks).id>> /\ running' \in Seq(1..MaxTasks)
        /\ running' # <<>>
    BY <1>1, <2>1, <2>2 DEF Task
  <2>4. \/ timeout' = TaskTimer(Head(tasks)) /\ armed' = {timeout'}
           /\ Head(tasks).cmd # "spawn"
        \/ timeout' = timeout /\ armed' = {}
    BY <1>1, <1>3 DEF HandlerReturns, ExecuteNext, Timed
  <2>5. TypeOK'
    <3>1. TaskTimer(Head(tasks)) \in Timer
      BY <2>1, MaxTasksAssumption DEF Timer, TaskTimer, Task
    <3> QED
      BY <1>1, <2>3, <2>4, <3>1 DEF TypeOK, Frame
  <2>6. Frames' /\ KeepAliveIdle'
    BY <1>1, <2>4 DEF Frames, KeepAliveIdle, TaskTimer
  <2>7. OnlyHeadRuns' /\ NoLostWakeup' /\ TimerDiscipline'
    BY <1>1, <1>3, <2>3, <2>4
    DEF OnlyHeadRuns, NoLostWakeup, TimerDiscipline, TaskTimer
  <2> QED
    BY <1>2, <2>5, <2>6, <2>7
<1>4. CASE tasks = <<>>
  <2>1. timeout' = KeepAliveTimer /\ armed' = {timeout'} /\ running' = running
    BY <1>1, <1>4 DEF HandlerReturns, ExecuteNext
  <2>2. KeepAliveTimer \in Timer /\ KeepAliveTimer.kind = "keepAlive"
    BY MaxTasksAssumption DEF KeepAliveTimer, Timer, TypeOK
  <2>3. TypeOK'
    BY <1>1, <2>1, <2>2 DEF TypeOK, Frame
  <2>4. Frames' /\ KeepAliveIdle'
    BY <1>1, <1>4, <2>1 DEF Frames, KeepAliveIdle
  <2>5. OnlyHeadRuns' /\ NoLostWakeup' /\ TimerDiscipline'
    BY <1>1, <1>4, <2>1, <2>2
    DEF OnlyHeadRuns, NoLostWakeup, TimerDiscipline
  <2> QED
    BY <1>2, <2>3, <2>4, <2>5
<1> QED
  BY <1>3, <1>4

LEMMA TaskTimeoutStep ==
  ASSUME IInv, NEW t \in armed, TaskTimeout(t)
  PROVE  IInv'
<1> USE DEF IInv
<1>1. /\ listening /\ running = <<t.id>> /\ armed = {t}
      /\ frame = "none" /\ ~cb
  BY DEF TaskTimeout, TimerDiscipline, Frames
<1>2. running # <<>> /\ tasks # <<>>
  BY <1>1 DEF OnlyHeadRuns
<1>3. /\ armed' = {} /\ timeout' = NoTimer /\ listening' = FALSE
      /\ frame' \in {"timer", "none"}
      /\ settled' = Append(settled, Outcome(Head(tasks), "timedOut"))
      /\ UNCHANGED <<tasks, cb, running, threw, submitted>>
  BY <1>1 DEF TaskTimeout, RemoveListener
<1>4. /\ settled' \in Seq([id : 1..MaxTasks, how : {"done", "timedOut"}])
      /\ Len(settled') = Len(settled) + 1 /\ Len(settled') <= submitted
      /\ Len(tasks) \in Nat \ {0} /\ submitted = Len(settled) + Len(tasks)
      /\ SettledInOrder'
  BY <1>1, <1>2, <1>3, SettleHead
<1>5. TypeOK'
  BY <1>3, <1>4 DEF TypeOK, Frame
<1>6. Numbering'
  <2>1. Lag = 0 /\ Lag' = 1 /\ Len(settled) \in Nat
    BY <1>1, <1>3 DEF Lag, TypeOK
  <2>2. Len(settled') + Len(tasks') = submitted' + Lag'
    BY <1>3, <1>4, <2>1
  <2>3. \A j \in 1..Len(tasks) : tasks[j].id = j + Len(settled) - 0
    BY <2>1 DEF Numbering
  <2>4. \A j \in 1..Len(tasks') : tasks'[j].id = j + Len(settled') - Lag'
    BY <1>3, <1>4, <2>1, <2>3
  <2> QED
    BY <2>2, <2>4 DEF Numbering
<1>7. Frames' /\ KeepAliveIdle'
  BY <1>1, <1>2, <1>3 DEF Frames, KeepAliveIdle
<1>8. OnlyHeadRuns' /\ NoLostWakeup' /\ TimerDiscipline'
  BY <1>1, <1>2, <1>3 DEF OnlyHeadRuns, NoLostWakeup, TimerDiscipline
<1> QED
  BY <1>4, <1>5, <1>6, <1>7, <1>8

\* The steps that leave the queue and the timers alone.
LEMMA FrameStep ==
  ASSUME IInv, HandlerThrows \/ TimerReturns \/ UNCHANGED vars
  PROVE  IInv'
<1> USE DEF IInv
<1>1. /\ UNCHANGED <<tasks, cb, timeout, armed, listening, running, submitted,
                     settled>>
      /\ \/ frame' = "none" /\ (cb => threw') /\ (threw => threw')
         \/ UNCHANGED <<frame, threw>>
      /\ threw' \in BOOLEAN
  BY DEF HandlerThrows, TimerReturns, vars, TypeOK, Frames
<1>2. TypeOK' /\ Numbering' /\ SettledInOrder'
  BY <1>1 DEF TypeOK, Frame, Numbering, Lag, SettledInOrder
<1>3. Frames' /\ KeepAliveIdle' /\ OnlyHeadRuns' /\ TimerDiscipline'
  BY <1>1 DEF Frames, KeepAliveIdle, OnlyHeadRuns, TimerDiscipline
<1>4. NoLostWakeup'
  BY <1>1 DEF NoLostWakeup, HandlerThrows, TimerReturns, vars, Frames
<1> QED
  BY <1>2, <1>3, <1>4

LEMMA NextIInv == IInv /\ [Next]_vars => IInv'
<1> SUFFICES ASSUME IInv, [Next]_vars PROVE IInv'
  OBVIOUS
<1>1. ASSUME NEW c \in Cmd, NEW f \in BOOLEAN, UserCall(c, f) PROVE IInv'
  BY <1>1, AddCommandStep DEF UserCall
<1>2. ASSUME NEW i \in DOMAIN running, OnCallback(i) PROVE IInv'
  BY <1>2, OnCallbackStep
<1>3. CASE HandlerReturns
  BY <1>3, HandlerReturnsStep
<1>4. CASE HandlerThrows
  BY <1>4, FrameStep
<1>5. ASSUME NEW t \in armed, TaskTimeout(t) PROVE IInv'
  BY <1>5, TaskTimeoutStep
<1>6. CASE TimerReturns
  BY <1>6, FrameStep
<1>7. ASSUME NEW t \in armed, KeepAlive(t) PROVE IInv'
  <2>1. armed \ {t} \in SUBSET armed /\ frame # "handlerNoCb"
    BY <1>7 DEF KeepAlive
  <2>2. AddCommand("other", FALSE, armed \ {t}) /\ "other" \in Cmd
    BY <1>7 DEF KeepAlive, Cmd
  <2> QED
    BY <2>1, <2>2, AddCommandStep
<1>8. CASE UNCHANGED vars
  BY <1>8, FrameStep
<1> QED
  BY <1>1, <1>2, <1>3, <1>4, <1>5, <1>6, <1>7, <1>8 DEF Next

LEMMA Invariance == Spec => []IInv
<1> QED
  BY InitIInv, NextIInv, PTL DEF Spec

\* The state of index.js is always of the expected shape; no more outcomes
\* are delivered than commands were queued.
THEOREM TypeCorrect == Spec => []TypeOK
<1>1. IInv => TypeOK
  BY DEF IInv
<1> QED
  BY <1>1, Invariance, PTL

\* However callbacks, timers and user calls interleave, the native object is
\* given one command at a time, the head of the queue (sshBase.h, 36-40).
THEOREM HeadOnly == Spec => []OnlyHeadRuns
<1>1. IInv => OnlyHeadRuns
  BY DEF IInv
<1> QED
  BY <1>1, Invariance, PTL

\* The outcomes are delivered in the order of the calls, each once.
THEOREM OrderedOutcomes == Spec => []SettledInOrder
<1>1. IInv => SettledInOrder
  BY DEF IInv
<1> QED
  BY <1>1, Invariance, PTL

\* The queue is never left waiting with an idle native object, unless a
\* callback has thrown or a command has timed out.
THEOREM WakeupsKept == Spec => []NoLostWakeup
<1>1. IInv => NoLostWakeup
  BY DEF IInv
<1> QED
  BY <1>1, Invariance, PTL

\* A timer of a command is armed only while that command is executed: when it
\* fires, _tasks[0] is the command that has timed out.
THEOREM TimersMatchHead == Spec => []TimerDiscipline
<1>1. IInv => TimerDiscipline
  BY DEF IInv
<1> QED
  BY <1>1, Invariance, PTL

\* After a timeout, a command that the user queues finds the timed-out one at
\* the head and is not started.
LEMMA AddCommandAfterTimeout ==
  ASSUME IInv, ~listening, NEW c \in Cmd, NEW f \in BOOLEAN,
         NEW ar \in SUBSET armed, AddCommand(c, f, ar)
  PROVE  UNCHANGED <<running, settled, listening>>
<1>1. Len(tasks) \in Nat \ {0} /\ tasks \in Seq(Task)
  BY EmptySeq DEF IInv, Frames, TypeOK
<1>2. Len(tasks') = Len(tasks) + 1
  BY <1>1 DEF AddCommand
<1>3. ~MustExecute(tasks')
  BY <1>1, <1>2 DEF MustExecute
<1> QED
  BY <1>3 DEF AddCommand

\* Once a command has timed out, none is given to the native object again,
\* whose sessions interrupt() has freed.
THEOREM QuietAfterTimeout == Spec => NothingAfterTimeout
<1> DEFINE Quiet == ~listening => Len(running') <= Len(running)
<1>1. ASSUME IInv, [Next]_vars, ~listening PROVE Len(running') <= Len(running)
  <2> USE <1>1 DEF IInv
  <2>0. Len(running) \in Nat
    BY DEF TypeOK
  <2>1. ASSUME NEW c \in Cmd, NEW f \in BOOLEAN, UserCall(c, f)
        PROVE  running' = running
    BY <2>1, AddCommandAfterTimeout DEF UserCall
  <2>2. ASSUME NEW i \in DOMAIN running, OnCallback(i)
        PROVE  Len(running') <= Len(running)
    <3>1. running' = <<>> /\ Len(running) = 1
      BY <2>2, AnswerIdles
    <3> QED
      BY <3>1
  <2>3. CASE HandlerReturns
    BY <2>3 DEF HandlerReturns, Frames
  <2>4. ASSUME NEW t \in armed, KeepAlive(t) PROVE running' = running
    BY <2>4 DEF Frames
  <2>5. CASE HandlerThrows \/ TimerReturns \/ UNCHANGED vars
    BY <2>0, <2>5 DEF HandlerThrows, TimerReturns, vars
  <2>6. ASSUME NEW t \in armed, TaskTimeout(t) PROVE running' = running
    BY <2>6 DEF TaskTimeout
  <2> QED
    BY <2>0, <2>1, <2>2, <2>3, <2>4, <2>5, <2>6 DEF Next
<1>2. IInv /\ [Next]_vars => [Quiet]_vars
  BY <1>1
<1> QED
  BY <1>2, Invariance, PTL DEF Spec, NothingAfterTimeout

-----------------------------------------------------------------------------
(* A callback that throws inside the handler of 'callback'.                *)

\* _cb stays set, the native object is idle, and no timer is left to fire.
Stopped == threw => cb /\ frame = "none" /\ running = <<>> /\ armed = {}

\* Nothing is delivered to the user any more, and no operation is started.
Silent == threw => running' = <<>> /\ settled' = settled /\ armed' = {}

\* While _cb is set the commands that the user queues are not started.
LEMMA AddCommandAfterThrow ==
  ASSUME cb, NEW c \in Cmd, NEW f \in BOOLEAN, NEW ar \in SUBSET armed,
         AddCommand(c, f, ar)
  PROVE  /\ armed' = ar
         /\ UNCHANGED <<cb, frame, running, threw, settled>>
BY DEF AddCommand, MustExecute

LEMMA NextStopped ==
  ASSUME IInv, Stopped, [Next]_vars
  PROVE  Stopped' /\ Silent
<1>1. CASE threw
  <2> USE <1>1 DEF Stopped, Silent
  <2>1. ASSUME NEW c \in Cmd, NEW f \in BOOLEAN, UserCall(c, f)
        PROVE  Stopped' /\ Silent
    BY <2>1, AddCommandAfterThrow DEF UserCall
  <2>2. ASSUME NEW i \in DOMAIN running, OnCallback(i) PROVE FALSE
    <3>1. running # <<>>
      BY <2>2, AnswerIdles DEF IInv
    <3> QED
      BY <3>1
  <2>3. ASSUME NEW t \in armed PROVE FALSE
    OBVIOUS
  <2>4. CASE HandlerReturns \/ HandlerThrows \/ TimerReturns
    BY <2>4 DEF HandlerReturns, HandlerThrows, TimerReturns
  <2>5. CASE UNCHANGED vars
    BY <2>5 DEF vars
  <2> QED
    BY <2>1, <2>2, <2>3, <2>4, <2>5 DEF Next
<1>2. CASE ~threw
  <2>1. CASE HandlerThrows
    <3>1. cb /\ running = <<>> /\ armed = {}
      BY <2>1 DEF HandlerThrows, IInv, Frames
    <3> QED
      BY <1>2, <2>1, <3>1 DEF HandlerThrows, Stopped, Silent
  <2>2. CASE ~HandlerThrows
    <3>1. threw' = threw
      BY <2>2 DEF Next, vars, UserCall, AddCommand, OnCallback, HandlerReturns,
                  TaskTimeout, TimerReturns, KeepAlive
    <3> QED
      BY <1>2, <3>1 DEF Stopped, Silent
  <2> QED
    BY <2>1, <2>2
<1> QED
  BY <1>1, <1>2

\* Why NoLostWakeup and EveryTaskSettles except a callback that throws: the
\* handler has set _cb and does not come to reset it (index.js, 40-50), so that
\* from then on _addCommand starts nothing, whatever the user queues, no timer
\* fires, and no callback of his is called again.
THEOREM ThrowStopsTheQueue == Spec => []Stopped /\ [][Silent]_vars
<1>1. Init => Stopped
  BY DEF Init, Stopped
<1>2. IInv /\ Stopped /\ [Next]_vars => Stopped' /\ [Silent]_vars
  BY NextStopped
<1> QED
  BY <1>1, <1>2, Invariance, PTL DEF Spec

-----------------------------------------------------------------------------
(* The queue implements the serial executor.                               *)

\* Some facts of IInv in the form that the refinement needs.
LEMMA HeadFacts ==
  ASSUME IInv
  PROVE  /\ Len(settled) \in Nat /\ submitted \in Nat
         /\ listening /\ tasks # <<>> =>
              /\ Head(tasks).id = Len(settled) + 1
              /\ Len(settled) < submitted
         /\ listening /\ tasks = <<>> => Len(settled) = submitted
<1>1. Len(settled) \in Nat /\ submitted \in Nat /\ Len(tasks) \in Nat
  BY DEF IInv, TypeOK
<1>2. CASE listening
  <2>1. Len(settled) + Len(tasks) = submitted
    BY <1>1, <1>2 DEF IInv, Numbering, Lag
  <2>2. ASSUME tasks # <<>> PROVE Head(tasks).id = Len(settled) + 1
    <3>1. 1 \in 1..Len(tasks)
      BY <1>1, <2>2, EmptySeq DEF IInv, TypeOK
    <3> QED
      BY <1>1, <1>2, <3>1 DEF IInv, Numbering, Lag
  <2>3. tasks # <<>> => Len(tasks) > 0
    BY EmptySeq DEF IInv, TypeOK
  <2> QED
    BY <1>1, <2>1, <2>2, <2>3
<1> QED
  BY <1>1, <1>2

LEMMA UserCallRefines ==
  ASSUME IInv, frame # "handlerNoCb",
         NEW c \in Cmd, NEW f \in BOOLEAN, NEW ar \in SUBSET armed,
         AddCommand(c, f, ar)
  PROVE  Executor!Submit
<1>1. UNCHANGED <<settled, listening>> /\ submitted' = submitted + 1
  BY DEF AddCommand
<1>2. CASE MustExecute(tasks')
  <2>1. /\ tasks \in Seq(Task) /\ [id |-> submitted', cmd |-> c, cb |-> f] \in Task
    BY MaxTasksAssumption DEF IInv, TypeOK, AddCommand, Task
  <2>2. tasks = <<>> /\ ~cb /\ Head(tasks').id = submitted' /\ tasks' # <<>>
    BY <1>2, <2>1, AppendTask, EmptySeq DEF MustExecute, AddCommand
  <2>3. running = <<>> /\ listening
    BY <2>2 DEF IInv, OnlyHeadRuns, Frames
  <2>4. running' = <<submitted'>>
    BY <1>2, <2>2, <2>3 DEF AddCommand, ExecuteNext
  <2>5. Len(settled) = submitted /\ submitted \in Nat
    BY <2>2, <2>3, HeadFacts
  <2>6. Busy = 0 /\ Busy' = Len(settled) + 1 /\ Len(settled) < submitted'
    BY <1>1, <2>3, <2>4, <2>5 DEF Busy
  <2> QED
    BY <1>1, <2>3, <2>6 DEF Executor!Submit, Executor!MayStart
<1>3. CASE ~MustExecute(tasks')
  <2>1. Busy' = Busy
    BY <1>3 DEF AddCommand, Busy
  <2> QED
    BY <1>1, <2>1 DEF Executor!Submit
<1> QED
  BY <1>2, <1>3

LEMMA AnswerRefines ==
  ASSUME IInv, NEW i \in DOMAIN running, OnCallback(i)
  PROVE  Executor!Answer \/ Executor!LateAnswer
<1>1. /\ running' = <<>> /\ running # <<>> /\ tasks # <<>>
      /\ running = <<Head(tasks).id>>
  BY AnswerIdles DEF IInv
<1>2. Head(tasks).id \in 1..MaxTasks
  BY <1>1 DEF IInv, TypeOK
<1>3. Busy = Head(tasks).id /\ Busy # 0 /\ Busy' = 0
  BY <1>1, <1>2, MaxTasksAssumption DEF Busy
<1>4. UNCHANGED <<listening, submitted>>
  BY DEF OnCallback
<1>5. CASE listening
  <2>1. settled' = Append(settled, Outcome(Head(tasks), "done"))
    BY <1>5 DEF OnCallback
  <2> QED
    BY <1>3, <1>4, <1>5, <2>1 DEF Executor!Answer, Executor!Outcome, Executor!MayStart, Outcome
<1>6. CASE ~listening
  BY <1>3, <1>4, <1>6 DEF Executor!LateAnswer, OnCallback
<1> QED
  BY <1>5, <1>6

LEMMA HandlerReturnsRefines ==
  ASSUME IInv, HandlerReturns
  PROVE  Executor!Start
<1>1. /\ listening /\ running = <<>>
      /\ UNCHANGED <<tasks, listening, submitted, settled>>
  BY DEF HandlerReturns, IInv, Frames
<1>2. CASE tasks # <<>>
  <2>1. running' = <<Head(tasks).id>>
    BY <1>1, <1>2 DEF HandlerReturns, ExecuteNext
  <2>2. Busy = 0 /\ Busy' = Len(settled) + 1 /\ Len(settled) < submitted
    BY <1>1, <1>2, <2>1, HeadFacts DEF Busy
  <2> QED
    BY <1>1, <2>2 DEF Executor!Start, Executor!MayStart
<1>3. CASE tasks = <<>>
  <2>1. Busy = 0 /\ Busy' = 0
    BY <1>1, <1>3 DEF HandlerReturns, ExecuteNext, Busy
  <2> QED
    BY <1>1, <2>1 DEF Executor!Start, Executor!MayStart
<1> QED
  BY <1>2, <1>3

LEMMA TimeoutRefines ==
  ASSUME IInv, NEW t \in armed, TaskTimeout(t)
  PROVE  Executor!TimeOut
<1>1. listening /\ running = <<t.id>> /\ Head(tasks).id = t.id
  BY DEF TaskTimeout, IInv, TimerDiscipline
<1>2. t.id \in 1..MaxTasks
  BY <1>1 DEF IInv, TypeOK
<1>3. Busy = Head(tasks).id /\ Busy # 0 /\ Busy' = Busy
  BY <1>1, <1>2, MaxTasksAssumption DEF Busy, TaskTimeout
<1> QED
  BY <1>1, <1>3
  DEF TaskTimeout, RemoveListener, Executor!TimeOut, Executor!Outcome, Outcome

\* The queue of index.js implements the serial executor that sshBase.h relies
\* on: every step of the queue is a step of the executor or changes nothing
\* that the executor has.
THEOREM QueueImplementsExecutor == Spec => ImplementsExecutor
<1>1. Init => Executor!Init
  BY DEF Init, Executor!Init, Busy
<1>2. IInv /\ [Next]_vars => [Executor!Next]_Executor!vars
  <2> SUFFICES ASSUME IInv, [Next]_vars
               PROVE  Executor!Next \/ UNCHANGED Executor!vars
    BY DEF Executor!vars
  <2> USE DEF Executor!Next
  <2>1. ASSUME NEW c \in Cmd, NEW f \in BOOLEAN, UserCall(c, f)
        PROVE  Executor!Next
    BY <2>1, UserCallRefines DEF UserCall
  <2>2. ASSUME NEW i \in DOMAIN running, OnCallback(i) PROVE Executor!Next
    BY <2>2, AnswerRefines
  <2>3. CASE HandlerReturns
    BY <2>3, HandlerReturnsRefines
  <2>4. ASSUME NEW t \in armed, TaskTimeout(t) PROVE Executor!Next
    BY <2>4, TimeoutRefines
  <2>5. ASSUME NEW t \in armed, KeepAlive(t) PROVE Executor!Next
    <3>1. /\ AddCommand("other", FALSE, armed \ {t}) /\ "other" \in Cmd
          /\ armed \ {t} \in SUBSET armed /\ frame # "handlerNoCb"
      BY <2>5 DEF KeepAlive, Cmd
    <3> QED
      BY <3>1, UserCallRefines
  <2>6. CASE HandlerThrows \/ TimerReturns \/ UNCHANGED vars
    BY <2>6 DEF HandlerThrows, TimerReturns, vars, Executor!vars, Busy
  <2> QED
    BY <2>1, <2>2, <2>3, <2>4, <2>5, <2>6 DEF Next
<1> QED
  BY <1>1, <1>2, Invariance, PTL DEF Spec, ImplementsExecutor, Executor!Spec
=============================================================================
