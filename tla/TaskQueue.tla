----------------------------- MODULE TaskQueue -----------------------------
(***************************************************************************)
(* The task queue of index.js (function SSHBase), which the sftp and the   *)
(* tunnel objects inherit: every operation on the native object is queued  *)
(* by _addCommand, started by _executeNext, and removed by the handler of  *)
(* the native object's 'callback' event, which starts the next one.        *)
(*                                                                         *)
(* JavaScript runs to completion, so a turn of the event loop is atomic,   *)
(* except where it calls back into user code, which may queue more         *)
(* commands or throw.  The variable frame is the handler on the call       *)
(* stack while user code runs; no other event is served until it returns.  *)
(*                                                                         *)
(* The native object is seen through one promise: it emits one 'callback'  *)
(* event for each operation it was given, in any order, possibly never.    *)
(***************************************************************************)
EXTENDS Naturals, Sequences

CONSTANTS
  MaxTasks,          \* bound on the number of commands queued
  CallbackMayThrow,  \* user callbacks may throw
  SessionMayStall    \* an operation may take longer than its 15 s timer

ASSUME MaxTasksAssumption == MaxTasks \in Nat
ASSUME SwitchAssumption ==
  CallbackMayThrow \in BOOLEAN /\ SessionMayStall \in BOOLEAN

VARIABLES
  tasks,      \* _tasks: the head is the command being executed
  cb,         \* _cb: the handler is calling the user's callback
  timeout,    \* _timeout: the timer set last, NoTimer for 0
  armed,      \* the timers that the event loop still has to fire
  listening,  \* the handler of 'callback' is installed on _session
  running,    \* the operations the native object was given and not answered
  frame,      \* the handler on the call stack
  threw,      \* history: a user callback has thrown inside the handler
  submitted,  \* history: how many commands were queued
  settled     \* history: the commands whose outcome was delivered

vars == <<tasks, cb, timeout, armed, listening, running, frame, threw,
          submitted, settled>>

Cmd == {"spawn", "other"}  \* only 'spawn' is told apart by the queue
Task == [id : 1..MaxTasks, cmd : Cmd, cb : BOOLEAN]
NoTimer == [kind |-> "none", id |-> 0]
TaskTimer(t) == [kind |-> "task", id |-> t.id]
KeepAliveTimer == [kind |-> "keepAlive", id |-> Len(settled)]
Timer == [kind : {"task", "keepAlive"}, id : 0..MaxTasks]
Frame == {"none", "handler", "handlerNoCb", "timer"}
Outcome(t, h) == [id |-> t.id, how |-> h]

TypeOK ==
  /\ tasks \in Seq(Task)
  /\ cb \in BOOLEAN
  /\ timeout \in Timer \cup {NoTimer}
  /\ armed \subseteq Timer
  /\ listening \in BOOLEAN
  /\ running \in Seq(1..MaxTasks)
  /\ frame \in Frame
  /\ threw \in BOOLEAN
  /\ submitted \in 0..MaxTasks
  /\ settled \in Seq([id : 1..MaxTasks, how : {"done", "timedOut"}])
  /\ Len(settled) <= submitted

Init ==
  /\ tasks = <<>>
  /\ cb = FALSE
  /\ timeout = NoTimer
  /\ armed = {}
  /\ listening = TRUE
  /\ running = <<>>
  /\ frame = "none"
  /\ threw = FALSE
  /\ submitted = 0
  /\ settled = <<>>

-----------------------------------------------------------------------------
(* The pieces of the handlers, each followed by what it would be with a    *)
(* plausible mistake; the mistaken forms are used by no definition.        *)

TimedAlways(t) == TRUE
TimedNever(t) == FALSE
Timed(t) == t.cmd # "spawn"

MustExecuteIgnoringCb(ts) == Len(ts) = 1
MustExecuteAnyLength(ts) == ~cb
MustExecute(ts) == Len(ts) = 1 /\ ~cb

ShiftedLate(ts) == ts
ShiftedByPop(ts) == SubSeq(ts, 1, Len(ts) - 1)
Shifted(ts) == Tail(ts)

KeepTimer == armed
ClearTimer == armed \ {timeout}

RemoveListener == FALSE

KeepCb == cb
ResetCb == FALSE

\* _executeNext with the queue ts, ar being the armed timers: start the head
\* under a timer, or arm the keep-alive timer if there is nothing to do.
ExecuteNext(ts, ar) ==
  \/ /\ ts # <<>>
     /\ running' = Append(running, Head(ts).id)
     /\ \/ /\ Timed(Head(ts))
           /\ timeout' = TaskTimer(Head(ts))
           /\ armed' = (ar \ {timeout}) \cup {timeout'}
        \/ /\ ~Timed(Head(ts))
           /\ armed' = ar \ {timeout}
           /\ UNCHANGED timeout
  \/ /\ ts = <<>>
     /\ timeout' = KeepAliveTimer
     /\ armed' = ar \cup {timeout'}
     /\ UNCHANGED running

\* _addCommand, the timers ar being armed when it is called.
AddCommand(c, f, ar) ==
  /\ submitted < MaxTasks
  /\ submitted' = submitted + 1
  /\ tasks' = Append(tasks, [id |-> submitted', cmd |-> c, cb |-> f])
  /\ \/ MustExecute(tasks') /\ ExecuteNext(tasks', ar)
     \/ ~MustExecute(tasks') /\ armed' = ar /\ UNCHANGED <<timeout, running>>
  /\ UNCHANGED <<cb, listening, frame, threw, settled>>

-----------------------------------------------------------------------------
(* The events.                                                             *)

\* The user calls a method, from the top level or from inside a callback.
UserCall(c, f) ==
  /\ frame # "handlerNoCb"
  /\ AddCommand(c, f, armed)

\* The native object emits 'callback' for one of its operations and the
\* handler runs up to the call of the user's function.
OnCallback(i) ==
  /\ frame = "none"
  /\ running' = SubSeq(running, 1, i - 1) \o SubSeq(running, i + 1, Len(running))
  /\ \/ /\ listening
        /\ armed' = ClearTimer
        /\ timeout' = NoTimer
        /\ cb' = TRUE
        /\ tasks' = Shifted(tasks)
        /\ frame' = IF Head(tasks).cb THEN "handler" ELSE "handlerNoCb"
        /\ settled' = Append(settled, Outcome(Head(tasks), "done"))
     \/ /\ ~listening
        /\ UNCHANGED <<armed, timeout, cb, tasks, frame, settled>>
  /\ UNCHANGED <<listening, threw, submitted>>

\* The user's function returns to the handler, which starts the next command.
HandlerReturns ==
  /\ frame \in {"handler", "handlerNoCb"}
  /\ cb' = ResetCb
  /\ ExecuteNext(tasks, armed)
  /\ frame' = "none"
  /\ UNCHANGED <<tasks, listening, threw, submitted, settled>>

\* The user's function throws: the rest of the handler is skipped.
HandlerThrows ==
  /\ CallbackMayThrow
  /\ frame = "handler"
  /\ frame' = "none"
  /\ threw' = TRUE
  /\ UNCHANGED <<tasks, cb, timeout, armed, listening, running, submitted,
                 settled>>

\* The timer of a command fires: the listener is removed, the native object
\* is interrupted and the callback of the head of the queue gets an error.
TaskTimeout(t) ==
  /\ SessionMayStall
  /\ frame = "none"
  /\ t \in armed /\ t.kind = "task"
  /\ armed' = armed \ {t}
  /\ timeout' = NoTimer
  /\ listening' = RemoveListener
  /\ frame' = IF Head(tasks).cb THEN "timer" ELSE "none"
  /\ settled' = Append(settled, Outcome(Head(tasks), "timedOut"))
  /\ UNCHANGED <<tasks, cb, running, threw, submitted>>

\* The user's function returns to, or throws out of, the timer's function.
TimerReturns ==
  /\ frame = "timer"
  /\ frame' = "none"
  /\ UNCHANGED <<tasks, cb, timeout, armed, listening, running, threw,
                 submitted, settled>>

\* The keep-alive timer fires: stat("") is queued, with no callback.
KeepAlive(t) ==
  /\ frame = "none"
  /\ t \in armed /\ t.kind = "keepAlive"
  /\ AddCommand("other", FALSE, armed \ {t})

Next ==
  \/ \E c \in Cmd, f \in BOOLEAN : UserCall(c, f)
  \/ \E i \in DOMAIN running : OnCallback(i)
  \/ HandlerReturns
  \/ HandlerThrows
  \/ \E t \in armed : TaskTimeout(t)
  \/ TimerReturns
  \/ \E t \in armed : KeepAlive(t)

Spec == Init /\ [][Next]_vars

\* node runs the handlers to their end, and user callbacks return.
FairSpec == Spec /\ WF_vars(HandlerReturns) /\ WF_vars(TimerReturns)

\* The native object answers.
SessionAnswers == WF_vars(\E i \in DOMAIN running : OnCallback(i))

\* The timers of the commands fire.
TimersFire == WF_vars(\E t \in armed : TaskTimeout(t))

-----------------------------------------------------------------------------
(* Properties.                                                             *)

\* The native object works on nothing but the head of the queue, once, even
\* when a callback queues commands while the handler is on the stack and
\* after a timeout (the promise of sshBase.h, lines 36-40).
OnlyHeadRuns ==
  running # <<>> => tasks # <<>> /\ running = <<Head(tasks).id>>

\* The outcomes are delivered in the order of the calls, none twice and none
\* skipped: an answer that races the timer of its command is dropped.
SettledInOrder == \A i \in 1..Len(settled) : settled[i].id = i

\* Unless a callback has thrown or a command has timed out, whenever the
\* event loop is idle and commands are queued the native object has one.
NoLostWakeup ==
  frame = "none" /\ listening /\ ~threw /\ tasks # <<>> => running # <<>>

\* At most one timer is armed; the timer of a command is armed only while
\* that command is the one executed, and never for a spawned process, so
\* that _tasks[0] is the command that timed out.
TimerDiscipline ==
  /\ armed \subseteq {timeout}
  /\ \A t \in armed :
       t.kind = "task" =>
         /\ listening
         /\ running = <<t.id>>
         /\ Head(tasks).id = t.id /\ Head(tasks).cmd # "spawn"

\* Once a command has timed out, and the native object's sessions have been
\* freed by interrupt(), no command is ever given to it again.
NothingAfterTimeout == [][~listening => Len(running') <= Len(running)]_vars

Settled(n) == \E i \in 1..Len(settled) : settled[i].id = n

\* Every command that was queued is settled, in a process in which the native
\* object answers, no callback throws inside the handler and no timer wins.
EveryTaskSettles ==
  SessionAnswers =>
    \A n \in 1..MaxTasks :
      submitted >= n ~> Settled(n) \/ threw \/ ~listening

\* A command under a timer is settled though the native object may never
\* answer: the user hears of it even if the connection hangs.
TimedTaskSettles ==
  TimersFire =>
    \A n \in 1..MaxTasks :
      (running = <<n>> /\ Head(tasks).cmd # "spawn") ~> Settled(n)

\* The command that the native object works on, 0 if none.
Busy == IF running = <<>> THEN 0 ELSE running[1]

\* The queue implements the serial executor.
Executor == INSTANCE SerialExecutor WITH busy <- Busy, open <- listening

ImplementsExecutor == Executor!Spec

\* The comment of index.js, lines 29-31: every task emits a callback event, and
\* when the last task is done the next one is started.  So what is queued is
\* settled, whatever became of the commands before it, unless a callback has
\* thrown.
QueueMovesOn ==
  SessionAnswers =>
    \A n \in 1..MaxTasks : submitted >= n ~> Settled(n) \/ threw
=============================================================================
