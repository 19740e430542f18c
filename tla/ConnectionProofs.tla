-------------------------- MODULE ConnectionProofs --------------------------
(***************************************************************************)
(* Safety of init, setPubKey, setPrvKey and connect, for any number of     *)
(* calls.                                                                  *)
(***************************************************************************)
EXTENDS Connection, SequenceTheorems, TLAPS

\* The queue and the error of the command that was executed last.
QueueOK ==
  /\ tasks \in Seq(Task)
  /\ step \in {"none", "queued", "running", "returned"}
  /\ step = "none" <=> tasks = <<>>
  /\ error \in BOOLEAN

SessionsOK ==
  /\ session \in 0..calls
  /\ conn \in {"closed", "connected", "authenticated"}
  /\ sftp \in {"none", "new", "ready", "stale"}
  /\ sftpOf \in 0..MaxCalls

KeysOK ==
  /\ pub \in 0..MaxCalls /\ prv \in 0..MaxCalls
  /\ keyFailed \in BOOLEAN /\ overtaken \in BOOLEAN /\ racing \in BOOLEAN

CallsOK ==
  /\ calls \in 0..MaxCalls /\ connects \in 0..MaxConnects
  /\ keyed \subseteq 1..calls /\ answered \subseteq keyed
  /\ given \in Keys

\* A command that writes or sets a key belongs to a call with keys.
KeyCommandsKeyed ==
  \A i \in 1..Len(tasks) : tasks[i].cmd \in KeyCmd => tasks[i].call \in keyed

\* What a connect that has returned, and is not answered, may leave without an
\* error.
ReturnedConnect ==
  step = "returned" /\ Cmd = "connect" /\ ~error /\ ~racing
    => conn = "authenticated" /\ sftp \in {"ready", "stale"}

IInv ==
  /\ QueueOK /\ SessionsOK /\ KeysOK /\ CallsOK
  /\ KeyCommandsKeyed
  /\ ReturnedConnect
  /\ SftpOfThisSession

-----------------------------------------------------------------------------

LEMMA InitIInv == Init => IInv
<1> SUFFICES ASSUME Init PROVE IInv
  OBVIOUS
<1> USE BoundsAssumption DEF Init
<1>1. QueueOK
  BY EmptySeq DEF QueueOK
<1>2. SessionsOK
  BY DEF SessionsOK
<1>5. KeysOK
  <2>1. pub \in 0..MaxCalls /\ prv \in 0..MaxCalls
    OBVIOUS
  <2>2. keyFailed \in BOOLEAN /\ overtaken \in BOOLEAN /\ racing \in BOOLEAN
    BY Zenon
  <2> QED
    BY <2>1, <2>2, Zenon DEF KeysOK
<1>3. CallsOK
  BY DEF CallsOK, Keys
<1>4. KeyCommandsKeyed /\ ReturnedConnect /\ SftpOfThisSession
  BY DEF KeyCommandsKeyed, ReturnedConnect, SftpOfThisSession
<1> QED
  BY <1>1, <1>2, <1>3, <1>4, <1>5 DEF IInv

\* A command behind the others leaves the head, and what was returned for it.
LEMMA AddCommandStep ==
  ASSUME IInv, NEW t \in Task, AddCommand(t)
  PROVE  /\ QueueOK'
         /\ step' = "returned" => step = "returned" /\ Cmd' = Cmd /\ error' = error
         /\ Len(tasks') = Len(tasks) + 1 /\ tasks'[Len(tasks) + 1] = t
         /\ \A i \in 1..Len(tasks) : tasks'[i] = tasks[i]
<1> USE DEF IInv, QueueOK
<1>1. /\ tasks' \in Seq(Task) /\ tasks' # <<>>
      /\ Len(tasks') = Len(tasks) + 1 /\ tasks'[Len(tasks) + 1] = t
      /\ \A i \in 1..Len(tasks) : tasks'[i] = tasks[i]
  BY DEF AddCommand
<1>2. CASE tasks = <<>>
  <2>1. step' = "queued" /\ error' = FALSE
    BY <1>1, <1>2 DEF AddCommand, ExecuteNext, StepAfter
  <2> QED
    BY <1>1, <2>1
<1>3. CASE tasks # <<>>
  <2>1. step' = step /\ error' = error
    BY <1>3 DEF AddCommand
  <2>2. Head(tasks') = Head(tasks)
    BY <1>1, <1>3
  <2> QED
    BY <1>1, <1>3, <2>1, <2>2 DEF Cmd
<1> QED
  BY <1>2, <1>3

LEMMA KeyTask ==
  ASSUME IInv, calls < MaxCalls, calls' = calls + 1,
         NEW cmd \in KeyCmd, NEW init \in BOOLEAN
  PROVE  [cmd |-> cmd, call |-> calls', init |-> init] \in Task
BY BoundsAssumption DEF IInv, CallsOK, Task

\* The first command of a call with keys is behind the others.
LEMMA QueueKeysStep ==
  ASSUME IInv, NEW cmd \in KeyCmd, NEW init \in BOOLEAN,
         Counted, QueueKeys(cmd, init)
  PROVE  /\ QueueOK' /\ KeyCommandsKeyed'
         /\ step' = "returned" => step = "returned" /\ Cmd' = Cmd /\ error' = error
         /\ keyed' \subseteq 1..calls' /\ keyed \subseteq keyed'
<1> DEFINE new == [cmd |-> cmd, call |-> calls', init |-> init]
<1>1. new \in Task /\ AddCommand(new)
  BY KeyTask DEF Counted, QueueKeys
<1> HIDE DEF new
<1>2. /\ QueueOK'
      /\ step' = "returned" => step = "returned" /\ Cmd' = Cmd /\ error' = error
      /\ Len(tasks') = Len(tasks) + 1 /\ tasks'[Len(tasks) + 1] = new
      /\ \A i \in 1..Len(tasks) : tasks'[i] = tasks[i]
  BY <1>1, AddCommandStep
<1>3. keyed' \subseteq 1..calls' /\ keyed \subseteq keyed' /\ calls' \in keyed'
  BY BoundsAssumption DEF IInv, CallsOK, Counted, QueueKeys
<1>4. KeyCommandsKeyed'
  <2> SUFFICES ASSUME NEW i \in 1..Len(tasks'), tasks'[i].cmd \in KeyCmd
               PROVE  tasks'[i].call \in keyed'
    BY DEF KeyCommandsKeyed
  <2>1. CASE i \in 1..Len(tasks)
    BY <1>2, <1>3, <2>1 DEF IInv, KeyCommandsKeyed
  <2>2. CASE i = Len(tasks) + 1
    BY <1>2, <1>3, <2>2 DEF new
  <2> QED
    BY <1>2, <2>1, <2>2 DEF IInv, QueueOK
<1> QED
  BY <1>2, <1>3, <1>4

LEMMA CallInitStep ==
  ASSUME IInv, NEW withKeys \in BOOLEAN, CallInit(withKeys)
  PROVE  IInv'
<1> USE BoundsAssumption
<1>1. /\ Counted /\ NativeInit
      /\ calls' = calls + 1 /\ calls' \in 1..MaxCalls
      /\ UNCHANGED <<keys, answered, connects>>
  BY DEF CallInit, Counted, IInv, CallsOK
<1>4. SessionsOK'
  BY <1>1 DEF IInv, NativeInit, FreeSftp, SessionsOK
<1>5. racing' \in BOOLEAN /\ (racing' = FALSE => ~racing /\ ~InUse)
  BY <1>1, Zenon DEF NativeInit
<1>6. KeysOK'
  <2>1. overtaken' \in BOOLEAN
    BY Zenon DEF CallInit, IInv, KeysOK
  <2> QED
    BY <1>1, <1>5, <2>1 DEF IInv, KeysOK, keys
<1>7. SftpOfThisSession'
  BY <1>1 DEF NativeInit, FreeSftp, SftpOfThisSession
<1>8. ASSUME step' = "returned" => step = "returned" /\ Cmd' = Cmd
      PROVE  ReturnedConnect'
  BY <1>5, <1>8 DEF InUse, ReturnedConnect
<1>2. CASE withKeys
  <2>1. QueueKeys("writePub", TRUE) /\ given' = [pub |-> calls', prv |-> calls']
    BY <1>2 DEF CallInit
  <2>2. /\ QueueOK' /\ KeyCommandsKeyed'
        /\ step' = "returned" => step = "returned" /\ Cmd' = Cmd
        /\ keyed' \subseteq 1..calls' /\ keyed \subseteq keyed'
    BY <1>1, <2>1, QueueKeysStep DEF KeyCmd
  <2>3. CallsOK'
    BY <1>1, <2>1, <2>2 DEF IInv, CallsOK, Keys
  <2> QED
    BY <1>4, <1>6, <1>7, <1>8, <2>2, <2>3 DEF IInv
<1>3. CASE ~withKeys
  <2>1. UNCHANGED <<keyed, given, queue, error>>
    BY <1>3 DEF CallInit
  <2>2. QueueOK' /\ KeyCommandsKeyed' /\ CallsOK' /\ Cmd' = Cmd
    BY <1>1, <2>1 DEF IInv, QueueOK, KeyCommandsKeyed, CallsOK, queue, Cmd
  <2> QED
    BY <1>4, <1>6, <1>7, <1>8, <2>1, <2>2 DEF IInv, queue
<1> QED
  BY <1>2, <1>3

LEMMA CallSetKeyStep ==
  ASSUME IInv, NEW cmd \in {"writePub", "writePrv"}, CallSetKey(cmd)
  PROVE  IInv'
<1> USE BoundsAssumption
<1>1. /\ Counted /\ QueueKeys(cmd, FALSE)
      /\ calls' = calls + 1 /\ calls' \in 1..MaxCalls
      /\ UNCHANGED <<keys, answered, connects, sessions, racing>>
  <2>1. Counted /\ QueueKeys(cmd, FALSE) /\ UNCHANGED <<sessions, racing>>
    BY Zenon DEF CallSetKey
  <2>2. /\ calls' = calls + 1 /\ calls' \in 1..MaxCalls
        /\ UNCHANGED <<keys, answered, connects>>
    BY <2>1 DEF Counted, IInv, CallsOK
  <2> QED
    BY ONLY <2>1, <2>2
<1>6. overtaken' \in BOOLEAN
  <2>1. PrivateKeyToCome \in BOOLEAN
    BY Zenon DEF PrivateKeyToCome
  <2> QED
    BY <2>1, Zenon DEF CallSetKey, IInv, KeysOK
<1>2. /\ QueueOK' /\ KeyCommandsKeyed'
      /\ step' = "returned" => step = "returned" /\ Cmd' = Cmd /\ error' = error
      /\ keyed' \subseteq 1..calls' /\ keyed \subseteq keyed'
  BY <1>1, QueueKeysStep DEF KeyCmd
<1>3. given' \in Keys
  BY <1>1 DEF CallSetKey, IInv, CallsOK, Keys
<1>4. CallsOK'
  BY <1>1, <1>2, <1>3 DEF IInv, CallsOK
<1>5. SessionsOK' /\ KeysOK'
  BY <1>1, <1>6 DEF IInv, SessionsOK, KeysOK, CallsOK, keys, sessions
<1> QED
  BY <1>1, <1>2, <1>4, <1>5 DEF IInv, sessions, ReturnedConnect, SftpOfThisSession

LEMMA CallConnectStep ==
  ASSUME IInv, CallConnect
  PROVE  IInv'
<1> USE BoundsAssumption
<1> DEFINE new == [cmd |-> "connect", keys |-> given, ready |-> keyed = answered /\ ~overtaken]
<1>1. /\ connects' = connects + 1 /\ connects < MaxConnects /\ AddCommand(new)
      /\ UNCHANGED <<sessions, keys, calls, keyed, answered, given, overtaken, racing>>
  BY DEF CallConnect
<1>2. new \in Task /\ new.cmd \notin KeyCmd
  BY DEF IInv, CallsOK, Task, KeyCmd
<1> HIDE DEF new
<1>3. /\ QueueOK'
      /\ step' = "returned" => step = "returned" /\ Cmd' = Cmd /\ error' = error
      /\ Len(tasks') = Len(tasks) + 1 /\ tasks'[Len(tasks) + 1] = new
      /\ \A i \in 1..Len(tasks) : tasks'[i] = tasks[i]
  BY <1>1, <1>2, AddCommandStep
<1>4. KeyCommandsKeyed'
  <2> SUFFICES ASSUME NEW i \in 1..Len(tasks'), tasks'[i].cmd \in KeyCmd
               PROVE  tasks'[i].call \in keyed'
    BY DEF KeyCommandsKeyed
  <2>1. i \in 1..Len(tasks)
    BY <1>2, <1>3 DEF IInv, QueueOK
  <2> QED
    BY <1>1, <1>3, <2>1 DEF IInv, KeyCommandsKeyed
<1>5. SessionsOK' /\ KeysOK' /\ CallsOK'
  BY <1>1 DEF IInv, SessionsOK, KeysOK, CallsOK, keys, sessions
<1> QED
  BY <1>1, <1>3, <1>4, <1>5 DEF IInv, sessions, ReturnedConnect, SftpOfThisSession

LEMMA TakeStep ==
  ASSUME IInv, Take
  PROVE  IInv'
BY DEF IInv, Take, sessions, keys, history, QueueOK, SessionsOK, KeysOK, CallsOK,
       KeyCommandsKeyed, ReturnedConnect, SftpOfThisSession, Cmd

\* The head of a queue that is being worked on.
LEMMA HeadTask ==
  ASSUME IInv, step # "none"
  PROVE  /\ Head(tasks) \in Task /\ Len(tasks) \in Nat /\ Len(tasks) >= 1
         /\ Head(tasks) = tasks[1]
BY DEF IInv, QueueOK

LEMMA KeyHead ==
  ASSUME IInv, step # "none", Cmd \in KeyCmd
  PROVE  /\ Head(tasks).call \in keyed /\ Head(tasks).call \in 1..MaxCalls
         /\ Head(tasks) \in [cmd : KeyCmd, call : 1..MaxCalls, init : BOOLEAN]
<1>1. Head(tasks) \in [cmd : KeyCmd, call : 1..MaxCalls, init : BOOLEAN]
  BY HeadTask DEF Task, Cmd, KeyCmd
<1>2. Head(tasks).call \in keyed
  BY HeadTask DEF IInv, KeyCommandsKeyed, Cmd
<1> QED
  BY <1>1, <1>2

LEMMA KeyWorkerStep ==
  ASSUME IInv, WriteTmpFile \/ StartSetKey
  PROVE  IInv'
<1>1. /\ step = "running" /\ step' = "returned" /\ Cmd \in KeyCmd
      /\ error' \in BOOLEAN
      /\ UNCHANGED <<tasks, history, sessions>>
  BY DEF WriteTmpFile, StartSetKey, Return, KeyCmd
<1>2. Cmd' \in KeyCmd /\ Cmd' # "connect"
  BY <1>1 DEF Cmd, KeyCmd
<1>3. QueueOK' /\ SessionsOK' /\ CallsOK' /\ KeyCommandsKeyed'
  BY <1>1 DEF IInv, QueueOK, SessionsOK, CallsOK, KeyCommandsKeyed, history, sessions
<1>4. keyFailed' \in BOOLEAN
  BY DEF IInv, KeysOK, WriteTmpFile, StartSetKey
<1>5. pub' \in 0..MaxCalls /\ prv' \in 0..MaxCalls
  <2>1. CASE WriteTmpFile
    BY <2>1 DEF IInv, KeysOK, WriteTmpFile
  <2>2. CASE StartSetKey
    <3>1. KeyRead \in 0..MaxCalls
      BY <1>1, KeyHead, BoundsAssumption DEF KeyRead
    <3> QED
      BY <2>2, <3>1 DEF IInv, KeysOK, StartSetKey, Store
  <2> QED
    BY <2>1, <2>2
<1>6. KeysOK'
  BY <1>1, <1>4, <1>5 DEF IInv, KeysOK, history
<1> QED
  BY <1>1, <1>2, <1>3, <1>6 DEF IInv, ReturnedConnect, SftpOfThisSession, sessions, history

LEMMA StartConnectStep ==
  ASSUME IInv, StartConnect
  PROVE  IInv'
<1>1. /\ step = "running" /\ step' = "returned" /\ session' = session
      /\ conn' \in {"closed", "connected", "authenticated"}
      /\ UNCHANGED <<tasks, history, keys>>
  BY DEF StartConnect, BaseConnect, Return
<1>2. /\ error' \in BOOLEAN
      /\ sftp' \in {"none", "new", "ready", "stale"}
      /\ sftpOf' \in {sftpOf, session}
      /\ sftp' # "none" /\ sftp = "none" => sftpOf' = session
      /\ sftp # "none" => sftpOf' = sftpOf
      /\ ~error' => conn' = "authenticated" /\ sftp' \in {"ready", "stale"}
  BY DEF StartConnect, AnyError, IInv, SessionsOK
<1>3. SessionsOK'
  BY <1>1, <1>2, BoundsAssumption DEF IInv, SessionsOK, CallsOK, history
<1>4. QueueOK' /\ KeysOK' /\ CallsOK' /\ KeyCommandsKeyed'
  BY <1>1, <1>2 DEF IInv, QueueOK, KeysOK, CallsOK, KeyCommandsKeyed, history, keys
<1>5. SftpOfThisSession'
  BY <1>1, <1>2 DEF IInv, SftpOfThisSession, history
<1>6. ReturnedConnect'
  BY <1>2 DEF ReturnedConnect
<1> QED
  BY <1>3, <1>4, <1>5, <1>6 DEF IInv

\* The queue without its head, which may have queued the next step of its call.
LEMMA CallbackQueue ==
  ASSUME IInv, Callback
  PROVE  /\ tasks' \in Seq(Task)
         /\ \A i \in 1..Len(tasks') : tasks'[i].cmd \in KeyCmd => tasks'[i].call \in keyed
         /\ answered' \subseteq keyed
<1> DEFINE t == Head(tasks)
           rest == Tail(tasks)
           next == [t EXCEPT !.cmd = Following(Cmd)]
<1>1. step = "returned" /\ t \in Task /\ Len(tasks) \in Nat /\ Len(tasks) >= 1
  BY HeadTask DEF Callback
<1>2. /\ rest \in Seq(Task) /\ Len(rest) = Len(tasks) - 1
      /\ \A i \in 1..Len(rest) : rest[i] = tasks[i + 1]
  BY <1>1 DEF IInv, QueueOK
<1>3. \A i \in 1..Len(rest) : rest[i].cmd \in KeyCmd => rest[i].call \in keyed
  <2> SUFFICES ASSUME NEW i \in 1..Len(rest), rest[i].cmd \in KeyCmd
               PROVE  rest[i].call \in keyed
    OBVIOUS
  <2>1. i + 1 \in 1..Len(tasks) /\ rest[i] = tasks[i + 1]
    BY <1>1, <1>2
  <2> QED
    BY <2>1 DEF IInv, KeyCommandsKeyed
<1>4. CASE Cmd \in KeyCmd /\ ~error /\ ~LastOfCall(t)
  <2>1. t \in [cmd : KeyCmd, call : 1..MaxCalls, init : BOOLEAN] /\ t.call \in keyed
    BY <1>1, <1>4, KeyHead
  <2>2. Cmd \in {"writePub", "setPubKey", "writePrv"} /\ Cmd = t.cmd
    BY <1>4 DEF KeyCmd, LastOfCall, Cmd
  <2>3. Following(Cmd) \in KeyCmd
    BY <2>2 DEF Following, KeyCmd
  <2>4. next \in Task /\ next.call \in keyed
    BY <2>1, <2>3 DEF Task
  <2>5. tasks' = Append(rest, next) /\ answered' = answered
    BY <1>4 DEF Callback, KeyCmd
  <2> HIDE DEF next, rest
  <2>6. /\ tasks' \in Seq(Task) /\ Len(tasks') = Len(rest) + 1
        /\ tasks'[Len(rest) + 1] = next
        /\ \A i \in 1..Len(rest) : tasks'[i] = rest[i]
    BY <1>2, <2>4, <2>5
  <2>7. ASSUME NEW i \in 1..Len(tasks'), tasks'[i].cmd \in KeyCmd
        PROVE  tasks'[i].call \in keyed
    <3>1. CASE i \in 1..Len(rest)
      BY <1>3, <2>6, <2>7, <3>1
    <3>2. CASE i = Len(rest) + 1
      BY <2>4, <2>6, <3>2
    <3> QED
      BY <1>1, <1>2, <2>6, <3>1, <3>2
  <2> QED
    BY <2>5, <2>6, <2>7 DEF IInv, CallsOK
<1>5. CASE Cmd \in KeyCmd /\ (error \/ LastOfCall(t))
  <2>1. t.call \in keyed
    BY <1>1, <1>5, KeyHead
  <2>2. tasks' = rest /\ answered' = answered \cup {t.call}
    BY <1>5 DEF Callback, Tell, KeyCmd
  <2> QED
    BY <1>2, <1>3, <2>1, <2>2 DEF IInv, CallsOK
<1>6. CASE Cmd = "connect"
  <2>1. tasks' = rest /\ answered' = answered
    BY <1>6 DEF Callback, KeyCmd
  <2> QED
    BY <1>2, <1>3, <2>1 DEF IInv, CallsOK
<1> QED
  BY <1>4, <1>5, <1>6 DEF Callback

LEMMA CallbackStep ==
  ASSUME IInv, Callback
  PROVE  IInv'
<1>1. /\ ExecuteNext(tasks')
      /\ UNCHANGED <<sessions, keys, calls, keyed, given, overtaken, connects, racing>>
  BY DEF Callback
<1>2. QueueOK' /\ step' # "returned"
  BY <1>1, CallbackQueue DEF IInv, QueueOK, ExecuteNext, StepAfter
<1>3. KeyCommandsKeyed' /\ CallsOK'
  BY <1>1, CallbackQueue DEF IInv, KeyCommandsKeyed, CallsOK
<1> QED
  BY <1>1, <1>2, <1>3
     DEF IInv, SessionsOK, KeysOK, sessions, keys, ReturnedConnect, SftpOfThisSession

LEMMA NextIInv == IInv /\ [Next]_vars => IInv'
<1> SUFFICES ASSUME IInv, [Next]_vars PROVE IInv'
  OBVIOUS
<1>1. CASE Next
  <2>1. ASSUME NEW withKeys \in BOOLEAN, CallInit(withKeys) PROVE IInv'
    BY <2>1, CallInitStep
  <2>2. ASSUME NEW cmd \in {"writePub", "writePrv"}, CallSetKey(cmd) PROVE IInv'
    BY <2>2, CallSetKeyStep
  <2>3. CASE CallConnect
    BY <2>3, CallConnectStep
  <2>4. CASE Take
    BY <2>4, TakeStep
  <2>5. CASE Worker
    BY <2>5, KeyWorkerStep, StartConnectStep DEF Worker
  <2>6. CASE Callback
    BY <2>6, CallbackStep
  <2> QED
    BY <1>1, <2>1, <2>2, <2>3, <2>4, <2>5, <2>6 DEF Next
<1>2. CASE UNCHANGED vars
  BY <1>2 DEF vars, queue, sessions, keys, history, IInv, QueueOK, SessionsOK, KeysOK,
              CallsOK, KeyCommandsKeyed, ReturnedConnect, SftpOfThisSession, Cmd
<1> QED
  BY <1>1, <1>2

\* The invariant that the theorems rest on.
THEOREM Invariance == Spec => []IInv
<1>1. Init => IInv
  BY InitIInv
<1>2. IInv /\ [Next]_vars => IInv'
  BY NextIInv
<1> QED
  BY <1>1, <1>2, PTL DEF Spec

\* The variables of the queue, the sessions and the keys keep their types, for
\* any number of calls; in particular only calls with keys are answered.
THEOREM TypeCorrect == Spec => []TypeOK
<1>1. IInv => TypeOK
  BY DEF IInv, QueueOK, SessionsOK, KeysOK, CallsOK, TypeOK
<1> QED
  BY <1>1, Invariance, PTL

\* The sftp session was created on the session there is: init frees both.
THEOREM SftpOfCurrentSession == Spec => []SftpOfThisSession
<1>1. IInv => SftpOfThisSession
  BY DEF IInv
<1> QED
  BY <1>1, Invariance, PTL

\* A connect answered without an error has connected, whatever was called while
\* it was in the queue, although startConnect goes on after a failure.
THEOREM ConnectsToldTruly == Spec => ConnectTold
<1>1. IInv /\ [Next]_vars =>
        [step = "returned" /\ Cmd = "connect" /\ step' # step /\ ~error /\ ~racing
           => conn = "authenticated" /\ sftp \in {"ready", "stale"}]_vars
  BY DEF IInv, ReturnedConnect
<1> QED
  BY <1>1, Invariance, PTL DEF Spec, ConnectTold
-----------------------------------------------------------------------------
(* The order in which commands are executed and answered.  History         *)
(* variables keep the commands that were queued, those that were begun,    *)
(* and those whose callback was called, as they are.                       *)

VARIABLES
  entered,   \* history: the commands queued, by calls and by callbacks
  executed,  \* history: the commands that a worker or the file system has taken
  settled    \* history: the commands whose callback was called

accounts == <<entered, executed, settled>>

\* The first command of a call with keys.
FirstOf(cmd, init) == [cmd |-> cmd, call |-> calls', init |-> init]

\* The callback of the head queues the next command of its call.
GoesOn == Cmd \in KeyCmd /\ ~error /\ ~LastOfCall(Head(tasks))
NextOfCall == [Head(tasks) EXCEPT !.cmd = Following(Cmd)]

Enters(t) == entered' = Append(entered, t) /\ UNCHANGED <<executed, settled>>
Begins == executed' = Append(executed, Head(tasks)) /\ UNCHANGED <<entered, settled>>
Leaves ==
  /\ settled' = Append(settled, Head(tasks))
  /\ entered' = IF GoesOn THEN Append(entered, NextOfCall) ELSE entered
  /\ UNCHANGED executed

HInit == Init /\ entered = <<>> /\ executed = <<>> /\ settled = <<>>
HNext ==
  \/ CallInit(TRUE) /\ Enters(FirstOf("writePub", TRUE))
  \/ \E cmd \in {"writePub", "writePrv"} : CallSetKey(cmd) /\ Enters(FirstOf(cmd, FALSE))
  \/ /\ CallConnect
     /\ Enters([cmd |-> "connect", keys |-> given, ready |-> keyed = answered /\ ~overtaken])
  \/ Take /\ Begins
  \/ Callback /\ Leaves
  \/ (CallInit(FALSE) \/ Worker) /\ UNCHANGED accounts
HSpec == HInit /\ [][HNext]_<<vars, accounts>>

Begun == step \in {"running", "returned"}

\* What was queued and is not settled is the queue, in the order in which it was
\* queued; and what was executed is settled, but for the head while it is executed.
OneByOne ==
  /\ entered = settled \o tasks
  /\ executed = settled \o (IF Begun THEN <<Head(tasks)>> ELSE <<>>)

AccountsOK == /\ entered \in Seq(Task) /\ executed \in Seq(Task) /\ settled \in Seq(Task)
              /\ OneByOne

\* A sequence with one more element at the end, or with its first one moved out.
LEMMA AppendToBoth ==
  ASSUME NEW s \in Seq(Task), NEW ts \in Seq(Task), NEW t \in Task
  PROVE  Append(s \o ts, t) = s \o Append(ts, t)
<1>1. <<t>> \in Seq(Task) /\ s \o ts \in Seq(Task)
  BY ConcatProperties
<1>2. Append(s \o ts, t) = (s \o ts) \o <<t>> /\ Append(ts, t) = ts \o <<t>>
  BY <1>1, AppendIsConcat
<1> QED
  BY <1>1, <1>2, ConcatAssociative

LEMMA HeadMoves ==
  ASSUME NEW s \in Seq(Task), NEW ts \in Seq(Task), ts # <<>>
  PROVE  Append(s, Head(ts)) \o Tail(ts) = s \o ts
<1>1. Head(ts) \in Task /\ Tail(ts) \in Seq(Task) /\ <<Head(ts)>> \in Seq(Task)
      /\ ts = <<Head(ts)>> \o Tail(ts)
  BY HeadTailProperties
<1>2. Append(s, Head(ts)) = s \o <<Head(ts)>>
  BY <1>1, AppendIsConcat
<1>3. (s \o <<Head(ts)>>) \o Tail(ts) = s \o (<<Head(ts)>> \o Tail(ts))
  BY <1>1, ConcatAssociative
<1> QED
  BY <1>1, <1>2, <1>3

LEMMA EntersInOrder ==
  ASSUME IInv, AccountsOK, NEW t \in Task, AddCommand(t), Enters(t)
  PROVE  AccountsOK'
<1>1. tasks \in Seq(Task) /\ tasks' = Append(tasks, t)
  BY DEF IInv, QueueOK, AddCommand
<1>2. entered' = Append(entered, t) /\ executed' = executed /\ settled' = settled
  BY DEF Enters
<1>3. entered' = settled \o tasks' /\ entered' \in Seq(Task)
  <2>1. entered = settled \o tasks /\ entered \in Seq(Task) /\ settled \in Seq(Task)
    BY DEF AccountsOK, OneByOne
  <2>2. Append(settled \o tasks, t) = settled \o Append(tasks, t)
    BY <1>1, <2>1, AppendToBoth
  <2>3. Append(entered, t) \in Seq(Task)
    BY <2>1
  <2> QED
    BY <1>1, <1>2, <2>1, <2>2, <2>3
<1>4. Begun' = Begun /\ (Begun => Head(tasks') = Head(tasks))
  <2>1. CASE tasks = <<>>
    BY <1>1, <2>1 DEF AddCommand, ExecuteNext, StepAfter, Begun, IInv, QueueOK
  <2>2. CASE tasks # <<>>
    BY <1>1, <2>2, HeadTailAppend DEF AddCommand, Begun
  <2> QED
    BY <2>1, <2>2
<1>5. executed' = settled' \o (IF Begun' THEN <<Head(tasks')>> ELSE <<>>)
  <2>1. CASE Begun
    BY <1>2, <1>4, <2>1 DEF AccountsOK, OneByOne
  <2>2. CASE ~Begun
    BY <1>2, <1>4, <2>2 DEF AccountsOK, OneByOne
  <2> QED
    BY <2>1, <2>2
<1> QED
  BY <1>2, <1>3, <1>5 DEF AccountsOK, OneByOne

LEMMA BeginsInOrder ==
  ASSUME IInv, AccountsOK, Take, Begins
  PROVE  AccountsOK'
<1>1. step = "queued" /\ step' = "running" /\ tasks' = tasks
  BY DEF Take
<1>2. tasks # <<>> /\ Head(tasks) \in Task
  BY <1>1 DEF IInv, QueueOK
<1>3. executed = settled /\ executed' = Append(executed, Head(tasks))
  BY <1>1, ConcatEmptySeq DEF AccountsOK, OneByOne, Begun, Begins
<1>4. executed' = settled \o <<Head(tasks)>>
  BY <1>2, <1>3, AppendIsConcat DEF AccountsOK
<1> QED
  BY <1>1, <1>2, <1>3, <1>4 DEF AccountsOK, OneByOne, Begins, Begun

LEMMA LeavesInOrder ==
  ASSUME IInv, AccountsOK, Callback, Leaves
  PROVE  AccountsOK'
<1>1. /\ step = "returned" /\ step' \in {"none", "queued"}
      /\ tasks' = IF GoesOn THEN Append(Tail(tasks), NextOfCall) ELSE Tail(tasks)
  BY DEF Callback, ExecuteNext, StepAfter, GoesOn, NextOfCall, KeyCmd
<1>2. tasks \in Seq(Task) /\ tasks # <<>> /\ Head(tasks) \in Task /\ Tail(tasks) \in Seq(Task)
  BY <1>1 DEF IInv, QueueOK
<1>3. /\ settled' = Append(settled, Head(tasks)) /\ executed' = executed
      /\ entered' = IF GoesOn THEN Append(entered, NextOfCall) ELSE entered
      /\ settled \in Seq(Task) /\ entered \in Seq(Task) /\ executed \in Seq(Task)
      /\ entered = settled \o tasks /\ executed = Append(settled, Head(tasks))
  BY <1>1, <1>2, AppendIsConcat DEF Leaves, AccountsOK, OneByOne, Begun
<1>4. settled' \in Seq(Task) /\ entered = settled' \o Tail(tasks)
  BY <1>2, <1>3, HeadMoves
<1>5. entered' = settled' \o tasks' /\ entered' \in Seq(Task)
  <2>1. CASE GoesOn
    <3>1. NextOfCall \in Task
      BY <1>1, <1>2, <2>1, KeyHead
         DEF GoesOn, NextOfCall, Cmd, KeyCmd, Task, Following, LastOfCall
    <3>2. Append(settled' \o Tail(tasks), NextOfCall) = settled' \o Append(Tail(tasks), NextOfCall)
      BY <1>2, <1>4, <3>1, AppendToBoth
    <3>3. entered' = Append(entered, NextOfCall) /\ tasks' = Append(Tail(tasks), NextOfCall)
      BY <1>1, <1>3, <2>1
    <3>4. Append(entered, NextOfCall) \in Seq(Task)
      BY <1>3, <3>1
    <3> QED
      BY <1>4, <3>2, <3>3, <3>4
  <2>2. CASE ~GoesOn
    BY <1>1, <1>3, <1>4, <2>2
  <2> QED
    BY <2>1, <2>2
<1>6. executed' = settled' \o <<>> /\ executed' \in Seq(Task)
  BY <1>3, <1>4, ConcatEmptySeq
<1> QED
  BY <1>1, <1>4, <1>5, <1>6 DEF AccountsOK, OneByOne, Begun

\* The commands of overlapping calls of init, setPubKey, setPrvKey and connect are
\* executed one at a time and answered in the order in which they were queued, each
\* after it was executed; those that callbacks queue take their place behind what
\* was queued before them.
THEOREM CommandsOneByOne == HSpec => []OneByOne
<1>1. HInit => AccountsOK
  <2> SUFFICES ASSUME HInit PROVE AccountsOK
    OBVIOUS
  <2>1. tasks = <<>> /\ entered = <<>> /\ executed = <<>> /\ settled = <<>> /\ ~Begun
    BY DEF HInit, Init, Begun
  <2>2. <<>> \in Seq(Task) /\ <<>> \o <<>> = <<>>
    BY EmptySeq, ConcatEmptySeq
  <2> QED
    BY <2>1, <2>2 DEF AccountsOK, OneByOne
<1>2. HSpec => Spec
  <2>1. HInit => Init
    BY DEF HInit
  <2>2. [HNext]_<<vars, accounts>> => [Next]_vars
    BY DEF HNext, Next
  <2> QED
    BY <2>1, <2>2, PTL DEF HSpec, Spec
<1>3. IInv /\ AccountsOK /\ [HNext]_<<vars, accounts>> => AccountsOK'
  <2> SUFFICES ASSUME IInv, AccountsOK, [HNext]_<<vars, accounts>> PROVE AccountsOK'
    OBVIOUS
  <2>1. ASSUME NEW cmd \in {"writePub", "writePrv"}, NEW init \in BOOLEAN,
               Counted, QueueKeys(cmd, init), Enters(FirstOf(cmd, init))
        PROVE  AccountsOK'
    <3>1. cmd \in KeyCmd /\ FirstOf(cmd, init) \in Task
      BY <2>1, KeyTask DEF KeyCmd, Counted, FirstOf
    <3>2. AddCommand(FirstOf(cmd, init))
      BY <2>1 DEF QueueKeys, FirstOf
    <3> QED
      BY <2>1, <3>1, <3>2, EntersInOrder
  <2>2. CASE CallInit(TRUE) /\ Enters(FirstOf("writePub", TRUE))
    <3>1. Counted /\ QueueKeys("writePub", TRUE)
      BY <2>2 DEF CallInit
    <3> QED
      BY <2>1, <2>2, <3>1
  <2>3. ASSUME NEW cmd \in {"writePub", "writePrv"}, CallSetKey(cmd), Enters(FirstOf(cmd, FALSE))
        PROVE  AccountsOK'
    <3>1. Counted /\ QueueKeys(cmd, FALSE)
      BY <2>3 DEF CallSetKey
    <3> QED
      BY <2>1, <2>3, <3>1
  <2>4. ASSUME CallConnect,
               Enters([cmd |-> "connect", keys |-> given, ready |-> keyed = answered /\ ~overtaken])
        PROVE  AccountsOK'
    <3>1. [cmd |-> "connect", keys |-> given, ready |-> keyed = answered /\ ~overtaken] \in Task
      BY DEF IInv, CallsOK, Task
    <3> QED
      BY <2>4, <3>1, EntersInOrder DEF CallConnect
  <2>5. CASE Take /\ Begins
    BY <2>5, BeginsInOrder
  <2>6. CASE Callback /\ Leaves
    BY <2>6, LeavesInOrder
  <2>7. CASE (CallInit(FALSE) \/ Worker) /\ UNCHANGED accounts
    <3>1. tasks' = tasks /\ Begun' = Begun
      <4>1. CASE CallInit(FALSE)
        BY <4>1 DEF CallInit, queue, Begun
      <4>2. CASE Worker
        <5>1. step = "running" /\ Return
          BY <4>2 DEF Worker, WriteTmpFile, StartSetKey, StartConnect
        <5> QED
          BY <5>1 DEF Return, Begun
      <4> QED
        BY <2>7, <4>1, <4>2
    <3> QED
      BY <2>7, <3>1 DEF accounts, AccountsOK, OneByOne
  <2>8. CASE UNCHANGED <<vars, accounts>>
    BY <2>8 DEF vars, queue, accounts, AccountsOK, OneByOne, Begun
  <2> QED
    BY <2>2, <2>3, <2>4, <2>5, <2>6, <2>7, <2>8 DEF HNext
<1>4. AccountsOK => OneByOne
  BY DEF AccountsOK
<1> QED
  BY <1>1, <1>2, <1>3, <1>4, Invariance, PTL DEF HSpec
=============================================================================
