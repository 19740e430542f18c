------------------------ MODULE ConnectionKeysProofs ------------------------
(***************************************************************************)
(* A connect uses the last keys that were given, for any number of calls:  *)
(* the commands of the calls mix in the queue, but what is to set the last *)
(* key stays behind whatever else is to set one.                           *)
(***************************************************************************)
EXTENDS ConnectionProofs

\* How far a call is whose next command is cmd.
Stage(cmd) ==
  IF cmd = "writePub" THEN 1 ELSE IF cmd = "setPubKey" THEN 2
  ELSE IF cmd = "writePrv" THEN 3 ELSE 4

IsKey(x) == x.cmd \in KeyCmd

\* The call of x is still to set the key of this kind, "pub" or "prv".
Gives(kind, x) ==
  IF kind = "pub" THEN x.cmd \in {"writePub", "setPubKey"}
  ELSE x.cmd \in {"writePrv", "setPrvKey"} \/ (IsKey(x) /\ x.init)

\* The stage in which it sets it, the key that is set, and the last one given.
SetsAt(kind) == IF kind = "pub" THEN 2 ELSE 4
KeySet(kind) == IF kind = "pub" THEN pub ELSE prv
LastGiven(kind) == IF kind = "pub" THEN given.pub ELSE given.prv

\* The call of tasks[i] sets its key before that of tasks[g] does: it is in front
\* and as far at least, or behind and farther.
Ahead(i, g) ==
  \/ i < g /\ Stage(tasks[i].cmd) >= Stage(tasks[g].cmd)
  \/ i > g /\ Stage(tasks[i].cmd) > Stage(tasks[g].cmd)

\* The last key given is set and none is to come, or the call that gave it is to
\* set it after all others.
LastStays(kind) ==
  \/ /\ KeySet(kind) = LastGiven(kind)
     /\ \A i \in 1..Len(tasks) : ~Gives(kind, tasks[i])
  \/ \E g \in 1..Len(tasks) :
       /\ Gives(kind, tasks[g]) /\ tasks[g].call = LastGiven(kind)
       /\ \A i \in 1..Len(tasks) : i # g /\ Gives(kind, tasks[i]) => Ahead(i, g)

\* Each call has one command in the queue, until it is answered.
OneCommandEach ==
  /\ \A i, j \in 1..Len(tasks) :
       i < j /\ IsKey(tasks[i]) /\ IsKey(tasks[j]) => tasks[i].call # tasks[j].call
  /\ \A i \in 1..Len(tasks) : IsKey(tasks[i]) => tasks[i].call \notin answered

ReturnedKey ==
  step = "returned" =>
    /\ Cmd \in KeyCmd => ~error
    /\ Cmd = "setPubKey" => pub = Head(tasks).call
    /\ Cmd = "setPrvKey" => prv = Head(tasks).call

\* No key command is before a connect that was called when all were done.
ReadyConnects ==
  \A i \in 1..Len(tasks) : tasks[i].cmd = "connect" /\ tasks[i].ready =>
    /\ \A j \in 1..i : tasks[j].cmd = "connect"
    /\ tasks[i].keys = [pub |-> pub, prv |-> prv]

KeysTrue ==
  /\ OneCommandEach /\ ReturnedKey /\ ReadyConnects
  /\ LastStays("pub") /\ (overtaken \/ LastStays("prv"))

KInv == ~keyFailed => KeysTrue

-----------------------------------------------------------------------------

\* The tasks and the calls they belong to.
LEMMA TaskFacts ==
  ASSUME IInv
  PROVE  /\ Len(tasks) \in Nat /\ calls \in Nat
         /\ \A i \in 1..Len(tasks) :
              /\ tasks[i] \in Task
              /\ IsKey(tasks[i]) \/ tasks[i].cmd = "connect"
              /\ IsKey(tasks[i]) =>
                   /\ tasks[i].call \in keyed /\ tasks[i].call \in 1..calls
                   /\ tasks[i] \in [cmd : KeyCmd, call : 1..MaxCalls, init : BOOLEAN]
<1>1. Len(tasks) \in Nat /\ calls \in Nat
  BY BoundsAssumption DEF IInv, QueueOK, CallsOK
<1>2. ASSUME NEW i \in 1..Len(tasks)
      PROVE  /\ tasks[i] \in Task
             /\ IsKey(tasks[i]) \/ tasks[i].cmd = "connect"
             /\ IsKey(tasks[i]) =>
                  tasks[i] \in [cmd : KeyCmd, call : 1..MaxCalls, init : BOOLEAN]
  <2>1. tasks[i] \in Task
    BY DEF IInv, QueueOK
  <2> QED
    BY <2>1 DEF Task, IsKey, KeyCmd
<1>3. \A i \in 1..Len(tasks) : IsKey(tasks[i]) =>
        tasks[i].call \in keyed /\ tasks[i].call \in 1..calls
  BY DEF IInv, KeyCommandsKeyed, CallsOK, IsKey
<1> QED
  BY <1>1, <1>2, <1>3

LEMMA StageFacts ==
  /\ Stage("writePub") = 1 /\ Stage("setPubKey") = 2
  /\ Stage("writePrv") = 3 /\ Stage("setPrvKey") = 4
  /\ \A cmd : Stage(cmd) \in 1..4
  /\ \A kind \in {"pub", "prv"} : \A x :
       Gives(kind, x) => IsKey(x) /\ Stage(x.cmd) <= SetsAt(kind)
BY DEF Stage, KeyCmd, Gives, IsKey, SetsAt

LEMMA InitKInv == Init => KInv
<1> SUFFICES ASSUME Init PROVE KeysTrue
  BY DEF KInv
<1>1. Len(tasks) = 0 /\ step = "none" /\ pub = 0 /\ prv = 0 /\ given = [pub |-> 0, prv |-> 0]
  BY DEF Init
<1>2. LastStays("pub") /\ LastStays("prv")
  BY <1>1 DEF LastStays, KeySet, LastGiven
<1> QED
  BY <1>1, <1>2 DEF KeysTrue, OneCommandEach, ReturnedKey, ReadyConnects

\* What the invariant says depends on these variables only.
LEMMA SameKeys ==
  ASSUME KInv,
         UNCHANGED <<tasks, step, error, pub, prv, answered, given, keyFailed, overtaken>>
  PROVE  KInv'
BY DEF KInv, KeysTrue, OneCommandEach, LastStays, Ahead, KeySet, LastGiven, ReturnedKey,
       ReadyConnects, Cmd

\* A command goes behind the others.
LEMMA AppendFacts ==
  ASSUME IInv, NEW t \in Task, AddCommand(t)
  PROVE  /\ Len(tasks') = Len(tasks) + 1 /\ tasks'[Len(tasks) + 1] = t
         /\ \A i \in 1..Len(tasks) : tasks'[i] = tasks[i] /\ i \in 1..Len(tasks')
         /\ \A i \in 1..Len(tasks') : i \in 1..Len(tasks) \/ i = Len(tasks) + 1
         /\ step' = "returned" =>
              step = "returned" /\ Cmd' = Cmd /\ error' = error /\ Head(tasks') = Head(tasks)
<1>1. /\ Len(tasks') = Len(tasks) + 1 /\ tasks'[Len(tasks) + 1] = t
      /\ \A i \in 1..Len(tasks) : tasks'[i] = tasks[i]
      /\ step' = "returned" => step = "returned" /\ Cmd' = Cmd /\ error' = error
      /\ QueueOK'
  BY AddCommandStep
<1>2. Len(tasks) \in Nat
  BY TaskFacts
<1>3. /\ \A i \in 1..Len(tasks') : i \in 1..Len(tasks) \/ i = Len(tasks) + 1
      /\ \A i \in 1..Len(tasks) : i \in 1..Len(tasks')
  BY <1>1, <1>2
<1>4. ASSUME step' = "returned" PROVE Head(tasks') = Head(tasks)
  <2>1. tasks # <<>> /\ tasks \in Seq(Task) /\ tasks' \in Seq(Task)
    BY <1>1, <1>4 DEF IInv, QueueOK
  <2>2. Head(tasks) = tasks[1] /\ 1 \in 1..Len(tasks)
    BY <2>1
  <2>3. Head(tasks') = tasks'[1]
    BY <1>1, <1>2, <2>1
  <2> QED
    BY <1>1, <2>2, <2>3
<1> QED
  BY <1>1, <1>3, <1>4

\* A command behind the others that gives no key of this kind.
LEMMA LastUntouched ==
  ASSUME IInv, NEW t \in Task, AddCommand(t), NEW kind \in {"pub", "prv"},
         ~Gives(kind, t), LastStays(kind),
         UNCHANGED <<pub, prv>>, LastGiven(kind)' = LastGiven(kind)
  PROVE  LastStays(kind)'
<1> DEFINE n == Len(tasks)
<1>1. /\ tasks'[n + 1] = t /\ KeySet(kind)' = KeySet(kind)
      /\ \A i \in 1..n : tasks'[i] = tasks[i] /\ i \in 1..Len(tasks')
      /\ \A i \in 1..Len(tasks') : i \in 1..n \/ i = n + 1
  BY AppendFacts DEF KeySet
<1> HIDE DEF n
<1>2. CASE KeySet(kind) = LastGiven(kind) /\ \A i \in 1..n : ~Gives(kind, tasks[i])
  <2>1. \A i \in 1..Len(tasks') : ~Gives(kind, tasks'[i])
    BY <1>1, <1>2
  <2> QED
    BY <1>1, <1>2, <2>1 DEF LastStays, Gives, IsKey
<1>3. ASSUME NEW g \in 1..n, Gives(kind, tasks[g]), tasks[g].call = LastGiven(kind),
             \A i \in 1..n : i # g /\ Gives(kind, tasks[i]) => Ahead(i, g)
      PROVE  LastStays(kind)'
  <2>1. g \in 1..Len(tasks') /\ Gives(kind, tasks'[g]) /\ tasks'[g].call = LastGiven(kind)'
    BY <1>1, <1>3
  <2>2. ASSUME NEW i \in 1..Len(tasks'), i # g, Gives(kind, tasks'[i]) PROVE Ahead(i, g)'
    <3>1. i \in 1..n /\ tasks'[i] = tasks[i] /\ tasks'[g] = tasks[g]
      BY <1>1, <2>2
    <3> QED
      BY <1>3, <2>2, <3>1 DEF Ahead
  <2> QED
    BY <2>1, <2>2 DEF LastStays, Gives, IsKey
<1> QED
  BY <1>2, <1>3 DEF LastStays, n

\* A command behind the others that gives the last key of this kind, and is no
\* farther than any other that gives one.
LEMMA LastAppended ==
  ASSUME IInv, NEW t \in Task, AddCommand(t), NEW kind \in {"pub", "prv"},
         Gives(kind, t), t.call = LastGiven(kind)',
         \A i \in 1..Len(tasks) : Gives(kind, tasks[i]) => Stage(tasks[i].cmd) >= Stage(t.cmd)
  PROVE  LastStays(kind)'
<1> DEFINE n == Len(tasks)
<1>1. /\ tasks'[n + 1] = t /\ n \in Nat /\ n + 1 \in 1..Len(tasks')
      /\ \A i \in 1..n : tasks'[i] = tasks[i]
      /\ \A i \in 1..Len(tasks') : i \in 1..n \/ i = n + 1
  BY AppendFacts, TaskFacts
<1>2. PICK m \in 1..Len(tasks') : m = n + 1
  BY <1>1
<1> HIDE DEF n
<1>3. ASSUME NEW i \in 1..Len(tasks'), i # m, Gives(kind, tasks'[i]) PROVE Ahead(i, m)'
  <2>1. i \in 1..n /\ i < m /\ tasks'[i] = tasks[i] /\ tasks'[m] = t
    BY <1>1, <1>2, <1>3
  <2>2. Stage(tasks[i].cmd) >= Stage(t.cmd)
    BY <1>3, <2>1 DEF n
  <2> QED
    BY <2>1, <2>2 DEF Ahead
<1>4. tasks'[m] = t
  BY <1>1, <1>2
<1> QED
  BY <1>3, <1>4 DEF LastStays, Gives, IsKey

\* A call with keys queues its first command.
LEMMA BeginStep ==
  ASSUME IInv, KeysTrue, NEW cmd \in {"writePub", "writePrv"}, NEW init \in BOOLEAN,
         Counted, QueueKeys(cmd, init), cmd = "writePrv" => ~init,
         overtaken' = IF init THEN FALSE
                      ELSE IF cmd = "writePub" THEN overtaken ELSE PrivateKeyToCome,
         given' = IF init THEN [pub |-> calls', prv |-> calls']
                  ELSE IF cmd = "writePub" THEN [given EXCEPT !.pub = calls']
                  ELSE [given EXCEPT !.prv = calls']
  PROVE  KeysTrue'
<1> DEFINE new == [cmd |-> cmd, call |-> calls', init |-> init]
           n == Len(tasks)
<1>1. /\ cmd \in KeyCmd /\ calls' = calls + 1 /\ answered' = answered
      /\ pub' = pub /\ prv' = prv
      /\ new \in Task /\ AddCommand(new)
  BY KeyTask DEF Counted, QueueKeys, KeyCmd, keys
<1>2. /\ new.cmd = cmd /\ new.call = calls + 1 /\ new.init = init /\ new.call = calls'
  BY <1>1
<1> HIDE DEF new
<1>3. /\ Len(tasks') = n + 1 /\ tasks'[n + 1] = new
      /\ \A i \in 1..n : tasks'[i] = tasks[i]
      /\ \A i \in 1..Len(tasks') : i \in 1..n \/ i = n + 1
      /\ step' = "returned" =>
           step = "returned" /\ Cmd' = Cmd /\ error' = error /\ Head(tasks') = Head(tasks)
  BY <1>1, AppendFacts
<1>4. /\ n \in Nat /\ calls \in Nat
      /\ \A i \in 1..n : IsKey(tasks[i]) => tasks[i].call \in 1..calls
  BY TaskFacts
<1>5. answered \subseteq 1..calls /\ given \in [pub : 0..MaxCalls, prv : 0..MaxCalls]
  BY DEF IInv, CallsOK, Keys
<1>6. OneCommandEach'
  <2>1. \A i \in 1..n : IsKey(tasks[i]) => tasks[i].call # new.call
    BY <1>2, <1>4
  <2>2. new.call \notin answered
    BY <1>2, <1>4, <1>5
  <2>3. ASSUME NEW i \in 1..Len(tasks'), NEW j \in 1..Len(tasks'),
               i < j, IsKey(tasks'[i]), IsKey(tasks'[j])
        PROVE  tasks'[i].call # tasks'[j].call
    <3>1. i \in 1..n /\ tasks'[i] = tasks[i]
      BY <1>3, <1>4, <2>3
    <3>2. CASE j \in 1..n
      BY <1>3, <2>3, <3>1, <3>2 DEF KeysTrue, OneCommandEach
    <3>3. CASE j = n + 1
      BY <1>3, <2>1, <2>3, <3>1, <3>3
    <3> QED
      BY <1>3, <3>2, <3>3
  <2>4. \A i \in 1..Len(tasks') : IsKey(tasks'[i]) => tasks'[i].call \notin answered'
    BY <1>1, <1>3, <2>2 DEF KeysTrue, OneCommandEach
  <2> QED
    BY <2>3, <2>4 DEF OneCommandEach, IsKey
<1>7. LastStays("pub")'
  <2>1. CASE cmd = "writePub"
    <3>1. given'.pub = calls' /\ Gives("pub", new) /\ Stage(new.cmd) = 1
      BY <1>1, <1>2, <1>5, <2>1, StageFacts DEF Gives
    <3>2. \A i \in 1..n : Stage(tasks[i].cmd) >= 1
      BY StageFacts
    <3> QED
      BY <1>1, <1>2, <3>1, <3>2, LastAppended DEF LastGiven
  <2>2. CASE cmd = "writePrv"
    <3>1. given'.pub = given.pub /\ ~Gives("pub", new)
      BY <1>2, <1>5, <2>2 DEF Gives
    <3>2. LastStays("pub") /\ LastGiven("pub")' = LastGiven("pub")
      BY <3>1 DEF KeysTrue, LastGiven
    <3> QED
      BY <1>1, <3>1, <3>2, LastUntouched
  <2> QED
    BY <2>1, <2>2
<1>8. overtaken' \/ LastStays("prv")'
  <2>1. CASE init
    <3>1. given'.prv = calls' /\ Gives("prv", new) /\ Stage(new.cmd) = 1
      BY <1>1, <1>2, <2>1, StageFacts DEF Gives, IsKey
    <3>2. \A i \in 1..n : Stage(tasks[i].cmd) >= 1
      BY StageFacts
    <3> QED
      BY <1>1, <1>2, <3>1, <3>2, LastAppended DEF LastGiven
  <2>2. CASE ~init /\ cmd = "writePub"
    <3>1. given'.prv = given.prv /\ ~Gives("prv", new) /\ (overtaken => overtaken')
      BY <1>2, <1>5, <2>2 DEF Gives
    <3>2. LastGiven("prv")' = LastGiven("prv")
      BY <3>1 DEF LastGiven
    <3>3. LastStays("prv") => LastStays("prv")'
      BY <1>1, <3>1, <3>2, LastUntouched
    <3> QED
      BY <3>1, <3>3 DEF KeysTrue
  <2>3. CASE cmd = "writePrv" /\ ~PrivateKeyToCome
    <3>1. given'.prv = calls' /\ Gives("prv", new) /\ Stage(new.cmd) = 3
      BY <1>1, <1>2, <1>5, <2>3, StageFacts DEF Gives
    <3>2. ASSUME NEW i \in 1..n, Gives("prv", tasks[i]) PROVE Stage(tasks[i].cmd) >= 3
      BY <2>3, <3>2 DEF PrivateKeyToCome, Gives, Stage
    <3> QED
      BY <1>1, <1>2, <3>1, <3>2, LastAppended DEF LastGiven
  <2>4. cmd = "writePrv" => overtaken' = PrivateKeyToCome
    OBVIOUS
  <2> QED
    BY <2>1, <2>2, <2>3, <2>4
<1>9. ReturnedKey'
  BY <1>1, <1>3 DEF KeysTrue, ReturnedKey
<1>10. ReadyConnects'
  <2>1. new.cmd # "connect"
    BY <1>2
  <2> SUFFICES ASSUME NEW i \in 1..n, tasks[i].cmd = "connect", tasks[i].ready
               PROVE  /\ \A j \in 1..i : tasks'[j].cmd = "connect"
                      /\ tasks'[i].keys = [pub |-> pub', prv |-> prv']
    BY <1>3, <2>1 DEF ReadyConnects
  <2>2. \A j \in 1..i : j \in 1..n
    BY <1>4
  <2> QED
    BY <1>1, <1>3, <2>2 DEF KeysTrue, ReadyConnects
<1> QED
  BY <1>6, <1>7, <1>8, <1>9, <1>10 DEF KeysTrue

LEMMA CallsKInv ==
  ASSUME IInv, KInv,
         \/ \E withKeys \in BOOLEAN : CallInit(withKeys)
         \/ \E cmd \in {"writePub", "writePrv"} : CallSetKey(cmd)
  PROVE  KInv'
<1>1. ASSUME CallInit(TRUE) PROVE KInv'
  <2>1. /\ Counted /\ QueueKeys("writePub", TRUE) /\ UNCHANGED keyFailed
        /\ given' = [pub |-> calls', prv |-> calls'] /\ overtaken' = FALSE
    BY <1>1 DEF CallInit, Counted, keys
  <2>2. ASSUME KeysTrue PROVE KeysTrue'
    BY <2>1, <2>2, BeginStep
  <2> QED
    BY <2>1, <2>2 DEF KInv
<1>2. ASSUME CallInit(FALSE) PROVE KInv'
  BY <1>2, SameKeys DEF CallInit, Counted, queue, keys
<1>3. ASSUME NEW cmd \in {"writePub", "writePrv"}, CallSetKey(cmd) PROVE KInv'
  <2>1. Counted /\ QueueKeys(cmd, FALSE) /\ UNCHANGED keyFailed
    BY <1>3, Zenon DEF CallSetKey, Counted, keys
  <2>2. /\ given' = IF cmd = "writePub" THEN [given EXCEPT !.pub = calls']
                                        ELSE [given EXCEPT !.prv = calls']
        /\ overtaken' = IF cmd = "writePub" THEN overtaken ELSE PrivateKeyToCome
    BY <1>3, Zenon DEF CallSetKey
  <2>3. ASSUME KeysTrue PROVE KeysTrue'
    BY <2>1, <2>2, <2>3, BeginStep
  <2> QED
    BY <2>1, <2>3 DEF KInv
<1> QED
  BY <1>1, <1>2, <1>3

\* A connect that is called when all calls are done finds the last keys set.
LEMMA CallConnectKInv ==
  ASSUME IInv, KInv, CallConnect
  PROVE  KInv'
<1> DEFINE new == [cmd |-> "connect", keys |-> given, ready |-> keyed = answered /\ ~overtaken]
           n == Len(tasks)
<1>1. AddCommand(new) /\ UNCHANGED <<pub, prv, keyFailed, answered, given, overtaken>>
  BY DEF CallConnect, keys
<1>2. /\ new \in Task /\ new.cmd = "connect" /\ new.keys = given
      /\ new.ready <=> keyed = answered /\ ~overtaken
  BY DEF IInv, CallsOK, KeysOK, Task
<1> HIDE DEF new
<1>3. /\ Len(tasks') = n + 1 /\ tasks'[n + 1] = new
      /\ \A i \in 1..n : tasks'[i] = tasks[i]
      /\ \A i \in 1..Len(tasks') : i \in 1..n \/ i = n + 1
      /\ step' = "returned" =>
           step = "returned" /\ Cmd' = Cmd /\ error' = error /\ Head(tasks') = Head(tasks)
  BY <1>1, <1>2, AppendFacts
<1>4. /\ n \in Nat /\ \A i \in 1..n : i \in 1..Len(tasks')
      /\ \A i \in 1..n : IsKey(tasks[i]) => tasks[i].call \in keyed
      /\ \A i \in 1..n : IsKey(tasks[i]) \/ tasks[i].cmd = "connect"
  BY <1>3, TaskFacts
<1>5. ~IsKey(new) /\ \A kind \in {"pub", "prv"} : ~Gives(kind, new)
  BY <1>2 DEF IsKey, KeyCmd, Gives
<1> SUFFICES ASSUME KeysTrue PROVE KeysTrue'
  BY <1>1 DEF KInv
<1>6. OneCommandEach'
  BY <1>1, <1>3, <1>5 DEF KeysTrue, OneCommandEach, IsKey
<1>7. LastStays("pub")' /\ (overtaken' \/ LastStays("prv")')
  BY <1>1, <1>2, <1>5, LastUntouched DEF KeysTrue, LastGiven
<1>8. ReturnedKey'
  BY <1>1, <1>3 DEF KeysTrue, ReturnedKey
<1>9. ReadyConnects'
  <2>1. ASSUME NEW i \in 1..n, tasks[i].cmd = "connect", tasks[i].ready
        PROVE  /\ \A j \in 1..i : tasks'[j].cmd = "connect"
               /\ tasks'[i].keys = [pub |-> pub', prv |-> prv']
    <3>1. \A j \in 1..i : j \in 1..n
      BY <1>4
    <3> QED
      BY <1>1, <1>3, <2>1, <3>1 DEF KeysTrue, ReadyConnects
  <2>2. ASSUME new.ready
        PROVE  /\ \A j \in 1..n + 1 : tasks'[j].cmd = "connect"
               /\ new.keys = [pub |-> pub', prv |-> prv']
    <3>1. \A i \in 1..n : ~IsKey(tasks[i])
      BY <1>2, <1>4, <2>2 DEF KeysTrue, OneCommandEach
    <3>2. \A i \in 1..n : ~Gives("pub", tasks[i]) /\ ~Gives("prv", tasks[i])
      BY <3>1, StageFacts
    <3>3. pub = given.pub /\ prv = given.prv
      BY <1>2, <2>2, <3>2 DEF KeysTrue, LastStays, KeySet, LastGiven
    <3>4. given = [pub |-> given.pub, prv |-> given.prv]
      BY DEF IInv, CallsOK, Keys
    <3> QED
      BY <1>1, <1>2, <1>3, <1>4, <3>1, <3>3, <3>4
  <2> SUFFICES ASSUME NEW i \in 1..Len(tasks'), tasks'[i].cmd = "connect", tasks'[i].ready
               PROVE  /\ \A j \in 1..i : tasks'[j].cmd = "connect"
                      /\ tasks'[i].keys = [pub |-> pub', prv |-> prv']
    BY DEF ReadyConnects
  <2>3. CASE i \in 1..n
    BY <1>3, <2>1, <2>3
  <2>4. CASE i = n + 1
    BY <1>3, <2>2, <2>4
  <2> QED
    BY <1>3, <2>3, <2>4
<1> QED
  BY <1>6, <1>7, <1>8, <1>9 DEF KeysTrue

\* A key is set by the head; while one is to come, LastStays does not look at the
\* key that is set.
LEMMA WorkerKInv ==
  ASSUME IInv, KInv, Worker
  PROVE  KInv'
<1>1. CASE StartConnect
  BY <1>1 DEF StartConnect, Return, history, keys, KInv, KeysTrue, OneCommandEach, LastStays, Ahead,
              KeySet, LastGiven, ReturnedKey, ReadyConnects, Cmd, KeyCmd
<1>2. CASE WriteTmpFile \/ StartSetKey
  <2>1. /\ step = "running" /\ step' = "returned" /\ error' \in BOOLEAN
        /\ keyFailed' = (keyFailed \/ error')
        /\ UNCHANGED <<tasks, answered, given, overtaken>>
    BY <1>2 DEF WriteTmpFile, StartSetKey, Return, history
  <2> SUFFICES ASSUME KeysTrue, ~error' PROVE KeysTrue'
    BY <2>1 DEF KInv
  <2>2. /\ 1 \in 1..Len(tasks) /\ Head(tasks) = tasks[1] /\ Cmd' = Cmd /\ tasks[1].cmd = Cmd
        /\ Len(tasks) \in Nat
    BY <2>1, HeadTask DEF Cmd
  <2>3. CASE WriteTmpFile
    BY <2>1, <2>2, <2>3
       DEF WriteTmpFile, KeysTrue, OneCommandEach, LastStays, Ahead, KeySet, LastGiven,
           ReturnedKey, ReadyConnects
  <2>4. CASE StartSetKey
    <3>1. /\ Cmd \in {"setPubKey", "setPrvKey"}
          /\ Cmd = "setPubKey" => pub' = tasks[1].call /\ prv' = prv
          /\ Cmd = "setPrvKey" => prv' = tasks[1].call /\ pub' = pub
      BY <2>2, <2>4 DEF StartSetKey, Store, KeyRead
    <3>2. OneCommandEach'
      BY <2>1 DEF KeysTrue, OneCommandEach
    <3>3. ASSUME NEW kind \in {"pub", "prv"}, LastStays(kind) PROVE LastStays(kind)'
      <4>1. Gives(kind, tasks[1]) \/ KeySet(kind)' = KeySet(kind)
        BY <2>2, <3>1, <3>3 DEF Gives, KeySet
      <4>2. LastGiven(kind)' = LastGiven(kind)
        BY <2>1 DEF LastGiven
      <4> QED
        BY <2>1, <2>2, <3>3, <4>1, <4>2 DEF LastStays, Ahead
    <3>4. LastStays("pub")' /\ (overtaken' \/ LastStays("prv")')
      BY <2>1, <3>3 DEF KeysTrue
    <3>5. ReturnedKey'
      BY <2>1, <2>2, <3>1 DEF ReturnedKey
    <3>6. \A i \in 1..Len(tasks) : 1 \in 1..i
      BY <2>2
    <3>7. ReadyConnects'
      BY <2>1, <2>2, <3>1, <3>6 DEF KeysTrue, ReadyConnects
    <3> QED
      BY <3>2, <3>4, <3>5, <3>7 DEF KeysTrue
  <2> QED
    BY <1>2, <2>3, <2>4
<1> QED
  BY <1>1, <1>2 DEF Worker

-----------------------------------------------------------------------------

\* The head leaves the queue, and the others move up.
LEMMA TailFacts ==
  ASSUME IInv, step # "none", NEW q, q = Tail(tasks)
  PROVE  /\ q \in Seq(Task) /\ Len(tasks) \in Nat /\ Len(q) = Len(tasks) - 1 /\ Len(q) \in Nat
         /\ \A i \in 1..Len(q) : i + 1 \in 2..Len(tasks) /\ i + 1 \in 1..Len(tasks)
                                 /\ q[i] = tasks[i + 1]
         /\ \A k \in 1..Len(tasks) : k # 1 => k - 1 \in 1..Len(q) /\ q[k - 1] = tasks[k]
BY HeadTask DEF IInv, QueueOK

\* When the head leaves, or goes behind the others with the next command of its
\* call, the call that gave the last key keeps its place behind those that give
\* one, or has set it.
LEMMA LastMoves ==
  ASSUME IInv, step = "returned", NEW kind \in {"pub", "prv"}, LastStays(kind),
         UNCHANGED <<pub, prv, given>>, NEW n, n = Len(tasks), NEW m \in {n - 1, n}, Len(tasks') = m,
         \A i \in 1..(n - 1) : tasks'[i] = tasks[i + 1],
         Gives(kind, tasks[1]) /\ (m = n - 1 \/ ~Gives(kind, tasks'[n])) =>
           KeySet(kind) = tasks[1].call /\ Stage(tasks[1].cmd) = SetsAt(kind),
         m = n /\ Gives(kind, tasks'[n]) =>
           /\ Gives(kind, tasks[1]) /\ tasks'[n].call = tasks[1].call
           /\ Stage(tasks'[n].cmd) = Stage(tasks[1].cmd) + 1
  PROVE  LastStays(kind)'
<1>1. n \in Nat /\ n >= 1 /\ m \in Nat /\ 1 \in 1..n
  BY HeadTask
<1>2. KeySet(kind)' = KeySet(kind) /\ LastGiven(kind)' = LastGiven(kind)
  BY DEF KeySet, LastGiven
<1>3. \A i \in 1..m : \/ i \in 1..(n - 1) /\ i + 1 \in 1..n /\ tasks'[i] = tasks[i + 1]
                      \/ i = n /\ m = n
  BY <1>1
<1>4. CASE /\ KeySet(kind) = LastGiven(kind)
           /\ \A i \in 2..n : ~Gives(kind, tasks[i])
           /\ ~(m = n /\ Gives(kind, tasks'[n]))
  <2>1. ASSUME NEW i \in 1..m PROVE ~Gives(kind, tasks'[i])
    <3>1. CASE i \in 1..(n - 1)
      <4>1. i + 1 \in 2..n /\ tasks'[i] = tasks[i + 1]
        BY <1>1, <3>1
      <4> QED
        BY <1>4, <4>1
    <3>2. CASE i = n /\ m = n
      BY <1>4, <3>2
    <3> QED
      BY <1>3, <3>1, <3>2
  <2> QED
    BY <1>2, <1>4, <2>1 DEF LastStays, Gives, IsKey
<1>5. CASE KeySet(kind) = LastGiven(kind) /\ \A i \in 1..n : ~Gives(kind, tasks[i])
  BY <1>1, <1>4, <1>5
<1>6. ASSUME NEW g \in 1..n, Gives(kind, tasks[g]), tasks[g].call = LastGiven(kind),
             \A i \in 1..n : i # g /\ Gives(kind, tasks[i]) => Ahead(i, g)
      PROVE  LastStays(kind)'
  <2>1. CASE g = 1 /\ ~(m = n /\ Gives(kind, tasks'[n]))
    <3>1. KeySet(kind) = LastGiven(kind) /\ Stage(tasks[1].cmd) = SetsAt(kind)
      BY <1>6, <2>1
    <3>2. ASSUME NEW i \in 2..n, Gives(kind, tasks[i]) PROVE FALSE
      <4>1. i \in 1..n /\ i # 1 /\ Stage(tasks[i].cmd) <= SetsAt(kind) /\ Stage(tasks[i].cmd) \in 1..4
            /\ Stage(tasks[1].cmd) \in 1..4
        BY <1>1, <3>2, StageFacts
      <4>2. Ahead(i, 1)
        BY <1>6, <2>1, <3>2, <4>1
      <4> QED
        BY <1>1, <3>1, <4>1, <4>2 DEF Ahead
    <3> QED
      BY <1>4, <2>1, <3>1, <3>2
  <2>2. CASE g = 1 /\ m = n /\ Gives(kind, tasks'[n])
    <3>1. n \in 1..m /\ Gives(kind, tasks'[n]) /\ tasks'[n].call = LastGiven(kind)
          /\ Stage(tasks'[n].cmd) = Stage(tasks[1].cmd) + 1
      BY <1>1, <1>6, <2>2
    <3>2. ASSUME NEW i \in 1..m, i # n, Gives(kind, tasks'[i]) PROVE Ahead(i, n)'
      <4>1. i \in 1..(n - 1) /\ i + 1 \in 1..n /\ i + 1 # 1 /\ tasks'[i] = tasks[i + 1] /\ i < n
        BY <1>1, <1>3, <3>2
      <4>2. Ahead(i + 1, 1)
        BY <1>6, <2>2, <3>2, <4>1
      <4>3. Stage(tasks[i + 1].cmd) \in 1..4 /\ Stage(tasks[1].cmd) \in 1..4
        BY StageFacts
      <4>4. Stage(tasks[i + 1].cmd) > Stage(tasks[1].cmd)
        BY <1>1, <4>1, <4>2 DEF Ahead
      <4>5. Stage(tasks'[i].cmd) >= Stage(tasks'[n].cmd)
        BY <3>1, <4>1, <4>3, <4>4
      <4> QED
        BY <4>1, <4>5 DEF Ahead
    <3> QED
      BY <1>2, <3>1, <3>2 DEF LastStays, Gives, IsKey
  <2>3. CASE g # 1
    <3> DEFINE h == g - 1
    <3>1. h \in 1..(n - 1) /\ h \in 1..m /\ tasks'[h] = tasks[g] /\ g = h + 1 /\ h \in Int
      BY <1>1, <2>3
    <3> HIDE DEF h
    <3>2. ASSUME NEW i \in 1..m, i # h, Gives(kind, tasks'[i]) PROVE Ahead(i, h)'
      <4>1. CASE i \in 1..(n - 1)
        <5>1. i + 1 \in 1..n /\ i + 1 # g /\ tasks'[i] = tasks[i + 1]
          BY <1>1, <3>1, <3>2, <4>1
        <5>2. Ahead(i + 1, g)
          BY <1>6, <3>2, <5>1
        <5>3. i + 1 < g <=> i < h
          BY <3>1, <4>1
        <5>4. i + 1 > g <=> i > h
          BY <3>1, <4>1
        <5> QED
          BY <3>1, <5>1, <5>2, <5>3, <5>4 DEF Ahead
      <4>2. CASE i = n /\ m = n
        <5>1. /\ Gives(kind, tasks[1]) /\ Stage(tasks'[n].cmd) = Stage(tasks[1].cmd) + 1
          BY <3>2, <4>2
        <5>2. Ahead(1, g) /\ 1 < g
          BY <1>1, <1>6, <2>3, <5>1
        <5>3. Stage(tasks[1].cmd) \in 1..4 /\ Stage(tasks[g].cmd) \in 1..4
          BY StageFacts
        <5>4. Stage(tasks[1].cmd) >= Stage(tasks[g].cmd)
          BY <1>6, <5>2 DEF Ahead
        <5>5. Stage(tasks'[n].cmd) > Stage(tasks[g].cmd)
          BY <5>1, <5>3, <5>4
        <5>6. i > h
          BY <1>1, <3>1, <4>2
        <5> QED
          BY <3>1, <4>2, <5>5, <5>6 DEF Ahead
      <4> QED
        BY <1>3, <4>1, <4>2
    <3>3. h \in 1..Len(tasks') /\ Gives(kind, tasks'[h]) /\ tasks'[h].call = LastGiven(kind)'
      BY <1>2, <1>6, <3>1
    <3> QED
      BY <3>2, <3>3 DEF LastStays, Gives, IsKey
  <2> QED
    BY <2>1, <2>2, <2>3
<1> QED
  BY <1>5, <1>6 DEF LastStays

\* The head is done: a connect, or the last command of a call.
LEMMA DoneStep ==
  ASSUME IInv, KeysTrue, step = "returned", step' # "returned",
         tasks' = Tail(tasks), UNCHANGED <<pub, prv, given, overtaken>>,
         \/ Cmd = "connect" /\ answered' = answered
         \/ /\ Cmd \in {"setPubKey", "setPrvKey"} /\ LastOfCall(Head(tasks))
            /\ answered' = answered \cup {Head(tasks).call}
  PROVE  KeysTrue'
<1> DEFINE t == tasks[1]
           n == Len(tasks)
<1>1. 1 \in 1..n /\ Head(tasks) = t /\ t.cmd = Cmd
  BY HeadTask DEF Cmd
<1>2. /\ n \in Nat /\ Len(tasks') = n - 1 /\ Len(tasks') \in Nat
      /\ \A i \in 1..Len(tasks') : i + 1 \in 2..n /\ i + 1 \in 1..n /\ tasks'[i] = tasks[i + 1]
  BY TailFacts
<1>3. OneCommandEach'
  <2>1. ASSUME NEW i \in 1..Len(tasks'), NEW j \in 1..Len(tasks'),
               i < j, IsKey(tasks'[i]), IsKey(tasks'[j])
        PROVE  tasks'[i].call # tasks'[j].call
    <3>1. i + 1 \in 1..n /\ j + 1 \in 1..n /\ i + 1 < j + 1
      BY <1>2, <2>1
    <3>2. tasks'[i] = tasks[i + 1] /\ tasks'[j] = tasks[j + 1]
      BY <1>2
    <3> QED
      BY <2>1, <3>1, <3>2 DEF KeysTrue, OneCommandEach
  <2>2. ASSUME NEW i \in 1..Len(tasks'), IsKey(tasks'[i])
        PROVE  tasks'[i].call \notin answered'
    <3>1. i + 1 \in 1..n /\ tasks'[i] = tasks[i + 1] /\ 1 < i + 1
      BY <1>2
    <3>2. tasks'[i].call \notin answered
      BY <2>2, <3>1 DEF KeysTrue, OneCommandEach
    <3>3. IsKey(t) => tasks'[i].call # t.call
      BY <1>1, <2>2, <3>1 DEF KeysTrue, OneCommandEach
    <3> QED
      BY <1>1, <3>2, <3>3 DEF IsKey, KeyCmd
  <2> QED
    BY <2>1, <2>2 DEF OneCommandEach, IsKey
<1>4. ASSUME NEW kind \in {"pub", "prv"}, LastStays(kind) PROVE LastStays(kind)'
  <2>1. Gives(kind, t) => KeySet(kind) = t.call /\ Stage(t.cmd) = SetsAt(kind)
    <3>1. Gives(kind, t) => \/ kind = "pub" /\ Cmd = "setPubKey"
                            \/ kind = "prv" /\ Cmd = "setPrvKey"
      BY <1>1 DEF Gives, IsKey, KeyCmd, LastOfCall
    <3>2. /\ Cmd = "setPubKey" => pub = t.call
          /\ Cmd = "setPrvKey" => prv = t.call
      BY <1>1 DEF KeysTrue, ReturnedKey
    <3> QED
      BY <1>1, <3>1, <3>2, StageFacts DEF KeySet, SetsAt
  <2>2. \A i \in 1..(n - 1) : tasks'[i] = tasks[i + 1]
    BY <1>2
  <2>3. n - 1 # n
    BY <1>2
  <2> HIDE DEF t
  <2> QED
    BY <1>2, <1>4, <2>1, <2>2, <2>3, LastMoves DEF t
<1>5. LastStays("pub")' /\ (overtaken' \/ LastStays("prv")')
  BY <1>4 DEF KeysTrue
<1>6. ReturnedKey'
  BY DEF ReturnedKey
<1>7. ReadyConnects'
  <2> SUFFICES ASSUME NEW i \in 1..Len(tasks'), tasks'[i].cmd = "connect", tasks'[i].ready
               PROVE  /\ \A j \in 1..i : tasks'[j].cmd = "connect"
                      /\ tasks'[i].keys = [pub |-> pub, prv |-> prv]
    BY DEF ReadyConnects
  <2>1. i + 1 \in 1..n /\ tasks'[i] = tasks[i + 1]
    BY <1>2
  <2>2. \A j \in 1..i : j \in 1..Len(tasks') /\ j + 1 \in 1..(i + 1)
    BY <1>2
  <2>3. \A j \in 1..(i + 1) : tasks[j].cmd = "connect"
    BY <2>1 DEF KeysTrue, ReadyConnects
  <2> QED
    BY <1>2, <2>1, <2>2, <2>3 DEF KeysTrue, ReadyConnects
<1> QED
  BY <1>3, <1>5, <1>6, <1>7 DEF KeysTrue

\* The next command of the call goes behind the others.
LEMMA GoesOnStep ==
  ASSUME IInv, KeysTrue, step = "returned", step' # "returned",
         Cmd \in KeyCmd, ~LastOfCall(Head(tasks)),
         tasks' = Append(Tail(tasks), [Head(tasks) EXCEPT !.cmd = Following(Cmd)]),
         UNCHANGED <<pub, prv, given, overtaken, answered>>
  PROVE  KeysTrue'
<1> DEFINE t == tasks[1]
           next == [Head(tasks) EXCEPT !.cmd = Following(Cmd)]
           n == Len(tasks)
<1>1. 1 \in 1..n /\ Head(tasks) = t /\ t.cmd = Cmd
  BY HeadTask DEF Cmd
<1>2. t \in [cmd : KeyCmd, call : 1..MaxCalls, init : BOOLEAN] /\ IsKey(t)
  <2>1. Head(tasks) \in [cmd : KeyCmd, call : 1..MaxCalls, init : BOOLEAN]
    BY KeyHead
  <2>2. t \in [cmd : KeyCmd, call : 1..MaxCalls, init : BOOLEAN]
    BY <1>1, <2>1
  <2> QED
    BY <1>1, <2>2 DEF IsKey
<1>3. /\ Cmd \in {"writePub", "setPubKey", "writePrv"}
      /\ Cmd = "setPubKey" => t.init
  BY <1>1, <1>2 DEF KeyCmd, LastOfCall
<1>4. /\ next.call = t.call /\ next.init = t.init /\ next.cmd = Following(Cmd)
      /\ Following(Cmd) \in KeyCmd
      /\ Stage(Following(Cmd)) = Stage(Cmd) + 1
      /\ Cmd = "writePub" => Following(Cmd) = "setPubKey"
      /\ Cmd = "setPubKey" => Following(Cmd) = "writePrv"
      /\ Cmd = "writePrv" => Following(Cmd) = "setPrvKey"
  BY <1>1, <1>2, <1>3, StageFacts DEF Following, KeyCmd
<1>5. next \in Task
  BY <1>1, <1>2, <1>4 DEF Task
<1> HIDE DEF next, n
<1>6. /\ n \in Nat /\ n >= 1 /\ Len(tasks') = n /\ tasks'[n] = next
      /\ \A i \in 1..n : i = n \/ i \in 1..(n - 1)
      /\ \A i \in 1..(n - 1) : i \in 1..n /\ i + 1 \in 2..n /\ i + 1 \in 1..n
                               /\ tasks'[i] = tasks[i + 1]
  <2> DEFINE q == Tail(tasks)
  <2>1. /\ q \in Seq(Task) /\ n \in Nat /\ Len(q) = n - 1 /\ Len(q) \in Nat
        /\ \A i \in 1..Len(q) : q[i] = tasks[i + 1]
    BY TailFacts DEF n
  <2> HIDE DEF q
  <2>2. tasks' = Append(q, next)
    BY DEF q, next
  <2>3. /\ Len(tasks') = n /\ tasks'[n] = next /\ n >= 1
        /\ \A i \in 1..(n - 1) : tasks'[i] = tasks[i + 1]
    BY <1>5, <2>1, <2>2, AppendProperties
  <2> QED
    BY <2>1, <2>3
<1>7. OneCommandEach'
  <2>1. \A i \in 2..n : IsKey(tasks[i]) => tasks[i].call # t.call
    <3>1. \A i \in 2..n : i \in 1..n /\ 1 < i
      BY <1>6
    <3> QED
      BY <1>1, <1>2, <3>1 DEF KeysTrue, OneCommandEach, n
  <2>2. ASSUME NEW i \in 1..n, NEW j \in 1..n, i < j, IsKey(tasks'[i]), IsKey(tasks'[j])
        PROVE  tasks'[i].call # tasks'[j].call
    <3>1. i \in 1..(n - 1) /\ i + 1 \in 1..n /\ i + 1 \in 2..n /\ tasks'[i] = tasks[i + 1]
      BY <1>6, <2>2
    <3>2. CASE j = n
      BY <1>4, <1>6, <2>1, <2>2, <3>1, <3>2
    <3>3. CASE j \in 1..(n - 1)
      <4>1. j + 1 \in 1..n /\ tasks'[j] = tasks[j + 1] /\ i + 1 < j + 1
        BY <1>6, <2>2, <3>3
      <4> QED
        BY <2>2, <3>1, <4>1 DEF KeysTrue, OneCommandEach, n
    <3> QED
      BY <1>6, <3>2, <3>3
  <2>3. t.call \notin answered /\ \A i \in 1..n : IsKey(tasks[i]) => tasks[i].call \notin answered
    BY <1>1, <1>2 DEF KeysTrue, OneCommandEach, n
  <2>4. \A i \in 1..n : IsKey(tasks'[i]) => tasks'[i].call \notin answered
    BY <1>4, <1>6, <2>3
  <2> QED
    BY <1>6, <2>2, <2>4 DEF OneCommandEach, IsKey
<1>8. ASSUME NEW kind \in {"pub", "prv"}, LastStays(kind) PROVE LastStays(kind)'
  <2>1. Gives(kind, t) /\ ~Gives(kind, next) =>
          KeySet(kind) = t.call /\ Stage(t.cmd) = SetsAt(kind)
    <3>1. Gives(kind, t) /\ ~Gives(kind, next) => kind = "pub" /\ Cmd = "setPubKey"
      BY <1>1, <1>2, <1>3, <1>4 DEF Gives, IsKey
    <3>2. Cmd = "setPubKey" => pub = t.call
      BY <1>1 DEF KeysTrue, ReturnedKey
    <3> QED
      BY <1>1, <3>1, <3>2, StageFacts DEF KeySet, SetsAt
  <2>2. Gives(kind, next) => /\ Gives(kind, t) /\ next.call = t.call
                             /\ Stage(next.cmd) = Stage(t.cmd) + 1
    BY <1>1, <1>2, <1>3, <1>4 DEF Gives, IsKey
  <2>3. n = Len(tasks) /\ n \in {n - 1, n} /\ n # n - 1
        /\ \A i \in 1..(n - 1) : tasks'[i] = tasks[i + 1]
    BY <1>6 DEF n
  <2> HIDE DEF t
  <2> QED
    BY <1>6, <1>8, <2>1, <2>2, <2>3, LastMoves DEF t
<1>9. LastStays("pub")' /\ (overtaken' \/ LastStays("prv")')
  BY <1>8 DEF KeysTrue
<1>10. ReturnedKey'
  BY DEF ReturnedKey
<1>11. ReadyConnects'
  \* The head is a key command, so no connect in the queue was called when all were done.
  <2>1. \A i \in 1..n : ~(tasks[i].cmd = "connect" /\ tasks[i].ready)
    <3>1. \A i \in 1..n : 1 \in 1..i
      BY <1>6
    <3> QED
      BY <1>1, <3>1 DEF KeysTrue, ReadyConnects, KeyCmd, n
  <2>2. next.cmd # "connect"
    BY <1>4 DEF KeyCmd
  <2>3. \A i \in 1..n : ~(tasks'[i].cmd = "connect" /\ tasks'[i].ready)
    <3> SUFFICES ASSUME NEW i \in 1..n
                 PROVE  ~(tasks'[i].cmd = "connect" /\ tasks'[i].ready)
      OBVIOUS
    <3>1. CASE i = n
      BY <1>6, <2>2, <3>1
    <3>2. CASE i \in 1..(n - 1)
      <4>1. i + 1 \in 1..n /\ tasks'[i] = tasks[i + 1]
        BY <1>6, <3>2
      <4> QED
        BY <2>1, <4>1
    <3> QED
      BY <1>6, <3>1, <3>2
  <2> QED
    BY <1>6, <2>3 DEF ReadyConnects
<1> QED
  BY <1>7, <1>9, <1>10, <1>11 DEF KeysTrue

LEMMA CallbackKInv ==
  ASSUME IInv, KInv, Callback
  PROVE  KInv'
<1>1. /\ step = "returned" /\ ExecuteNext(tasks')
      /\ UNCHANGED <<pub, prv, keyFailed, given, overtaken>>
  BY DEF Callback, keys
<1>2. step' # "returned"
  BY <1>1 DEF ExecuteNext, StepAfter
<1> SUFFICES ASSUME KeysTrue PROVE KeysTrue'
  BY <1>1 DEF KInv
<1>3. CASE Cmd = "connect"
  <2>1. tasks' = Tail(tasks) /\ answered' = answered
    BY <1>3 DEF Callback, KeyCmd
  <2> QED
    BY <1>1, <1>2, <1>3, <2>1, DoneStep
<1>4. CASE Cmd \in KeyCmd
  <2>1. ~error /\ Cmd # "connect"
    BY <1>1, <1>4 DEF KeysTrue, ReturnedKey, KeyCmd
  <2>2. CASE LastOfCall(Head(tasks))
    <3>1. Cmd \in {"setPubKey", "setPrvKey"}
      BY <2>2 DEF LastOfCall, Cmd
    <3>2. tasks' = Tail(tasks) /\ answered' = answered \cup {Head(tasks).call}
      BY <2>1, <2>2 DEF Callback, Tell
    <3> QED
      BY <1>1, <1>2, <2>2, <3>1, <3>2, DoneStep
  <2>3. CASE ~LastOfCall(Head(tasks))
    <3>1. /\ tasks' = Append(Tail(tasks), [Head(tasks) EXCEPT !.cmd = Following(Cmd)])
          /\ answered' = answered
      BY <2>1, <2>3 DEF Callback
    <3> QED
      BY <1>1, <1>2, <1>4, <2>3, <3>1, GoesOnStep
  <2> QED
    BY <2>2, <2>3
<1> QED
  BY <1>3, <1>4 DEF Callback

LEMMA NextKInv == IInv /\ KInv /\ [Next]_vars => KInv'
<1> SUFFICES ASSUME IInv, KInv, [Next]_vars PROVE KInv'
  OBVIOUS
<1>1. CASE \/ \E withKeys \in BOOLEAN : CallInit(withKeys)
           \/ \E cmd \in {"writePub", "writePrv"} : CallSetKey(cmd)
  BY <1>1, CallsKInv
<1>2. CASE CallConnect
  BY <1>2, CallConnectKInv
<1>3. CASE Take
  BY <1>3 DEF Take, keys, history, KInv, KeysTrue, OneCommandEach, LastStays, Ahead, KeySet,
              LastGiven, ReturnedKey, ReadyConnects
<1>4. CASE Worker
  BY <1>4, WorkerKInv
<1>5. CASE Callback
  BY <1>5, CallbackKInv
<1>6. CASE UNCHANGED vars
  BY <1>6, SameKeys DEF vars, queue, keys, history
<1> QED
  BY <1>1, <1>2, <1>3, <1>4, <1>5, <1>6 DEF Next

-----------------------------------------------------------------------------

\* A connect called when every call that gives keys was done uses the last keys
\* given, for any number of calls that mix their commands in the queue; the only
\* calls excepted are a last setPrvKey made before an older init had queued its
\* private key, and those after which a key could not be written or set.
THEOREM LastKeysUsed == Spec => []ConnectUsesLastKeys
<1>1. Init => KInv
  BY InitKInv
<1>2. IInv /\ KInv /\ [Next]_vars => KInv'
  BY NextKInv
<1>3. IInv /\ KInv => ConnectUsesLastKeys
  <2> SUFFICES ASSUME IInv, KeysTrue, step = "running", Cmd = "connect", Head(tasks).ready
               PROVE  [pub |-> pub, prv |-> prv] = Head(tasks).keys
    BY DEF KInv, ConnectUsesLastKeys
  <2>1. Head(tasks) = tasks[1] /\ 1 \in 1..Len(tasks)
    BY HeadTask
  <2> QED
    BY <2>1 DEF KeysTrue, ReadyConnects, Cmd
<1> QED
  BY <1>1, <1>2, <1>3, Invariance, PTL DEF Spec
=============================================================================
