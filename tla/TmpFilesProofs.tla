--------------------------- MODULE TmpFilesProofs ---------------------------
(***************************************************************************)
(* Safety of readFile over temporary files, for any number of sftp         *)
(* objects, calls and descriptors.                                         *)
(***************************************************************************)
EXTENDS TmpFiles, SequenceTheorems, TLAPS

Answer == [call : Call, error : BOOLEAN, data : SUBSET Call]

QueuesOK ==
  /\ tasks \in [Object -> Seq(Task)]
  /\ listening \in [Object -> BOOLEAN]
  /\ busy \in [Object -> Task \cup {Idle}]
  /\ \A o \in Object : listening[o] \/ busy[o] # Idle =>
       busy[o] = IF tasks[o] = <<>> THEN Idle ELSE Head(tasks[o])

CallsOK == calls \in Seq(Object) /\ Len(calls) <= MaxCalls

DiskOK ==
  /\ fd \in [Call -> 0..MaxFds] /\ opened \in [Fd -> 0..MaxCalls]
  /\ files \subseteq 1..Len(calls) /\ \A d \in Fd : opened[d] <= Len(calls)

\* What is in a temporary file comes from the call it was made for.
ContentOwn ==
  content \in [Call -> SUBSET Call] /\ \A c \in Call : content[c] \subseteq {c}

\* The commands in the queue of an object are those of its calls, one for each.
Owned ==
  \A o \in Object : \A i \in 1..Len(tasks[o]) :
    tasks[o][i].call \in 1..Len(calls) /\ calls[tasks[o][i].call] = o

OneCommand ==
  \A o \in Object : \A i, j \in 1..Len(tasks[o]) :
    tasks[o][i].call = tasks[o][j].call => i = j

\* A call that has a command in a queue has not been answered, unless the object
\* has timed out; then it was told an error.
NotAnswered ==
  \A k \in 1..Len(answers) :
    /\ answers[k].call <= Len(calls)
    /\ \A o \in Object : \A i \in 1..Len(tasks[o]) :
         tasks[o][i].call = answers[k].call => ~listening[o] /\ answers[k].error

\* Where the temporary file of a command is that has not come to its end.
Stage(t) ==
  /\ t.cmd \in {"open", "listDir"} => t.call \notin files
  /\ t.cmd = "read" => fd[t.call] \in Fd
                       /\ \A d \in Fd : opened[d] = t.call <=> d = fd[t.call]
  /\ t.cmd # "read" => \A d \in Fd : opened[d] # t.call

Stages ==
  \A o \in Object : \A i \in 1..Len(tasks[o]) :
    listening[o] \/ (i = 1 /\ busy[o] # Idle) => Stage(tasks[o][i])

IInv ==
  /\ QueuesOK /\ CallsOK /\ DiskOK /\ ContentOwn
  /\ answers \in Seq(Answer)
  /\ Owned /\ OneCommand /\ NotAnswered
  /\ Stages
  /\ OwnData /\ AnsweredOnce /\ LeftByFailures

\* Nothing changes for the files and descriptors of the other calls.
DiskKept(c) ==
  \A e \in Call : e # c =>
    /\ fd'[e] = fd[e]
    /\ e \in files' <=> e \in files
    /\ \A d \in Fd : opened'[d] = e <=> opened[d] = e

-----------------------------------------------------------------------------

LEMMA InitIInv == Init => IInv
<1> SUFFICES ASSUME Init PROVE IInv
  OBVIOUS
<1> USE BoundsAssumption
<1>1. QueuesOK
  BY EmptySeq DEF Init, QueuesOK
<1>2. CallsOK /\ answers \in Seq(Answer)
  BY EmptySeq DEF Init, CallsOK
<1>3. DiskOK
  BY DEF Init, DiskOK
<1>4. ContentOwn
  BY DEF Init, ContentOwn
<1>5. \A o \in Object : Len(tasks[o]) = 0
  BY DEF Init
<1>6. Owned /\ OneCommand /\ Stages
  BY <1>5 DEF Owned, OneCommand, Stages
<1>7. Len(answers) = 0
  BY DEF Init
<1>8. NotAnswered /\ OwnData /\ AnsweredOnce /\ LeftByFailures
  BY <1>7 DEF NotAnswered, OwnData, AnsweredOnce, LeftByFailures
<1> QED
  BY <1>1, <1>2, <1>3, <1>4, <1>6, <1>8 DEF IInv

\* What an object does is the head of its queue.
LEMMA BusyHead ==
  ASSUME IInv, NEW o \in Object, busy[o] # Idle
  PROVE  /\ busy[o] \in Task /\ busy[o] = tasks[o][1] /\ busy[o] = Head(tasks[o])
         /\ tasks[o] \in Seq(Task) /\ tasks[o] # <<>>
         /\ Len(tasks[o]) \in Nat /\ 1 \in 1..Len(tasks[o])
<1>1. tasks[o] \in Seq(Task) /\ busy[o] \in Task
  BY DEF IInv, QueuesOK
<1>2. tasks[o] # <<>> /\ busy[o] = Head(tasks[o])
  BY DEF IInv, QueuesOK
<1> QED
  BY <1>1, <1>2

LEMMA BusyCall ==
  ASSUME IInv, NEW o \in Object, busy[o] # Idle
  PROVE  /\ busy[o].call \in 1..Len(calls) /\ busy[o].call \in Call
         /\ calls[busy[o].call] = o
         /\ Stage(busy[o])
         /\ \A k \in 1..Len(answers) :
              answers[k].call = busy[o].call => ~listening[o] /\ answers[k].error
         /\ \A i \in 1..Len(tasks[o]) : tasks[o][i].call = busy[o].call => i = 1
         /\ \A p \in Object : p # o =>
              \A i \in 1..Len(tasks[p]) : tasks[p][i].call # busy[o].call
<1>1. busy[o] = tasks[o][1] /\ 1 \in 1..Len(tasks[o])
  BY BusyHead
<1>2. busy[o].call \in 1..Len(calls) /\ calls[busy[o].call] = o
  BY <1>1 DEF IInv, Owned
<1>3. busy[o].call \in Call
  BY <1>2, BoundsAssumption DEF IInv, CallsOK, Call
<1>4. Stage(busy[o])
  BY <1>1 DEF IInv, Stages
<1>5. \A k \in 1..Len(answers) :
        answers[k].call = busy[o].call => ~listening[o] /\ answers[k].error
  BY <1>1 DEF IInv, NotAnswered
<1>6. \A i \in 1..Len(tasks[o]) : tasks[o][i].call = busy[o].call => i = 1
  BY <1>1 DEF IInv, OneCommand
<1>7. \A p \in Object : p # o =>
        \A i \in 1..Len(tasks[p]) : tasks[p][i].call # busy[o].call
  BY <1>2 DEF IInv, Owned
<1> QED
  BY <1>2, <1>3, <1>4, <1>5, <1>6, <1>7

\* A command of another call stays where it was.
LEMMA StageKept ==
  ASSUME IInv, NEW c \in Call, DiskKept(c),
         NEW p \in Object, NEW i \in 1..Len(tasks[p]),
         listening[p] \/ (i = 1 /\ busy[p] # Idle), tasks[p][i].call # c
  PROVE  LET t == tasks[p][i] IN
         /\ t.cmd \in {"open", "listDir"} => t.call \notin files'
         /\ t.cmd = "read" => fd'[t.call] \in Fd
                              /\ \A d \in Fd : opened'[d] = t.call <=> d = fd'[t.call]
         /\ t.cmd # "read" => \A d \in Fd : opened'[d] # t.call
<1>1. Stage(tasks[p][i])
  BY DEF IInv, Stages
<1>2. tasks[p][i].call \in Call
  BY BoundsAssumption DEF IInv, Owned, CallsOK, Call
<1> QED
  BY <1>1, <1>2 DEF Stage, DiskKept

\* What a step for call c, which is being worked on, tells the user.
LEMMA TellStep ==
  ASSUME IInv, NEW o \in Object, busy[o] # Idle,
         NEW c, c = busy[o].call, DiskKept(c),
         \/ answers' = answers
         \/ /\ listening[o]
            /\ \E a \in Answer :
                 /\ answers' = Append(answers, a)
                 /\ a.call = c /\ a.data \subseteq {c}
                 /\ a.error \/ (c \notin files' /\ \A d \in Fd : opened'[d] # c)
  PROVE  /\ answers' \in Seq(Answer)
         /\ Len(answers) \in Nat /\ Len(answers') \in Nat
         /\ OwnData' /\ AnsweredOnce' /\ LeftByFailures'
         /\ \A k \in 1..Len(answers') :
              \/ k \in 1..Len(answers) /\ answers'[k] = answers[k]
              \/ answers'[k].call = c /\ listening[o] /\ answers' # answers
<1>1. answers \in Seq(Answer) /\ Len(answers) \in Nat
  BY DEF IInv
<1>2. /\ c \in Call
      /\ \A k \in 1..Len(answers) : answers[k].call = c => ~listening[o] /\ answers[k].error
  BY BusyCall
<1>3. CASE answers' = answers
  <2>1. OwnData' /\ AnsweredOnce'
    BY <1>3 DEF IInv, OwnData, AnsweredOnce
  <2>2. LeftByFailures'
    BY <1>2, <1>3 DEF IInv, LeftByFailures, DiskKept
  <2> QED
    BY <1>1, <1>3, <2>1, <2>2
<1>4. CASE answers' # answers
  <2>1. PICK a \in Answer :
          /\ answers' = Append(answers, a)
          /\ a.call = c /\ a.data \subseteq {c}
          /\ a.error \/ (c \notin files' /\ \A d \in Fd : opened'[d] # c)
    BY <1>4
  <2>2. listening[o]
    BY <1>4
  <2>3. /\ answers' \in Seq(Answer) /\ Len(answers') = Len(answers) + 1
        /\ answers'[Len(answers) + 1] = a
        /\ \A k \in 1..Len(answers) : answers'[k] = answers[k]
    BY <1>1, <2>1, AppendProperties
  <2>4. \A k \in 1..Len(answers') : k \in 1..Len(answers) \/ k = Len(answers) + 1
    BY <1>1, <2>3
  <2>5. OwnData'
    BY <2>1, <2>3, <2>4 DEF IInv, OwnData
  <2>6. \A k \in 1..Len(answers) : answers'[k].call # c
    BY <1>2, <2>2, <2>3
  <2>7. AnsweredOnce'
    <3> SUFFICES ASSUME NEW i \in 1..Len(answers'), NEW j \in 1..Len(answers'),
                        answers'[i].call = answers'[j].call
                 PROVE  i = j
      BY DEF AnsweredOnce
    <3>1. CASE i \in 1..Len(answers) /\ j \in 1..Len(answers)
      BY <2>3, <3>1 DEF IInv, AnsweredOnce
    <3>2. CASE i = Len(answers) + 1 \/ j = Len(answers) + 1
      BY <2>1, <2>3, <2>4, <2>6, <3>2
    <3> QED
      BY <2>4, <3>1, <3>2
  <2>8. LeftByFailures'
    <3> SUFFICES ASSUME NEW e \in Call, e \in files' \/ (\E d \in Fd : opened'[d] = e),
                        NEW k \in 1..Len(answers'), answers'[k].call = e
                 PROVE  answers'[k].error
      BY DEF LeftByFailures
    <3>1. CASE k \in 1..Len(answers)
      <4>1. e # c /\ answers[k].call = e
        BY <2>3, <2>6, <3>1
      <4>2. e \in files \/ (\E d \in Fd : opened[d] = e)
        BY <4>1 DEF DiskKept
      <4> QED
        BY <2>3, <3>1, <4>1, <4>2 DEF IInv, LeftByFailures
    <3>2. CASE k = Len(answers) + 1
      BY <2>1, <2>3, <3>2
    <3> QED
      BY <2>4, <3>1, <3>2
  <2> QED
    BY <1>1, <2>1, <2>2, <2>3, <2>4, <2>5, <2>7, <2>8, <1>4
<1> QED
  BY <1>3, <1>4

\* The queue of o without its head.
LEMMA ShiftedQueue ==
  ASSUME IInv, NEW o \in Object, busy[o] # Idle,
         NEW s, s = Tail(tasks[o])
  PROVE  /\ s \in Seq(Task) /\ Len(s) \in Nat
         /\ \A i \in 1..Len(s) :
              i + 1 \in 1..Len(tasks[o]) /\ s[i] = tasks[o][i + 1] /\ s[i].call # busy[o].call
<1>1. /\ tasks[o] \in Seq(Task) /\ Len(tasks[o]) \in Nat /\ Len(tasks[o]) >= 1
      /\ \A i \in 1..Len(tasks[o]) : tasks[o][i].call = busy[o].call => i = 1
  BY BusyHead, BusyCall
<1>2. /\ s \in Seq(Task) /\ Len(s) = Len(tasks[o]) - 1
      /\ \A i \in 1..Len(s) : s[i] = tasks[o][i + 1]
  BY <1>1
<1>3. ASSUME NEW i \in 1..Len(s)
      PROVE  i + 1 \in 1..Len(tasks[o]) /\ s[i] = tasks[o][i + 1] /\ s[i].call # busy[o].call
  <2>1. i + 1 \in 1..Len(tasks[o]) /\ i + 1 # 1
    BY <1>1, <1>2
  <2>2. tasks[o][i + 1].call # busy[o].call
    BY <1>1, <2>1
  <2> QED
    BY <1>2, <2>1, <2>2
<1>4. Len(s) \in Nat
  BY <1>1, <1>2
<1> QED
  BY ONLY <1>2, <1>3, <1>4

\* 'callback' is emitted and nobody listens.
LEMMA UnheardStep ==
  ASSUME IInv, NEW o \in Object, busy[o] # Idle, ~listening[o],
         busy' = [busy EXCEPT ![o] = Idle],
         UNCHANGED <<tasks, listening, calls, answers>>,
         DiskKept(busy[o].call), DiskOK', ContentOwn'
  PROVE  IInv'
<1>1. /\ busy[o].call \in Call
      /\ \A p \in Object : p # o =>
           \A i \in 1..Len(tasks[p]) : tasks[p][i].call # busy[o].call
  BY BusyCall
<1>2. listening \in [Object -> BOOLEAN] /\ busy \in [Object -> Task \cup {Idle}]
  BY DEF IInv, QueuesOK
<1>3. QueuesOK' /\ CallsOK'
  BY <1>2 DEF IInv, QueuesOK, CallsOK
<1>4. answers' \in Seq(Answer) /\ OwnData' /\ AnsweredOnce' /\ LeftByFailures'
  BY TellStep
<1>5. Owned' /\ OneCommand' /\ NotAnswered'
  BY DEF IInv, Owned, OneCommand, NotAnswered
<1>6. Stages'
  <2> SUFFICES ASSUME NEW p \in Object, NEW i \in 1..Len(tasks[p]),
                      listening[p] \/ (i = 1 /\ busy'[p] # Idle)
               PROVE  Stage(tasks[p][i])'
    BY DEF Stages
  <2>1. p # o
    BY <1>2
  <2>2. busy'[p] = busy[p] /\ tasks[p][i].call # busy[o].call
    BY <1>1, <1>2, <2>1
  <2> QED
    BY <1>1, <2>2, StageKept DEF Stage
<1> QED
  BY <1>3, <1>4, <1>5, <1>6 DEF IInv

\* 'callback' is emitted and the queue becomes ts: the head c is gone, and may
\* have queued its next command at the end.
LEMMA HeardStep ==
  ASSUME IInv, NEW o \in Object, busy[o] # Idle, listening[o],
         NEW c \in Call, c = busy[o].call, NEW ts \in Seq(Task),
         tasks' = [tasks EXCEPT ![o] = ts],
         busy' = [busy EXCEPT ![o] = IF ts = <<>> THEN Idle ELSE Head(ts)],
         UNCHANGED <<listening, calls>>,
         DiskKept(c), DiskOK', ContentOwn',
         \A i \in 1..Len(ts) :
           \/ /\ i + 1 \in 1..Len(tasks[o]) /\ ts[i] = tasks[o][i + 1]
              /\ ts[i].call # c
           \/ /\ i = Len(ts) /\ ts[i].call = c /\ answers' = answers
              /\ ts[i].cmd \in {"read", "readTmp"}
              /\ ts[i].cmd = "read" =>
                   fd'[c] \in Fd /\ \A d \in Fd : opened'[d] = c <=> d = fd'[c]
              /\ ts[i].cmd = "readTmp" => \A d \in Fd : opened'[d] # c,
         \/ answers' = answers
         \/ \E a \in Answer :
              /\ answers' = Append(answers, a)
              /\ a.call = c /\ a.data \subseteq {c}
              /\ a.error \/ (c \notin files' /\ \A d \in Fd : opened'[d] # c)
  PROVE  IInv'
<1>1. /\ c \in 1..Len(calls) /\ calls[c] = o
      /\ \A p \in Object : p # o => \A i \in 1..Len(tasks[p]) : tasks[p][i].call # c
      /\ Len(ts) \in Nat
  BY BusyCall
<1>2. listening \in [Object -> BOOLEAN] /\ tasks \in [Object -> Seq(Task)]
      /\ busy \in [Object -> Task \cup {Idle}]
  BY DEF IInv, QueuesOK
<1>3. CallsOK'
  BY DEF IInv, CallsOK
<1>4. /\ tasks'[o] = ts
      /\ \A p \in Object : p # o => tasks'[p] = tasks[p] /\ busy'[p] = busy[p]
  BY <1>2
<1>5. QueuesOK'
  <2>1. tasks' \in [Object -> Seq(Task)]
    BY <1>2
  <2>2. ts # <<>> => Head(ts) \in Task
    OBVIOUS
  <2>3. busy' \in [Object -> Task \cup {Idle}]
    BY <1>2, <2>2
  <2>4. busy'[o] = IF tasks'[o] = <<>> THEN Idle ELSE Head(tasks'[o])
    BY <1>2, <1>4
  <2>5. ASSUME NEW p \in Object, listening[p] \/ busy'[p] # Idle
        PROVE  busy'[p] = IF tasks'[p] = <<>> THEN Idle ELSE Head(tasks'[p])
    BY <1>4, <2>4, <2>5 DEF IInv, QueuesOK
  <2> QED
    BY <1>2, <2>1, <2>3, <2>5 DEF QueuesOK
<1>6. Owned'
  <2> SUFFICES ASSUME NEW p \in Object, NEW i \in 1..Len(tasks'[p])
               PROVE  tasks'[p][i].call \in 1..Len(calls) /\ calls[tasks'[p][i].call] = p
    BY DEF Owned
  <2>1. CASE p # o
    BY <1>4, <2>1 DEF IInv, Owned
  <2>2. CASE p = o
    <3>1. tasks'[p][i] = ts[i] /\ i \in 1..Len(ts)
      BY <1>4, <2>2
    <3>2. CASE ts[i].call = c
      BY <1>1, <2>2, <3>1, <3>2
    <3>3. CASE ts[i].call # c
      <4>1. i + 1 \in 1..Len(tasks[o]) /\ ts[i] = tasks[o][i + 1]
        BY <3>1, <3>3
      <4> QED
        BY <2>2, <3>1, <4>1 DEF IInv, Owned
    <3> QED
      BY <3>2, <3>3
  <2> QED
    BY <2>1, <2>2
<1>7. OneCommand'
  <2> SUFFICES ASSUME NEW p \in Object, NEW i \in 1..Len(tasks'[p]),
                      NEW j \in 1..Len(tasks'[p]), tasks'[p][i].call = tasks'[p][j].call
               PROVE  i = j
    BY DEF OneCommand
  <2>1. CASE p # o
    BY <1>4, <2>1 DEF IInv, OneCommand
  <2>2. CASE p = o
    <3>1. CASE tasks'[p][i].call = c
      BY <1>4, <2>2, <3>1
    <3>2. CASE tasks'[p][i].call # c
      <4>1. /\ i + 1 \in 1..Len(tasks[o]) /\ j + 1 \in 1..Len(tasks[o])
            /\ tasks[o][i + 1].call = tasks[o][j + 1].call
        BY <1>4, <2>2, <3>2
      <4>2. i + 1 = j + 1
        BY <4>1 DEF IInv, OneCommand
      <4>3. i \in Nat /\ j \in Nat
        BY <1>4, <2>2
      <4> QED
        BY <4>2, <4>3
    <3> QED
      BY <3>1, <3>2
  <2> QED
    BY <2>1, <2>2
<1>8. /\ answers' \in Seq(Answer)
       /\ OwnData' /\ AnsweredOnce' /\ LeftByFailures'
       /\ \A k \in 1..Len(answers') :
            \/ k \in 1..Len(answers) /\ answers'[k] = answers[k]
            \/ answers'[k].call = c /\ answers' # answers
  BY TellStep
<1>9. NotAnswered'
  <2>1. ASSUME NEW k \in 1..Len(answers') PROVE answers'[k].call <= Len(calls)
    <3>1. CASE k \in 1..Len(answers) /\ answers'[k] = answers[k]
      BY <3>1 DEF IInv, NotAnswered
    <3>2. CASE answers'[k].call = c
      BY <1>1, <3>2 DEF IInv, CallsOK
    <3> QED
      BY <1>8, <3>1, <3>2
  <2>2. ASSUME NEW k \in 1..Len(answers'), NEW p \in Object, NEW i \in 1..Len(tasks'[p]),
               tasks'[p][i].call = answers'[k].call
        PROVE  ~listening[p] /\ answers'[k].error
    <3>1. CASE p # o
      <4>1. tasks'[p] = tasks[p] /\ tasks[p][i].call # c
        BY <1>1, <1>4, <3>1
      <4>2. k \in 1..Len(answers) /\ answers'[k] = answers[k]
        BY <1>8, <2>2, <4>1
      <4> QED
        BY <2>2, <4>1, <4>2 DEF IInv, NotAnswered
    <3>2. CASE p = o /\ ts[i].call # c
      <4>1. i + 1 \in 1..Len(tasks[o]) /\ tasks'[p][i] = tasks[o][i + 1]
        BY <1>4, <3>2
      <4>2. k \in 1..Len(answers) /\ answers'[k] = answers[k]
        BY <1>4, <1>8, <2>2, <3>2
      <4> QED
        BY <2>2, <3>2, <4>1, <4>2 DEF IInv, NotAnswered
    <3>3. CASE p = o /\ ts[i].call = c
      <4>2. answers' = answers
        BY <1>4, <3>3
      <4>3. \A l \in 1..Len(answers) : answers[l].call # c
        BY BusyCall
      <4> QED
        BY <1>4, <2>2, <3>3, <4>2, <4>3
    <3> QED
      BY <3>1, <3>2, <3>3
  <2> QED
    BY <2>1, <2>2 DEF NotAnswered
<1>10. Stages'
  <2> SUFFICES ASSUME NEW p \in Object, NEW i \in 1..Len(tasks'[p]),
                      listening[p] \/ (i = 1 /\ busy'[p] # Idle)
               PROVE  Stage(tasks[p][i])'
    BY DEF Stages
  <2>1. CASE p # o
    <3>1. tasks'[p] = tasks[p] /\ busy'[p] = busy[p] /\ tasks[p][i].call # c
      BY <1>1, <1>4, <2>1
    <3> QED
      BY <1>1, <3>1, StageKept DEF Stage
  <2>2. CASE p = o /\ ts[i].call # c
    <3>1. i + 1 \in 1..Len(tasks[o]) /\ tasks'[p][i] = tasks[o][i + 1]
          /\ tasks[o][i + 1].call # c
      BY <1>4, <2>2
    <3> QED
      BY <1>1, <2>2, <3>1, StageKept DEF Stage
  <2>3. CASE p = o /\ ts[i].call = c
    <3>1. tasks'[p][i] = ts[i] /\ i \in 1..Len(ts)
      BY <1>4, <2>3
    <3>2. /\ ts[i].cmd \in {"read", "readTmp"}
          /\ ts[i].cmd = "read" =>
               fd'[c] \in Fd /\ \A d \in Fd : opened'[d] = c <=> d = fd'[c]
          /\ ts[i].cmd = "readTmp" => \A d \in Fd : opened'[d] # c
      BY <2>3, <3>1
    <3> QED
      BY <2>3, <3>1, <3>2 DEF Stage
  <2> QED
    BY <2>1, <2>2, <2>3
<1> QED
  BY <1>3, <1>5, <1>6, <1>7, <1>8, <1>9, <1>10 DEF IInv

\* The command was the last of its call, or it has failed: the user is told a.
LEMMA LastStep ==
  ASSUME IInv, NEW o \in Object, busy[o] # Idle,
         NEW a \in Answer, a.call = busy[o].call, a.data \subseteq {busy[o].call},
         Emit(o, <<>>, <<a>>), UNCHANGED <<listening, calls>>,
         DiskKept(busy[o].call), DiskOK', ContentOwn',
         a.error \/ (busy[o].call \notin files' /\ \A d \in Fd : opened'[d] # busy[o].call)
  PROVE  IInv'
<1>1. busy[o].call \in Call /\ answers \in Seq(Answer)
  BY BusyCall DEF IInv
<1>2. CASE ~listening[o]
  <2>1. /\ busy' = [busy EXCEPT ![o] = Idle]
        /\ UNCHANGED <<tasks, answers>>
    BY <1>2 DEF Emit
  <2> QED
    BY <1>2, <2>1, UnheardStep
<1>3. CASE listening[o]
  <2> DEFINE ts == Tail(tasks[o])
  <2>1. /\ ts \in Seq(Task) /\ Len(ts) \in Nat
        /\ \A i \in 1..Len(ts) :
             i + 1 \in 1..Len(tasks[o]) /\ ts[i] = tasks[o][i + 1] /\ ts[i].call # busy[o].call
    BY ShiftedQueue
  <2>2. ts \o <<>> = ts
    BY <2>1, ConcatEmptySeq
  <2>3. /\ tasks' = [tasks EXCEPT ![o] = ts]
        /\ busy' = [busy EXCEPT ![o] = IF ts = <<>> THEN Idle ELSE Head(ts)]
        /\ answers' = answers \o <<a>>
    BY <1>3, <2>2 DEF Emit, ExecuteNext, StartHead
  <2>4. answers' = Append(answers, a)
    BY <1>1, <2>3, AppendIsConcat
  <2> HIDE DEF ts
  <2> QED
    BY <1>1, <1>3, <2>1, <2>3, <2>4, HeardStep
<1> QED
  BY <1>2, <1>3

\* The command has gone well and its call goes on with the command t.
LEMMA MoreStep ==
  ASSUME IInv, NEW o \in Object, busy[o] # Idle,
         NEW t \in Task, t.call = busy[o].call, t.cmd \in {"read", "readTmp"},
         Emit(o, <<t>>, <<>>), UNCHANGED <<listening, calls>>,
         DiskKept(busy[o].call), DiskOK', ContentOwn',
         listening[o] /\ t.cmd = "read" =>
           /\ fd'[busy[o].call] \in Fd
           /\ \A d \in Fd : opened'[d] = busy[o].call <=> d = fd'[busy[o].call],
         listening[o] /\ t.cmd = "readTmp" => \A d \in Fd : opened'[d] # busy[o].call
  PROVE  IInv'
<1>1. busy[o].call \in Call /\ answers \in Seq(Answer)
  BY BusyCall DEF IInv
<1>2. CASE ~listening[o]
  <2>1. /\ busy' = [busy EXCEPT ![o] = Idle]
        /\ UNCHANGED <<tasks, answers>>
    BY <1>2 DEF Emit
  <2> QED
    BY <1>2, <2>1, UnheardStep
<1>3. CASE listening[o]
  <2> DEFINE s == Tail(tasks[o])
  <2>1. /\ s \in Seq(Task) /\ Len(s) \in Nat
        /\ \A i \in 1..Len(s) :
             i + 1 \in 1..Len(tasks[o]) /\ s[i] = tasks[o][i + 1] /\ s[i].call # busy[o].call
    BY ONLY IInv, o \in Object, busy[o] # Idle, ShiftedQueue
  <2> DEFINE ts == Append(s, t)
  <2>2. s \o <<t>> = ts
    BY <2>1, AppendIsConcat
  <2>3. /\ tasks' = [tasks EXCEPT ![o] = ts]
        /\ busy' = [busy EXCEPT ![o] = IF ts = <<>> THEN Idle ELSE Head(ts)]
        /\ answers' = answers \o <<>>
    BY <1>3, <2>2 DEF Emit, ExecuteNext, StartHead
  <2>4. answers' = answers
    BY <1>1, <2>3, ConcatEmptySeq
  <2>5. /\ ts \in Seq(Task) /\ Len(ts) = Len(s) + 1 /\ ts[Len(s) + 1] = t
        /\ \A i \in 1..Len(s) : ts[i] = s[i]
    BY <2>1, AppendProperties
  <2> HIDE DEF ts, s
  <2>6. ASSUME NEW i \in 1..Len(ts)
        PROVE  \/ /\ i + 1 \in 1..Len(tasks[o]) /\ ts[i] = tasks[o][i + 1]
                  /\ ts[i].call # busy[o].call
               \/ i = Len(ts) /\ ts[i] = t
    <3>1. CASE i \in 1..Len(s)
      BY <2>1, <2>5, <3>1
    <3>2. CASE i = Len(s) + 1
      BY <2>5, <3>2
    <3> QED
      BY <2>1, <2>5, <3>1, <3>2
  <2> QED
    BY <1>1, <1>3, <2>3, <2>4, <2>5, <2>6, HeardStep
<1> QED
  BY <1>2, <1>3

LEMMA ToldAnswer ==
  ASSUME NEW c \in Call
  PROVE  Told(c) = <<[call |-> c, error |-> TRUE, data |-> {}]>>
         /\ [call |-> c, error |-> TRUE, data |-> {}] \in Answer
BY DEF Told, Answer

LEMMA NotIdle ==
  ASSUME NEW o \in Object, busy[o].cmd \in {"open", "read", "readTmp", "listDir"}
  PROVE  busy[o] # Idle
BY DEF Idle

LEMMA OpenTmpFileStep ==
  ASSUME IInv, NEW o \in Object, OpenTmpFile(o)
  PROVE  IInv'
<1> DEFINE c == busy[o].call
           a == [call |-> c, error |-> TRUE, data |-> {}]
           t == Then(o, "read")
<1>1. busy[o].cmd = "open" /\ busy[o] # Idle /\ UNCHANGED <<listening, calls>>
  BY NotIdle DEF OpenTmpFile
<1>2. c \in Call /\ c \in 1..Len(calls) /\ Stage(busy[o])
  BY <1>1, BusyCall
<1>3. c \notin files /\ \A d \in Fd : opened[d] # c
  BY <1>1, <1>2 DEF Stage
<1>4. CASE Emit(o, Stop(t), Told(c)) /\ UNCHANGED disk
  <2>1. Emit(o, <<>>, <<a>>) /\ a \in Answer
    BY <1>2, <1>4, ToldAnswer DEF Stop
  <2>2. UNCHANGED <<fd, opened, files, content>>
    BY <1>4 DEF disk
  <2>3. DiskKept(c) /\ DiskOK' /\ ContentOwn'
    BY <1>1, <2>2 DEF IInv, DiskKept, DiskOK, ContentOwn
  <2> QED
    BY <1>1, <2>1, <2>3, LastStep
<1>5. CASE /\ \E d \in Fd :
                /\ opened[d] = 0
                /\ fd' = [fd EXCEPT ![c] = d]
                /\ opened' = [opened EXCEPT ![d] = c]
           /\ files' = files \cup {c}
           /\ Emit(o, <<t>>, <<>>)
           /\ UNCHANGED content
  <2>1. PICK f \in Fd :
          /\ opened[f] = 0
          /\ fd' = [fd EXCEPT ![c] = f]
          /\ opened' = [opened EXCEPT ![f] = c]
    BY <1>5
  <2>2. /\ fd \in [Call -> 0..MaxFds] /\ opened \in [Fd -> 0..MaxCalls]
        /\ files \subseteq 1..Len(calls) /\ \A d \in Fd : opened[d] <= Len(calls)
    BY DEF IInv, DiskOK
  <2>3. f \in 0..MaxFds /\ c \in 0..MaxCalls
    BY <1>2, BoundsAssumption DEF Fd, Call
  <2>4. DiskKept(c)
    BY <1>2, <1>5, <2>1, <2>2 DEF DiskKept, Call
  <2>5. DiskOK'
    <3>1. fd' \in [Call -> 0..MaxFds] /\ opened' \in [Fd -> 0..MaxCalls]
      BY <2>1, <2>2, <2>3
    <3>2. files' \subseteq 1..Len(calls)'
      BY <1>1, <1>2, <1>5, <2>2
    <3>3. \A d \in Fd : opened'[d] <= Len(calls)'
      BY <1>1, <1>2, <2>1, <2>2
    <3> QED
      BY <3>1, <3>2, <3>3 DEF DiskOK
  <2>6. ContentOwn'
    BY <1>5 DEF IInv, ContentOwn
  <2>7. t \in Task /\ t.call = c /\ t.cmd = "read"
    BY <1>2 DEF Then, Task
  <2>8. fd'[c] \in Fd /\ \A d \in Fd : opened'[d] = c <=> d = fd'[c]
    BY <1>2, <1>3, <2>1, <2>2
  <2>9. Emit(o, <<t>>, <<>>)
    BY <1>5
  <2> HIDE DEF t
  <2> QED
    BY <1>1, <2>4, <2>5, <2>6, <2>7, <2>8, <2>9, MoreStep
<1> QED
  BY <1>4, <1>5 DEF OpenTmpFile

LEMMA NativeReadFileStep ==
  ASSUME IInv, NEW o \in Object, NEW error \in BOOLEAN, NativeReadFile(o, error)
  PROVE  IInv'
<1> DEFINE c == busy[o].call
           a == [call |-> c, error |-> TRUE, data |-> {}]
           t == Then(o, "readTmp")
<1>1. /\ busy[o].cmd = "read" /\ busy[o] # Idle
      /\ UNCHANGED <<listening, calls, fd, files, content>>
  BY NotIdle DEF NativeReadFile
<1>2. c \in Call /\ c \in 1..Len(calls) /\ Stage(busy[o])
  BY <1>1, BusyCall
<1>3. fd[c] \in Fd /\ \A d \in Fd : opened[d] = c <=> d = fd[c]
  BY <1>1, <1>2 DEF Stage
<1>4. opened \in [Fd -> 0..MaxCalls] /\ \A d \in Fd : opened[d] <= Len(calls)
  BY DEF IInv, DiskOK
<1>5. opened' \in {opened, [opened EXCEPT ![fd[c]] = 0]}
  BY DEF NativeReadFile, KeepOpen, CloseSync
<1>6. DiskKept(c)
  BY <1>1, <1>2, <1>3, <1>4, <1>5 DEF DiskKept, Call
<1>7. DiskOK'
  <2>1. opened' \in [Fd -> 0..MaxCalls]
    BY <1>4, <1>5, BoundsAssumption
  <2>2. Len(calls) \in Nat
    BY DEF IInv, CallsOK
  <2>3. \A d \in Fd : opened'[d] <= Len(calls)'
    BY <1>1, <1>4, <1>5, <2>2
  <2> QED
    BY <1>1, <2>1, <2>3 DEF IInv, DiskOK
<1>8. ContentOwn'
  BY <1>1 DEF IInv, ContentOwn
<1>9. CASE error /\ Emit(o, Stop(t), Told(c))
  <2>1. Emit(o, <<>>, <<a>>) /\ a \in Answer
    BY <1>2, <1>9, ToldAnswer DEF Stop
  <2> QED
    BY <1>1, <1>6, <1>7, <1>8, <2>1, LastStep
<1>10. CASE ~error /\ Emit(o, <<t>>, <<>>)
  <2>1. t \in Task /\ t.call = c /\ t.cmd = "readTmp"
    BY <1>2 DEF Then, Task
  <2>2. listening[o] => opened' = [opened EXCEPT ![fd[c]] = 0]
    BY <1>10 DEF NativeReadFile, CloseSync
  <2>3. listening[o] => \A d \in Fd : opened'[d] # c
    BY <1>2, <1>3, <1>4, <2>2 DEF Call
  <2>4. Emit(o, <<t>>, <<>>)
    BY <1>10
  <2> HIDE DEF t
  <2> QED
    BY <1>1, <1>6, <1>7, <1>8, <2>1, <2>3, <2>4, MoreStep
<1> QED
  BY <1>9, <1>10 DEF NativeReadFile

LEMMA ReadTmpFileStep ==
  ASSUME IInv, NEW o \in Object, NEW error \in BOOLEAN, ReadTmpFile(o, error)
  PROVE  IInv'
<1> DEFINE c == busy[o].call
           a == [call |-> c, error |-> TRUE, data |-> {}]
           b == [call |-> c, error |-> FALSE, data |-> content[c]]
<1>1. /\ busy[o].cmd = "readTmp" /\ busy[o] # Idle /\ files' = files \ {c}
      /\ UNCHANGED <<listening, calls, fd, opened, content>>
  BY NotIdle DEF ReadTmpFile
<1>2. c \in Call /\ c \in 1..Len(calls) /\ Stage(busy[o])
  BY <1>1, BusyCall
<1>3. \A d \in Fd : opened[d] # c
  BY <1>1, <1>2 DEF Stage
<1>4. DiskKept(c) /\ DiskOK' /\ ContentOwn'
  BY <1>1 DEF IInv, DiskKept, DiskOK, ContentOwn
<1>5. CASE error
  <2>1. Emit(o, <<>>, <<a>>) /\ a \in Answer
    BY <1>2, <1>5, ToldAnswer DEF ReadTmpFile
  <2> QED
    BY <1>1, <1>4, <2>1, LastStep
<1>6. CASE ~error
  <2>1. Emit(o, <<>>, <<b>>)
    BY <1>6 DEF ReadTmpFile
  <2>2. content[c] \subseteq {c} /\ content[c] \in SUBSET Call
    BY <1>2 DEF IInv, ContentOwn
  <2>3. b \in Answer /\ b.call = c /\ b.data \subseteq {c}
    BY <1>2, <2>2 DEF Answer
  <2>4. c \notin files' /\ \A d \in Fd : opened'[d] # c
    BY <1>1, <1>3
  <2> HIDE DEF b
  <2> QED
    BY <1>1, <1>4, <2>1, <2>3, <2>4, LastStep
<1> QED
  BY <1>5, <1>6

LEMMA ListDirStep ==
  ASSUME IInv, NEW o \in Object, NEW error \in BOOLEAN, ListDir(o, error)
  PROVE  IInv'
<1> DEFINE c == busy[o].call
           a == [call |-> c, error |-> error, data |-> {}]
<1>1. /\ busy[o].cmd = "listDir" /\ busy[o] # Idle /\ Emit(o, <<>>, <<a>>)
      /\ UNCHANGED <<listening, calls, fd, opened, files, content>>
  BY NotIdle DEF ListDir, disk
<1>2. c \in Call /\ Stage(busy[o])
  BY <1>1, BusyCall
<1>3. c \notin files' /\ \A d \in Fd : opened'[d] # c
  BY <1>1, <1>2 DEF Stage
<1>4. DiskKept(c) /\ DiskOK' /\ ContentOwn'
  BY <1>1 DEF IInv, DiskKept, DiskOK, ContentOwn
<1>5. a \in Answer /\ a.call = c /\ a.data \subseteq {c}
  BY <1>2 DEF Answer
<1> HIDE DEF a
<1> QED
  BY <1>1, <1>3, <1>4, <1>5, LastStep

LEMMA NativeWritesStep ==
  ASSUME IInv, NEW o \in Object, NativeWrites(o)
  PROVE  IInv'
<1> DEFINE c == busy[o].call
<1>1. /\ busy[o].cmd = "read" /\ busy[o] # Idle
      /\ content' = [content EXCEPT ![opened[fd[c]]] = @ \cup {c}]
      /\ UNCHANGED <<tasks, listening, busy, calls, fd, opened, files, answers>>
  BY NotIdle DEF NativeWrites
<1>2. c \in Call /\ Stage(busy[o])
  BY <1>1, BusyCall
<1>3. opened[fd[c]] = c
  BY <1>1, <1>2 DEF Stage
<1>4. ContentOwn'
  BY <1>1, <1>2, <1>3 DEF IInv, ContentOwn
<1>5. QueuesOK' /\ CallsOK' /\ DiskOK' /\ Owned' /\ OneCommand' /\ NotAnswered'
  BY <1>1 DEF IInv, QueuesOK, CallsOK, DiskOK, Owned, OneCommand, NotAnswered
<1>6. Stages' /\ OwnData' /\ AnsweredOnce' /\ LeftByFailures'
  BY <1>1 DEF IInv, Stages, Stage, OwnData, AnsweredOnce, LeftByFailures
<1> QED
  BY <1>1, <1>4, <1>5, <1>6 DEF IInv

LEMMA TimeoutStep ==
  ASSUME IInv, NEW o \in Object, Timeout(o)
  PROVE  IInv'
<1> DEFINE c == busy[o].call
           a == [call |-> c, error |-> TRUE, data |-> {}]
<1>1. /\ listening[o] /\ busy[o] # Idle
      /\ listening' = [listening EXCEPT ![o] = FALSE]
      /\ UNCHANGED <<tasks, busy, calls, fd, opened, content>>
  BY DEF Timeout, KeepOpen
<1>2. files' = files \/ (files' = files \ {c} /\ busy[o].cmd = "readTmp")
  BY DEF Timeout
<1>3. /\ c \in Call /\ c \in 1..Len(calls) /\ Stage(busy[o])
      /\ \A p \in Object : p # o =>
           \A i \in 1..Len(tasks[p]) : tasks[p][i].call # c
  BY <1>1, BusyCall
<1>4. a \in Answer /\ Told(c) = <<a>>
  BY <1>3, ToldAnswer
<1>5. answers \in Seq(Answer) /\ Len(answers) \in Nat
  BY DEF IInv
<1>6. answers' = answers \/ answers' = Append(answers, a)
  <2>1. answers' = answers \o <<>> \/ answers' = answers \o <<a>>
    BY <1>4 DEF Timeout
  <2> QED
    BY <1>4, <1>5, <2>1, AppendIsConcat, ConcatEmptySeq
<1>7. listening \in [Object -> BOOLEAN]
  BY DEF IInv, QueuesOK
<1>8. \A p \in Object : p # o => listening'[p] = listening[p]
  BY <1>1, <1>7
<1>9. ~listening'[o]
  BY <1>1, <1>7
<1>10. QueuesOK' /\ CallsOK' /\ Owned' /\ OneCommand'
  BY <1>1, <1>7 DEF IInv, QueuesOK, CallsOK, Owned, OneCommand
<1>11. DiskKept(c) /\ DiskOK' /\ ContentOwn'
  BY <1>1, <1>2 DEF IInv, DiskKept, DiskOK, ContentOwn
<1>12. /\ answers' \in Seq(Answer) /\ OwnData' /\ AnsweredOnce' /\ LeftByFailures'
  BY <1>1, <1>3, <1>4, <1>6, <1>11, TellStep
<1>13. NotAnswered'
  <2>1. ASSUME NEW k \in 1..Len(answers')
        PROVE  \/ k \in 1..Len(answers) /\ answers'[k] = answers[k]
               \/ answers'[k] = a
    <3>1. CASE answers' = answers
      BY <3>1
    <3>2. CASE answers' = Append(answers, a)
      BY <1>4, <1>5, <3>2, AppendProperties
    <3> QED
      BY <1>6, <3>1, <3>2
  <2>2. ASSUME NEW k \in 1..Len(answers') PROVE answers'[k].call <= Len(calls')
    <3>1. CASE k \in 1..Len(answers) /\ answers'[k] = answers[k]
      BY <1>1, <3>1 DEF IInv, NotAnswered
    <3>2. CASE answers'[k] = a
      BY <1>1, <1>3, <3>2 DEF IInv, CallsOK
    <3> QED
      BY <2>1, <3>1, <3>2
  <2>3. ASSUME NEW k \in 1..Len(answers'), NEW p \in Object, NEW i \in 1..Len(tasks'[p]),
               tasks'[p][i].call = answers'[k].call
        PROVE  ~listening'[p] /\ answers'[k].error
    <3>1. CASE k \in 1..Len(answers) /\ answers'[k] = answers[k]
      <4>1. ~listening[p] /\ answers[k].error
        BY <1>1, <2>3, <3>1 DEF IInv, NotAnswered
      <4> QED
        BY <1>8, <1>9, <3>1, <4>1
    <3>2. CASE answers'[k] = a
      <4>1. p = o
        BY <1>1, <1>3, <2>3, <3>2
      <4> QED
        BY <1>9, <3>2, <4>1
    <3> QED
      BY <2>1, <3>1, <3>2
  <2> QED
    BY <2>2, <2>3 DEF NotAnswered
<1>14. Stages'
  <2> SUFFICES ASSUME NEW p \in Object, NEW i \in 1..Len(tasks[p]),
                      listening'[p] \/ (i = 1 /\ busy[p] # Idle)
               PROVE  Stage(tasks[p][i])'
    BY <1>1 DEF Stages
  <2>1. CASE p # o
    <3>1. /\ listening[p] \/ (i = 1 /\ busy[p] # Idle)
          /\ tasks[p][i].call # c
      BY <1>3, <1>8, <2>1
    <3> QED
      BY <1>1, <1>3, <1>11, <3>1, StageKept DEF Stage
  <2>2. CASE p = o
    <3>1. tasks[p][i] = busy[o]
      BY <1>1, <1>9, <2>2, BusyHead
    <3>2. Stage(busy[o])'
      BY <1>1, <1>2, <1>3 DEF Stage
    <3> QED
      BY <1>1, <3>1, <3>2 DEF Stage
  <2> QED
    BY <2>1, <2>2
<1> QED
  BY <1>10, <1>11, <1>12, <1>13, <1>14 DEF IInv

LEMMA UserCallStep ==
  ASSUME IInv, NEW o \in Object, NEW cmd \in {"open", "listDir"}, UserCall(o, cmd)
  PROVE  IInv'
<1> DEFINE n == Len(calls) + 1
           t == [cmd |-> cmd, call |-> n]
<1>1. /\ calls \in Seq(Object) /\ Len(calls) \in Nat /\ Len(calls) < MaxCalls
      /\ calls' = Append(calls, o)
      /\ UNCHANGED <<listening, fd, opened, files, content, answers>>
  BY DEF UserCall, IInv, CallsOK, disk
<1>2. /\ calls' \in Seq(Object) /\ Len(calls') = n /\ calls'[n] = o
      /\ \A e \in 1..Len(calls) : calls'[e] = calls[e] /\ e \in 1..Len(calls')
  BY <1>1, AppendProperties
<1>3. t \in Task /\ t # Idle
  BY <1>1, BoundsAssumption DEF Task, Call, Idle
<1>4. AddCommand(o, t)
  BY <1>2 DEF UserCall
<1> HIDE DEF t
<1>5. t.call = n /\ t.cmd \in {"open", "listDir"}
  BY DEF t
<1>6. /\ tasks \in [Object -> Seq(Task)] /\ listening \in [Object -> BOOLEAN]
      /\ busy \in [Object -> Task \cup {Idle}]
  BY DEF IInv, QueuesOK
<1>7. CallsOK'
  BY <1>1, <1>2, BoundsAssumption DEF CallsOK
<1>8. DiskOK' /\ ContentOwn'
  BY <1>1, <1>2 DEF IInv, DiskOK, ContentOwn
<1>9. /\ tasks' = [tasks EXCEPT ![o] = Append(tasks[o], t)]
      /\ \/ tasks[o] = <<>> /\ busy' = [busy EXCEPT ![o] = t]
         \/ tasks[o] # <<>> /\ busy' = busy
  <2>1. CASE tasks[o] = <<>> /\ ExecuteNext(o, <<t>>)
    <3>1. Append(tasks[o], t) = <<t>> /\ <<t>> # <<>> /\ Head(<<t>>) = t
      BY <2>1
    <3>2. tasks' = [tasks EXCEPT ![o] = <<t>>] /\ busy' = [busy EXCEPT ![o] = t]
      BY <2>1, <3>1 DEF ExecuteNext, StartHead
    <3> QED
      BY <2>1, <3>1, <3>2
  <2>2. CASE /\ tasks[o] # <<>>
             /\ tasks' = [tasks EXCEPT ![o] = Append(@, t)]
             /\ UNCHANGED busy
    BY <2>2
  <2> QED
    BY <1>4, <2>1, <2>2 DEF AddCommand
<1>10. /\ tasks'[o] \in Seq(Task) /\ Len(tasks[o]) \in Nat
       /\ Len(tasks'[o]) = Len(tasks[o]) + 1 /\ tasks'[o][Len(tasks[o]) + 1] = t
       /\ \A i \in 1..Len(tasks[o]) : tasks'[o][i] = tasks[o][i]
  BY <1>3, <1>6, <1>9, AppendProperties
<1>11. \A p \in Object : p # o => tasks'[p] = tasks[p] /\ busy'[p] = busy[p]
  BY <1>6, <1>9
<1>12. ASSUME NEW p \in Object, NEW i \in 1..Len(tasks'[p])
       PROVE  \/ i \in 1..Len(tasks[p]) /\ tasks'[p][i] = tasks[p][i]
              \/ p = o /\ i = Len(tasks[o]) + 1 /\ tasks'[p][i] = t
  <2>1. CASE p # o
    BY <1>11, <2>1
  <2>2. CASE p = o
    BY <1>10, <2>2
  <2> QED
    BY <2>1, <2>2
<1>13. QueuesOK'
  <2>1. tasks' \in [Object -> Seq(Task)] /\ busy' \in [Object -> Task \cup {Idle}]
    BY <1>3, <1>6, <1>9, <1>10
  <2>2. ASSUME NEW p \in Object, listening[p] \/ busy'[p] # Idle
        PROVE  busy'[p] = IF tasks'[p] = <<>> THEN Idle ELSE Head(tasks'[p])
    <3>1. CASE p # o
      BY <1>11, <2>2, <3>1 DEF IInv, QueuesOK
    <3>2. CASE p = o /\ tasks[o] = <<>>
      BY <1>6, <1>9, <1>10, <3>2
    <3>3. CASE p = o /\ tasks[o] # <<>>
      <4>1. busy'[o] = tasks[o][1]
        BY <1>6, <1>9, <2>2, <3>3 DEF IInv, QueuesOK
      <4>2. tasks'[o][1] = tasks[o][1] /\ tasks'[o] # <<>>
        BY <1>6, <1>10, <3>3
      <4> QED
        BY <1>10, <3>3, <4>1, <4>2
    <3> QED
      BY <3>1, <3>2, <3>3
  <2> QED
    BY <1>1, <1>6, <2>1, <2>2 DEF QueuesOK
<1>14. ASSUME NEW p \in Object, NEW i \in 1..Len(tasks[p])
       PROVE  tasks[p][i].call \in 1..Len(calls) /\ calls[tasks[p][i].call] = p
              /\ tasks[p][i].call # n
  BY <1>1 DEF IInv, Owned
<1>15. Owned'
  <2> SUFFICES ASSUME NEW p \in Object, NEW i \in 1..Len(tasks'[p])
               PROVE  tasks'[p][i].call \in 1..Len(calls') /\ calls'[tasks'[p][i].call] = p
    BY DEF Owned
  <2>1. CASE i \in 1..Len(tasks[p]) /\ tasks'[p][i] = tasks[p][i]
    BY <1>2, <1>14, <2>1
  <2>2. CASE p = o /\ tasks'[p][i] = t
    BY <1>1, <1>2, <1>5, <2>2
  <2> QED
    BY <1>12, <2>1, <2>2
<1>16. OneCommand'
  <2> SUFFICES ASSUME NEW p \in Object, NEW i \in 1..Len(tasks'[p]),
                      NEW j \in 1..Len(tasks'[p]), tasks'[p][i].call = tasks'[p][j].call
               PROVE  i = j
    BY DEF OneCommand
  <2>1. CASE tasks'[p][i].call = n
    <3>1. i = Len(tasks[o]) + 1
      BY <1>12, <1>14, <2>1
    <3>2. tasks'[p][j].call = n
      BY <2>1
    <3>3. j = Len(tasks[o]) + 1
      BY <1>12, <1>14, <3>2
    <3> QED
      BY <3>1, <3>3
  <2>2. CASE tasks'[p][i].call # n
    <3>1. /\ i \in 1..Len(tasks[p]) /\ j \in 1..Len(tasks[p])
          /\ tasks[p][i].call = tasks[p][j].call
      BY <1>5, <1>12, <2>2
    <3> QED
      BY <3>1 DEF IInv, OneCommand
  <2> QED
    BY <2>1, <2>2
<1>17. \A k \in 1..Len(answers) : answers[k].call <= Len(calls)
  BY DEF IInv, NotAnswered
<1>18. NotAnswered'
  <2>1. answers \in Seq(Answer)
    BY DEF IInv
  <2>2. ASSUME NEW k \in 1..Len(answers)
        PROVE  answers[k].call <= Len(calls') /\ answers[k].call # n
    <3>1. answers[k].call \in Nat
      <4>1. answers[k] \in Answer
        BY <2>1
      <4> QED
        BY <4>1 DEF Answer, Call
    <3> QED
      BY <1>1, <1>2, <1>17, <3>1
  <2>3. ASSUME NEW k \in 1..Len(answers), NEW p \in Object, NEW i \in 1..Len(tasks'[p]),
               tasks'[p][i].call = answers[k].call
        PROVE  ~listening[p] /\ answers[k].error
    <3>1. i \in 1..Len(tasks[p]) /\ tasks'[p][i] = tasks[p][i]
      BY <1>5, <1>12, <2>2, <2>3
    <3> QED
      BY <2>3, <3>1 DEF IInv, NotAnswered
  <2> QED
    BY <1>1, <2>2, <2>3 DEF NotAnswered
<1>19. Stages'
  <2> SUFFICES ASSUME NEW p \in Object, NEW i \in 1..Len(tasks'[p]),
                      listening[p] \/ (i = 1 /\ busy'[p] # Idle)
               PROVE  Stage(tasks[p][i])'
    BY <1>1 DEF Stages
  <2>1. CASE i \in 1..Len(tasks[p]) /\ tasks'[p][i] = tasks[p][i]
    <3>1. busy'[p] = busy[p]
      BY <1>6, <1>9, <1>11, <2>1
    <3>2. Stage(tasks[p][i])
      BY <2>1, <3>1 DEF IInv, Stages
    <3> QED
      BY <1>1, <2>1, <3>2 DEF Stage
  <2>2. CASE tasks'[p][i] = t
    <3>1. n \notin files /\ \A d \in Fd : opened[d] # n
      BY <1>1 DEF IInv, DiskOK
    <3> QED
      BY <1>1, <1>5, <2>2, <3>1 DEF Stage
  <2> QED
    BY <1>12, <2>1, <2>2
<1>20. answers' \in Seq(Answer) /\ OwnData' /\ AnsweredOnce' /\ LeftByFailures'
  BY <1>1 DEF IInv, OwnData, AnsweredOnce, LeftByFailures
<1> QED
  BY <1>7, <1>8, <1>13, <1>15, <1>16, <1>18, <1>19, <1>20 DEF IInv

LEMMA NextIInv == IInv /\ [Next]_vars => IInv'
<1> SUFFICES ASSUME IInv, [Next]_vars PROVE IInv'
  OBVIOUS
<1>1. CASE UNCHANGED vars
  <2>1. UNCHANGED <<tasks, listening, busy, calls, fd, opened, files, content, answers>>
    BY <1>1 DEF vars, disk
  <2>2. QueuesOK' /\ CallsOK' /\ DiskOK' /\ ContentOwn' /\ answers' \in Seq(Answer)
    BY <2>1 DEF IInv, QueuesOK, CallsOK, DiskOK, ContentOwn
  <2>3. Owned' /\ OneCommand' /\ NotAnswered'
    BY <2>1 DEF IInv, Owned, OneCommand, NotAnswered
  <2>4. Stages' /\ OwnData' /\ AnsweredOnce' /\ LeftByFailures'
    BY <2>1 DEF IInv, Stages, Stage, OwnData, AnsweredOnce, LeftByFailures
  <2> QED
    BY <2>2, <2>3, <2>4 DEF IInv
<1>2. CASE Next
  <2>1. PICK o \in Object :
          \/ \E cmd \in {"open", "listDir"} : UserCall(o, cmd)
          \/ Returns(o)
          \/ NativeWrites(o)
          \/ Timeout(o)
    BY <1>2 DEF Next
  <2>2. CASE \E cmd \in {"open", "listDir"} : UserCall(o, cmd)
    BY <2>2, UserCallStep
  <2>3. CASE OpenTmpFile(o)
    BY <2>3, OpenTmpFileStep
  <2>4. ASSUME NEW error \in BOOLEAN, NativeReadFile(o, error) PROVE IInv'
    BY <2>4, NativeReadFileStep
  <2>5. ASSUME NEW error \in BOOLEAN, ReadTmpFile(o, error) PROVE IInv'
    BY <2>5, ReadTmpFileStep
  <2>6. ASSUME NEW error \in BOOLEAN, ListDir(o, error) PROVE IInv'
    BY <2>6, ListDirStep
  <2>7. CASE NativeWrites(o)
    BY <2>7, NativeWritesStep
  <2>8. CASE Timeout(o)
    BY <2>8, TimeoutStep
  <2> QED
    BY <2>1, <2>2, <2>3, <2>4, <2>5, <2>6, <2>7, <2>8 DEF Returns
<1> QED
  BY <1>1, <1>2

\* The inductive invariant holds in every state of every behaviour: where the
\* temporary file of a call is follows from the command that is queued for it.
THEOREM Invariance == Spec => []IInv
<1>1. Init => IInv
  BY InitIInv
<1>2. IInv /\ [Next]_vars => IInv'
  BY NextIInv
<1> QED
  BY <1>1, <1>2, PTL DEF Spec

LEMMA IInvType == IInv => TypeOK
<1> SUFFICES ASSUME IInv PROVE TypeOK
  OBVIOUS
<1>1. Len(calls) \in Nat /\ Len(calls) <= MaxCalls /\ files \subseteq 1..Len(calls)
  BY DEF IInv, CallsOK, DiskOK
<1>2. files \subseteq Call
  BY <1>1, BoundsAssumption DEF Call
<1> QED
  BY <1>2 DEF IInv, QueuesOK, CallsOK, DiskOK, ContentOwn, Answer, TypeOK

\* The state always has its type, and what an object works on is the head of its
\* queue.
THEOREM TypeCorrect == Spec => []TypeOK
<1>1. IInv => TypeOK
  BY IInvType
<1> QED
  BY <1>1, Invariance, PTL

\* readFile gives its user the data of its own remote file only, for any number
\* of objects and of overlapping calls and however descriptors are used again.
THEOREM OwnDataOnly == Spec => []OwnData
<1>1. IInv => OwnData
  BY DEF IInv
<1> QED
  BY <1>1, Invariance, PTL

\* The callback of a readFile or readdir is called at most once, with time-outs
\* and late returns at any point.
THEOREM ToldOnce == Spec => []AnsweredOnce
<1>1. IInv => AnsweredOnce
  BY DEF IInv
<1> QED
  BY <1>1, Invariance, PTL

\* After a readFile that went well neither its temporary file nor an open
\* descriptor is left.
THEOREM LeftoversAreFailures == Spec => []LeftByFailures
<1>1. IInv => LeftByFailures
  BY DEF IInv
<1> QED
  BY <1>1, Invariance, PTL
-----------------------------------------------------------------------------

\* The user's callback of call c has been called.
Answered(c) == \E k \in 1..Len(answers) : answers[k].call = c

\* What is added to answers leaves what is there.
LEMMA AnsweredStays ==
  ASSUME answers \in Seq(Answer), NEW c, Answered(c),
         answers' = answers \/ \E s \in Seq(Answer) : answers' = answers \o s
  PROVE  Answered(c)'
<1>1. PICK k \in 1..Len(answers) : answers[k].call = c
  BY DEF Answered
<1>2. k \in 1..Len(answers') /\ answers'[k] = answers[k]
  <2>1. CASE answers' = answers
    BY <2>1
  <2>2. ASSUME NEW s \in Seq(Answer), answers' = answers \o s
        PROVE  k \in 1..Len(answers') /\ answers'[k] = answers[k]
    <3>1. Len(answers') = Len(answers) + Len(s) /\ Len(answers) \in Nat /\ Len(s) \in Nat
      BY <2>2, ConcatProperties
    <3> QED
      BY <2>2, <3>1, ConcatProperties
  <2> QED
    BY <2>1, <2>2
<1> QED
  BY <1>1, <1>2 DEF Answered

\* What a step tells the user is added at the end.
LEMMA EmitAdds ==
  ASSUME NEW o \in Object, NEW more, NEW told \in Seq(Answer),
         answers \in Seq(Answer), Emit(o, more, told)
  PROVE  answers' = answers \/ \E s \in Seq(Answer) : answers' = answers \o s
BY DEF Emit

LEMMA AnswersGrow ==
  ASSUME IInv, [Next]_vars
  PROVE  answers' = answers \/ \E s \in Seq(Answer) : answers' = answers \o s
<1>1. answers \in Seq(Answer) /\ content \in [Call -> SUBSET Call]
  BY DEF IInv, ContentOwn
<1>2. ASSUME NEW c \in Call, NEW error \in BOOLEAN, NEW data \in SUBSET Call
      PROVE  <<[call |-> c, error |-> error, data |-> data]>> \in Seq(Answer)
  <2>1. [call |-> c, error |-> error, data |-> data] \in Answer
    BY DEF Answer
  <2> QED
    BY <2>1
<1>3. ASSUME NEW c \in Call PROVE Told(c) \in Seq(Answer)
  BY <1>2 DEF Told
<1>4. ASSUME NEW o \in Object, Returns(o)
      PROVE  answers' = answers \/ \E s \in Seq(Answer) : answers' = answers \o s
  <2>1. busy[o] # Idle
    BY <1>4, NotIdle DEF Returns, OpenTmpFile, NativeReadFile, ReadTmpFile, ListDir
  <2>2. busy[o].call \in Call
    BY <2>1, BusyCall
  <2>3. \E more : \E told \in Seq(Answer) : Emit(o, more, told)
    <3>1. <<>> \in Seq(Answer) /\ Told(busy[o].call) \in Seq(Answer)
      BY <1>3, <2>2, EmptySeq
    <3>2. CASE OpenTmpFile(o)
      BY <3>1, <3>2 DEF OpenTmpFile
    <3>3. ASSUME NEW error \in BOOLEAN, NativeReadFile(o, error)
          PROVE  \E more : \E told \in Seq(Answer) : Emit(o, more, told)
      BY <3>1, <3>3 DEF NativeReadFile
    <3>4. ASSUME NEW error \in BOOLEAN, ReadTmpFile(o, error)
          PROVE  \E more : \E told \in Seq(Answer) : Emit(o, more, told)
      <4>1. content[busy[o].call] \in SUBSET Call
        BY <1>1, <2>2
      <4>2. <<[call |-> busy[o].call, error |-> FALSE, data |-> content[busy[o].call]]>>
              \in Seq(Answer)
        BY <1>2, <2>2, <4>1
      <4> QED
        BY <3>1, <3>4, <4>2 DEF ReadTmpFile
    <3>5. ASSUME NEW error \in BOOLEAN, ListDir(o, error)
          PROVE  \E more : \E told \in Seq(Answer) : Emit(o, more, told)
      BY <1>2, <2>2, <3>5 DEF ListDir
    <3> QED
      BY <1>4, <3>2, <3>3, <3>4, <3>5 DEF Returns
  <2> QED
    BY <1>1, <2>3, EmitAdds
<1>5. ASSUME NEW o \in Object, Timeout(o)
      PROVE  answers' = answers \/ \E s \in Seq(Answer) : answers' = answers \o s
  <2>1. busy[o].call \in Call
    BY <1>5, BusyCall DEF Timeout
  <2> QED
    BY <1>1, <1>3, <1>5, <2>1, EmptySeq DEF Timeout
<1>6. ASSUME NEW o \in Object, NativeWrites(o) \/ \E cmd \in {"open", "listDir"} : UserCall(o, cmd)
      PROVE  answers' = answers
  BY <1>6 DEF NativeWrites, UserCall
<1>7. CASE UNCHANGED vars
  BY <1>7 DEF vars
<1> QED
  BY <1>4, <1>5, <1>6, <1>7 DEF Next

\* A readFile that was answered before it had closed its descriptor never closes
\* it: nothing that is called later, and no late return, reaches it, and each
\* such readFile takes one descriptor from the process for good.
THEOREM LeakedForGood ==
  Spec => [][\A d \in Fd : Answered(opened[d])
               => opened'[d] = opened[d] /\ Answered(opened[d])']_vars
<1> DEFINE A == \A d \in Fd : Answered(opened[d])
                  => opened'[d] = opened[d] /\ Answered(opened[d])'
<1>1. IInv /\ [Next]_vars => A
  <2> SUFFICES ASSUME IInv, [Next]_vars, NEW d \in Fd, Answered(opened[d])
               PROVE  opened'[d] = opened[d] /\ Answered(opened[d])'
    OBVIOUS
  <2>1. opened \in [Fd -> 0..MaxCalls] /\ answers \in Seq(Answer)
    BY DEF IInv, DiskOK
  <2>2. opened[d] # 0
    <3>1. PICK k \in 1..Len(answers) : answers[k].call = opened[d]
      BY DEF Answered
    <3>2. answers[k] \in Answer
      BY <2>1, <3>1
    <3>3. answers[k].call \in Call
      BY <3>2 DEF Answer
    <3> QED
      BY <3>1, <3>3, BoundsAssumption DEF Call
  <2>3. opened'[d] = opened[d]
    <3>1. ASSUME NEW o \in Object, OpenTmpFile(o) PROVE opened'[d] = opened[d]
      BY <2>1, <2>2, <3>1 DEF OpenTmpFile, disk
    <3>2. ASSUME NEW o \in Object, NEW error \in BOOLEAN, NativeReadFile(o, error)
          PROVE  opened'[d] = opened[d]
      <4>1. CASE listening[o] /\ ~error
        <5>1. busy[o] # Idle /\ busy[o].cmd = "read"
          BY <3>2 DEF NativeReadFile, Idle
        <5>2. /\ \A e \in Fd : opened[e] = busy[o].call <=> e = fd[busy[o].call]
              /\ ~Answered(busy[o].call)
          BY <4>1, <5>1, BusyCall DEF Stage, Answered
        <5>3. d # fd[busy[o].call]
          BY <5>2
        <5> QED
          BY <2>1, <3>2, <4>1, <5>3 DEF NativeReadFile, CloseSync
      <4>2. CASE ~(listening[o] /\ ~error)
        BY <3>2, <4>2 DEF NativeReadFile, KeepOpen
      <4> QED
        BY <4>1, <4>2
    <3>3. ASSUME NEW o \in Object, NEW error \in BOOLEAN,
                 ReadTmpFile(o, error) \/ ListDir(o, error)
          PROVE  opened' = opened
      BY <3>3 DEF ReadTmpFile, ListDir, disk
    <3>4. ASSUME NEW o \in Object, NativeWrites(o) \/ Timeout(o)
                                   \/ \E cmd \in {"open", "listDir"} : UserCall(o, cmd)
          PROVE  opened' = opened
      BY <3>4 DEF NativeWrites, Timeout, UserCall, KeepOpen, disk
    <3>5. CASE UNCHANGED vars
      BY <3>5 DEF vars, disk
    <3> QED
      BY <3>1, <3>2, <3>3, <3>4, <3>5 DEF Next, Returns
  <2>4. \E c : c = opened[d] /\ c = opened'[d] /\ Answered(c)
    BY <2>3
  <2>5. Answered(opened[d])'
    BY <2>1, <2>4, AnsweredStays, AnswersGrow DEF Answered
  <2> QED
    BY <2>3, <2>5
<1>2. IInv /\ [Next]_vars => [A]_vars
  BY <1>1
<1> QED
  BY <1>2, Invariance, PTL DEF Spec

-----------------------------------------------------------------------------
(* The order in which an object executes its commands, those that the      *)
(* callbacks of readFile queue among them.  History variables keep, for    *)
(* each object, the commands that were queued, those that came to their    *)
(* end, and those whose 'callback' was heard, as they are.                 *)

VARIABLES
  entered,   \* history: the commands queued, by calls and by callbacks
  executed,  \* history: what the native object or fs did that came to its end
  heard      \* history: the commands that left the queue when they were answered

accounts == <<entered, executed, heard>>

\* The commands that a callback may queue.
Following == {<<>>} \cup {<<t>> : t \in Task}

\* A command that comes to its end is answered, and queues what follows it, if
\* somebody listens.
Leaves(o) ==
  /\ heard' = [heard EXCEPT ![o] = Append(@, Head(tasks[o]))]
  /\ \E more \in Following, told \in Seq(Answer) :
       Emit(o, more, told) /\ entered' = [entered EXCEPT ![o] = @ \o more]
Ends(o) ==
  /\ executed' = [executed EXCEPT ![o] = Append(@, busy[o])]
  /\ \/ listening[o] /\ Leaves(o)
     \/ ~listening[o] /\ UNCHANGED <<entered, heard>>
Enters(o, t) ==
  entered' = [entered EXCEPT ![o] = Append(@, t)] /\ UNCHANGED <<executed, heard>>

HInit == Init /\ LET none == [o \in Object |-> <<>>] IN accounts = <<none, none, none>>
HNext ==
  \E o \in Object :
    \/ \E cmd \in {"open", "listDir"} :
         UserCall(o, cmd) /\ Enters(o, [cmd |-> cmd, call |-> Len(calls')])
    \/ Returns(o) /\ Ends(o)
    \/ (NativeWrites(o) \/ Timeout(o)) /\ UNCHANGED accounts
HSpec == HInit /\ [][HNext]_<<vars, accounts>>

\* The head that has timed out, when it has come to its end: it stays in the queue.
Late(o) == IF listening[o] \/ busy[o] # Idle THEN <<>> ELSE <<Head(tasks[o])>>

\* What was queued and has not been answered is the queue, in the order in which it
\* was queued; and each command that was answered was executed before, once and in
\* that order.  After a time-out nothing more is executed but the head.
OneByOne ==
  \A o \in Object :
    entered[o] = heard[o] \o tasks[o] /\ executed[o] = heard[o] \o Late(o)

AccountsOK ==
  /\ entered \in [Object -> Seq(Task)] /\ executed \in [Object -> Seq(Task)]
  /\ heard \in [Object -> Seq(Task)]
  /\ \A o \in Object : ~listening[o] => tasks[o] # <<>>
  /\ OneByOne

\* The accounts hinder no step: whatever returns queues something of Following.
LEMMA ReturnEmits ==
  ASSUME IInv, NEW o \in Object, Returns(o)
  PROVE  \E more \in Following, told \in Seq(Answer) : Emit(o, more, told)
<1>1. busy[o] # Idle
  BY NotIdle DEF Returns, OpenTmpFile, NativeReadFile, ReadTmpFile, ListDir
<1> DEFINE c == busy[o].call
<1>2. c \in Call /\ Then(o, "read") \in Task /\ Then(o, "readTmp") \in Task
  BY <1>1, BusyCall DEF Then, Task
<1>3. /\ <<>> \in Following /\ <<Then(o, "read")>> \in Following
      /\ <<Then(o, "readTmp")>> \in Following
  BY <1>2 DEF Following
<1>4. \A error \in BOOLEAN, data \in SUBSET Call :
        <<[call |-> c, error |-> error, data |-> data]>> \in Seq(Answer)
  BY <1>2 DEF Answer
<1>5. Told(c) \in Seq(Answer) /\ <<>> \in Seq(Answer) /\ content[c] \subseteq Call
  BY <1>2, <1>4, EmptySeq DEF Told, IInv, ContentOwn
<1>6. CASE OpenTmpFile(o)
  BY <1>3, <1>5, <1>6 DEF OpenTmpFile, Stop
<1>7. ASSUME NEW error \in BOOLEAN, NativeReadFile(o, error)
      PROVE  \E more \in Following, told \in Seq(Answer) : Emit(o, more, told)
  BY <1>3, <1>5, <1>7 DEF NativeReadFile, Stop
<1>8. ASSUME NEW error \in BOOLEAN, ReadTmpFile(o, error)
      PROVE  \E more \in Following, told \in Seq(Answer) : Emit(o, more, told)
  <2>1. PICK told : /\ told = IF error THEN Told(c)
                              ELSE <<[call |-> c, error |-> FALSE, data |-> content[c]]>>
                    /\ Emit(o, <<>>, told)
    BY <1>8 DEF ReadTmpFile
  <2>2. told \in Seq(Answer)
    BY <1>4, <1>5, <2>1
  <2> QED
    BY <1>3, <2>1, <2>2
<1>9. ASSUME NEW error \in BOOLEAN, ListDir(o, error)
      PROVE  \E more \in Following, told \in Seq(Answer) : Emit(o, more, told)
  <2>1. PICK told : told = <<[call |-> c, error |-> error, data |-> {}]>> /\ Emit(o, <<>>, told)
    BY <1>9 DEF ListDir
  <2>2. told \in Seq(Answer)
    BY <1>4, <2>1
  <2> QED
    BY <1>3, <2>1, <2>2
<1> QED
  BY <1>6, <1>7, <1>8, <1>9 DEF Returns

\* The accounts of an object, and what they say of it.
AccountOK(o) ==
  /\ entered[o] \in Seq(Task) /\ executed[o] \in Seq(Task) /\ heard[o] \in Seq(Task)
  /\ ~listening[o] => tasks[o] # <<>>
  /\ entered[o] = heard[o] \o tasks[o] /\ executed[o] = heard[o] \o Late(o)

Rests(o) ==
  /\ tasks'[o] = tasks[o] /\ listening'[o] = listening[o] /\ busy'[o] = busy[o]
  /\ entered'[o] = entered[o] /\ executed'[o] = executed[o] /\ heard'[o] = heard[o]

LEMMA RestKeeps ==
  ASSUME NEW o \in Object, AccountOK(o), Rests(o)
  PROVE  AccountOK(o)'
BY DEF AccountOK, Rests, Late

\* What one object does leaves the accounts of the others alone.
LEMMA OthersRest ==
  ASSUME IInv, AccountsOK, NEW p \in Object, NEW o \in Object, o # p,
         \/ \E cmd \in {"open", "listDir"}, t \in Task : UserCall(p, cmd) /\ Enters(p, t)
         \/ Returns(p) /\ Ends(p)
         \/ (NativeWrites(p) \/ Timeout(p)) /\ UNCHANGED accounts
  PROVE  Rests(o)
<1>1. /\ tasks \in [Object -> Seq(Task)] /\ listening \in [Object -> BOOLEAN]
      /\ busy \in [Object -> Task \cup {Idle}] /\ entered \in [Object -> Seq(Task)]
      /\ executed \in [Object -> Seq(Task)] /\ heard \in [Object -> Seq(Task)]
  BY DEF IInv, QueuesOK, AccountsOK
<1>2. entered'[o] = entered[o] /\ executed'[o] = executed[o] /\ heard'[o] = heard[o]
  BY <1>1 DEF Enters, Ends, Leaves, accounts
<1>3. tasks'[o] = tasks[o] /\ busy'[o] = busy[o]
  BY <1>1 DEF UserCall, AddCommand, ExecuteNext, Returns, OpenTmpFile, NativeReadFile,
              ReadTmpFile, ListDir, Emit, NativeWrites, Timeout
<1>4. listening'[o] = listening[o]
  BY <1>1 DEF UserCall, Returns, OpenTmpFile, NativeReadFile, ReadTmpFile, ListDir,
              NativeWrites, Timeout
<1> QED
  BY <1>2, <1>3, <1>4 DEF Rests

\* Sequences of commands, moved from one end to the other.
LEMMA MovesHead ==
  ASSUME NEW h \in Seq(Task), NEW q \in Seq(Task), q # <<>>, NEW more \in Seq(Task)
  PROVE  /\ Append(h, Head(q)) \in Seq(Task)
         /\ Append(h, Head(q)) = h \o <<Head(q)>>
         /\ (h \o q) \o more = Append(h, Head(q)) \o (Tail(q) \o more)
<1>1. /\ Head(q) \in Task /\ Tail(q) \in Seq(Task) /\ <<Head(q)>> \in Seq(Task)
      /\ q = <<Head(q)>> \o Tail(q)
  BY HeadTailProperties
<1>2. Append(h, Head(q)) = h \o <<Head(q)>> /\ Append(h, Head(q)) \in Seq(Task)
  BY <1>1, AppendIsConcat, AppendProperties
<1>3. h \o q = Append(h, Head(q)) \o Tail(q)
  <2>1. (h \o <<Head(q)>>) \o Tail(q) = h \o (<<Head(q)>> \o Tail(q))
    BY <1>1, ConcatAssociative
  <2> QED
    BY <1>1, <1>2, <2>1
<1>4. (Append(h, Head(q)) \o Tail(q)) \o more = Append(h, Head(q)) \o (Tail(q) \o more)
  <2>1. PICK a \in Seq(Task), r \in Seq(Task) : a = Append(h, Head(q)) /\ r = Tail(q)
    BY <1>1, <1>2
  <2>2. (a \o r) \o more = a \o (r \o more)
    BY ConcatAssociative
  <2> QED
    BY <2>1, <2>2
<1> QED
  BY <1>2, <1>3, <1>4

LEMMA EntersInOrder ==
  ASSUME IInv, AccountsOK, NEW o \in Object, NEW cmd \in {"open", "listDir"},
         NEW t \in Task, t = [cmd |-> cmd, call |-> Len(calls')],
         UserCall(o, cmd), Enters(o, t)
  PROVE  AccountOK(o)'
<1>1. /\ tasks \in [Object -> Seq(Task)] /\ busy \in [Object -> Task \cup {Idle}]
      /\ tasks[o] \in Seq(Task) /\ heard[o] \in Seq(Task) /\ entered[o] \in Seq(Task)
      /\ executed[o] \in Seq(Task)
      /\ entered \in [Object -> Seq(Task)] /\ AddCommand(o, t) /\ listening' = listening
  BY DEF IInv, QueuesOK, UserCall, AccountsOK
<1>2. /\ entered[o] = heard[o] \o tasks[o] /\ executed[o] = heard[o] \o Late(o)
      /\ ~listening[o] => tasks[o] # <<>>
  BY DEF AccountsOK, OneByOne
<1>3. entered'[o] = Append(entered[o], t) /\ executed' = executed /\ heard' = heard
  BY <1>1 DEF Enters
<1>4. tasks'[o] = Append(tasks[o], t)
  <2>1. tasks[o] = <<>> => Append(tasks[o], t) = <<t>>
    OBVIOUS
  <2> QED
    BY <1>1, <2>1 DEF AddCommand, ExecuteNext
<1>5. Late(o)' = Late(o)
  <2>1. CASE listening[o]
    BY <1>1, <2>1 DEF Late
  <2>2. CASE ~listening[o]
    <3>1. tasks[o] # <<>> /\ busy' = busy
      BY <1>1, <1>2, <2>2 DEF AddCommand
    <3>2. Head(tasks'[o]) = Head(tasks[o])
      BY <1>1, <1>4, <3>1, HeadTailAppend
    <3> QED
      BY <1>1, <3>1, <3>2 DEF Late
  <2> QED
    BY <2>1, <2>2
<1>6. entered'[o] = heard[o] \o tasks'[o]
  <2>1. PICK h \in Seq(Task), q \in Seq(Task) : h = heard[o] /\ q = tasks[o]
    BY <1>1
  <2>2. h \o q \in Seq(Task)
    BY ConcatProperties
  <2>3. Append(h \o q, t) = (h \o q) \o <<t>> /\ Append(q, t) = q \o <<t>>
    BY <2>2, AppendIsConcat
  <2>4. <<t>> \in Seq(Task)
    OBVIOUS
  <2>5. (h \o q) \o <<t>> = h \o (q \o <<t>>)
    BY <2>4, ConcatAssociative
  <2>6. entered'[o] = Append(h \o q, t) /\ tasks'[o] = Append(q, t)
    BY <1>2, <1>3, <1>4, <2>1
  <2> QED
    BY <2>1, <2>3, <2>5, <2>6
<1>7. entered'[o] \in Seq(Task) /\ tasks'[o] # <<>>
  <2>1. PICK e \in Seq(Task), q \in Seq(Task) : e = entered[o] /\ q = tasks[o]
    BY <1>1
  <2>2. Append(e, t) \in Seq(Task) /\ Append(q, t) # <<>>
    BY AppendProperties
  <2> QED
    BY <1>3, <1>4, <2>1, <2>2
<1> QED
  BY <1>1, <1>2, <1>3, <1>5, <1>6, <1>7 DEF AccountOK

LEMMA EndsInOrder ==
  ASSUME IInv, AccountsOK, NEW o \in Object, Returns(o), Ends(o)
  PROVE  AccountOK(o)'
<1>1. /\ tasks \in [Object -> Seq(Task)] /\ busy \in [Object -> Task \cup {Idle}]
      /\ entered \in [Object -> Seq(Task)] /\ executed \in [Object -> Seq(Task)]
      /\ heard \in [Object -> Seq(Task)]
  BY DEF IInv, QueuesOK, AccountsOK
<1>2. busy[o] # Idle /\ listening' = listening
  <2>1. busy[o] # Idle
    BY NotIdle DEF Returns, OpenTmpFile, NativeReadFile, ReadTmpFile, ListDir
  <2> QED
    BY <2>1 DEF Returns, OpenTmpFile, NativeReadFile, ReadTmpFile, ListDir
<1>3. busy[o] = Head(tasks[o]) /\ tasks[o] \in Seq(Task) /\ tasks[o] # <<>> /\ busy[o] \in Task
  BY <1>2, BusyHead
<1>4. /\ heard[o] \in Seq(Task) /\ entered[o] \in Seq(Task)
      /\ entered[o] = heard[o] \o tasks[o] /\ executed[o] = heard[o] \o <<>>
  BY <1>1, <1>2 DEF AccountsOK, OneByOne, Late
<1>5. /\ executed'[o] = Append(heard[o], Head(tasks[o]))
      /\ Append(heard[o], Head(tasks[o])) = heard[o] \o <<Head(tasks[o])>>
      /\ Append(heard[o], Head(tasks[o])) \in Seq(Task)
  <2>1. executed[o] = heard[o]
    BY <1>4, ConcatEmptySeq
  <2>2. executed'[o] = Append(executed[o], busy[o])
    BY <1>1 DEF Ends
  <2>3. <<>> \in Seq(Task)
    BY EmptySeq
  <2> QED
    BY <1>3, <1>4, <2>1, <2>2, <2>3, MovesHead
<1>6. CASE listening[o]
  <2>1. PICK more \in Following, told \in Seq(Answer) :
          Emit(o, more, told) /\ entered' = [entered EXCEPT ![o] = @ \o more]
    BY <1>6 DEF Ends, Leaves
  <2>2. heard'[o] = Append(heard[o], Head(tasks[o]))
    BY <1>1, <1>6 DEF Ends, Leaves
  <2>3. more \in Seq(Task)
    <3>1. CASE more = <<>>
      BY <3>1, EmptySeq
    <3>2. ASSUME NEW t \in Task, more = <<t>> PROVE more \in Seq(Task)
      BY <3>2
    <3> QED
      BY <3>1, <3>2 DEF Following
  <2>4. tasks'[o] = Tail(tasks[o]) \o more
    BY <1>1, <1>6, <2>1 DEF Emit, ExecuteNext
  <2>5. entered'[o] = (heard[o] \o tasks[o]) \o more
    BY <1>1, <1>4, <2>1
  <2>6. entered'[o] = heard'[o] \o tasks'[o]
    <3>1. PICK h \in Seq(Task), q \in Seq(Task) : h = heard[o] /\ q = tasks[o]
      BY <1>3, <1>4
    <3>2. q # <<>>
      BY <1>3, <3>1
    <3>3. (h \o q) \o more = Append(h, Head(q)) \o (Tail(q) \o more)
      BY ONLY <2>3, <3>2, MovesHead, h \in Seq(Task), q \in Seq(Task)
    <3> QED
      BY <2>2, <2>4, <2>5, <3>1, <3>3
  <2>7. entered'[o] \in Seq(Task)
    BY <1>1, <1>4, <2>1, <2>3, ConcatProperties
  <2>8. executed'[o] = heard'[o] \o Late(o)'
    <3>1. Late(o)' = <<>> /\ executed'[o] = heard'[o] /\ heard'[o] \in Seq(Task)
      BY <1>2, <1>5, <1>6, <2>2 DEF Late
    <3> QED
      BY <3>1, ConcatEmptySeq
  <2> QED
    BY <1>2, <1>5, <1>6, <2>2, <2>6, <2>7, <2>8 DEF AccountOK
<1>7. CASE ~listening[o]
  <2>1. tasks' = tasks /\ busy'[o] = Idle
    BY <1>1, <1>7 DEF Returns, OpenTmpFile, NativeReadFile, ReadTmpFile, ListDir, Emit
  <2>2. heard' = heard /\ entered' = entered
    BY <1>7 DEF Ends
  <2>3. Late(o)' = <<Head(tasks[o])>>
    BY <1>2, <1>7, <2>1 DEF Late
  <2> QED
    BY <1>3, <1>4, <1>5, <2>1, <2>2, <2>3 DEF AccountOK
<1> QED
  BY <1>6, <1>7

LEMMA TimeoutInOrder ==
  ASSUME IInv, AccountsOK, NEW o \in Object, Timeout(o), UNCHANGED accounts
  PROVE  AccountOK(o)'
<1>1. busy[o] # Idle /\ UNCHANGED <<tasks, busy>> /\ listening[o]
  BY DEF Timeout
<1>2. tasks[o] # <<>>
  BY <1>1, BusyHead
<1>3. Late(o)' = Late(o)
  BY <1>1 DEF Late
<1> QED
  BY <1>1, <1>2, <1>3 DEF accounts, AccountsOK, OneByOne, AccountOK

LEMMA HNextAccounts == IInv /\ AccountsOK /\ [HNext]_<<vars, accounts>> => AccountsOK'
<1> SUFFICES ASSUME IInv, AccountsOK, [HNext]_<<vars, accounts>> PROVE AccountsOK'
  OBVIOUS
<1>1. /\ entered \in [Object -> Seq(Task)] /\ executed \in [Object -> Seq(Task)]
      /\ heard \in [Object -> Seq(Task)] /\ \A o \in Object : AccountOK(o)
  BY DEF AccountsOK, OneByOne, AccountOK
<1>2. ASSUME NEW p \in Object, NEW cmd \in {"open", "listDir"}, UserCall(p, cmd)
      PROVE  [cmd |-> cmd, call |-> Len(calls')] \in Task
  <2>1. Len(calls) \in Nat /\ Len(calls') = Len(calls) + 1 /\ Len(calls) < MaxCalls
    BY <1>2 DEF UserCall, IInv, CallsOK
  <2> QED
    BY <2>1, BoundsAssumption DEF Task, Call
<1>3. ASSUME NEW o \in Object PROVE AccountOK(o)'
  <2>1. CASE UNCHANGED <<vars, accounts>>
    BY <1>1, <2>1, RestKeeps DEF vars, disk, accounts, Rests
  <2>2. ASSUME NEW p \in Object, p # o,
               \/ \E cmd \in {"open", "listDir"}, t \in Task : UserCall(p, cmd) /\ Enters(p, t)
               \/ Returns(p) /\ Ends(p)
               \/ (NativeWrites(p) \/ Timeout(p)) /\ UNCHANGED accounts
        PROVE  AccountOK(o)'
    BY <1>1, <2>2, OthersRest, RestKeeps
  <2>3. ASSUME NEW cmd \in {"open", "listDir"}, UserCall(o, cmd),
               Enters(o, [cmd |-> cmd, call |-> Len(calls')])
        PROVE  AccountOK(o)'
    BY <1>2, <2>3, EntersInOrder
  <2>4. CASE Returns(o) /\ Ends(o)
    BY <2>4, EndsInOrder
  <2>5. CASE NativeWrites(o) /\ UNCHANGED accounts
    BY <1>1, <2>5, RestKeeps DEF NativeWrites, accounts, Rests
  <2>6. CASE Timeout(o) /\ UNCHANGED accounts
    BY <2>6, TimeoutInOrder
  <2> QED
    BY <1>2, <2>1, <2>2, <2>3, <2>4, <2>5, <2>6 DEF HNext
<1>4. DOMAIN entered' = Object /\ DOMAIN executed' = Object /\ DOMAIN heard' = Object
  BY <1>1 DEF HNext, Enters, Ends, Leaves, accounts
<1>5. entered' = [o \in Object |-> entered'[o]] /\ executed' = [o \in Object |-> executed'[o]]
      /\ heard' = [o \in Object |-> heard'[o]]
  BY <1>1 DEF HNext, Enters, Ends, Leaves, accounts
<1>6. /\ entered' \in [Object -> Seq(Task)] /\ executed' \in [Object -> Seq(Task)]
      /\ heard' \in [Object -> Seq(Task)]
  BY <1>3, <1>5 DEF AccountOK
<1> QED
  BY <1>3, <1>6 DEF AccountsOK, OneByOne, AccountOK

\* Every object executes its commands one at a time and in the order they were
\* queued, those that readFile's callbacks queue among them, and answers them in
\* that order; the command that times out is the last that is executed, and what
\* returns later is told to nobody.  The other objects do not come in between.
THEOREM EachObjectOneByOne == HSpec => []OneByOne
<1>1. HInit => AccountsOK
  <2> SUFFICES ASSUME HInit PROVE AccountsOK
    OBVIOUS
  <2>1. /\ entered = [o \in Object |-> <<>>] /\ executed = [o \in Object |-> <<>>]
        /\ heard = [o \in Object |-> <<>>] /\ tasks = [o \in Object |-> <<>>]
        /\ listening = [o \in Object |-> TRUE]
    BY DEF HInit, Init, accounts
  <2>2. <<>> \in Seq(Task) /\ <<>> \o <<>> = <<>>
    BY EmptySeq, ConcatEmptySeq
  <2> QED
    BY <2>1, <2>2 DEF AccountsOK, OneByOne, Late
<1>2. HSpec => Spec
  <2>1. HInit => Init
    BY DEF HInit
  <2>2. [HNext]_<<vars, accounts>> => [Next]_vars
    BY DEF HNext, Next
  <2> QED
    BY <2>1, <2>2, PTL DEF HSpec, Spec
<1>3. IInv /\ AccountsOK /\ [HNext]_<<vars, accounts>> => AccountsOK'
  BY HNextAccounts
<1>4. AccountsOK => OneByOne
  BY DEF AccountsOK
<1> QED
  BY <1>1, <1>2, <1>3, <1>4, Invariance, PTL DEF HSpec
=============================================================================
