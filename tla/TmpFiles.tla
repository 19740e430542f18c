------------------------------ MODULE TmpFiles ------------------------------
(***************************************************************************)
(* readFile and readdir of index.js as clients of the queue.  readFile     *)
(* goes through three commands, each queued by the callback of the one     *)
(* before: a temporary file is created and opened, the native readFile     *)
(* copies the remote file into its descriptor, and after the descriptor is *)
(* closed the file is read and removed.  readdir is one command with a     *)
(* wrapper around the user's callback.                                     *)
(*                                                                         *)
(* A process may have several sftp objects, each with its queue, that      *)
(* share its descriptors and its directory of temporary files.  A command  *)
(* may time out; its object then starts nothing any more (TaskQueue), but  *)
(* what was started goes on.  The native readFile is seen from outside     *)
(* (SftpTransfer has its rounds): it writes into the descriptor it was     *)
(* given until it returns.                                                 *)
(***************************************************************************)
EXTENDS Naturals, Sequences

CONSTANTS
  Object,    \* the sftp objects of the process
  MaxCalls,  \* bound on the calls of readFile and readdir
  MaxFds     \* how many descriptors the process may have

ASSUME BoundsAssumption == MaxCalls \in Nat /\ MaxFds \in Nat

VARIABLES
  tasks,      \* the _tasks of each object
  listening,  \* whether its handler of 'callback' is installed
  busy,       \* what its native object or fs does for it: a task or Idle
  calls,      \* history: the object of each call
  fd,         \* tmp.fd of each call, 0 before it is opened
  opened,     \* the call whose temporary file each descriptor is open on, or 0
  files,      \* the calls whose temporary file exists
  content,    \* the calls whose data were written into each temporary file
  answers     \* history: the calls of the users' callbacks

disk == <<fd, opened, files, content>>
vars == <<tasks, listening, busy, calls, disk, answers>>

Call == 1..MaxCalls
Fd == 1..MaxFds
Task == [cmd : {"open", "read", "readTmp", "listDir"}, call : Call]
Idle == [cmd |-> "idle", call |-> 0]

TypeOK ==
  /\ tasks \in [Object -> Seq(Task)]
  /\ listening \in [Object -> BOOLEAN]
  /\ busy \in [Object -> Task \cup {Idle}]
  /\ \A o \in Object : listening[o] \/ busy[o] # Idle =>
       busy[o] = IF tasks[o] = <<>> THEN Idle ELSE Head(tasks[o])
  /\ calls \in Seq(Object) /\ Len(calls) <= MaxCalls
  /\ fd \in [Call -> 0..MaxFds] /\ opened \in [Fd -> 0..MaxCalls]
  /\ files \subseteq Call /\ content \in [Call -> SUBSET Call]
  /\ answers \in Seq([call : Call, error : BOOLEAN, data : SUBSET Call])

Init ==
  /\ tasks = [o \in Object |-> <<>>]
  /\ listening = [o \in Object |-> TRUE]
  /\ busy = [o \in Object |-> Idle]
  /\ calls = <<>>
  /\ fd = [c \in Call |-> 0] /\ opened = [d \in Fd |-> 0]
  /\ files = {} /\ content = [c \in Call |-> {}]
  /\ answers = <<>>

-----------------------------------------------------------------------------
(* The pieces of the handlers, each preceded by what it would be with a    *)
(* plausible mistake; the mistaken forms are used by no definition.        *)

\* What the queue ts starts, being what was started before.
StartNothing(ts, before) == before
StartHead(ts, before) == IF ts = <<>> THEN Idle ELSE Head(ts)

\* The commands queued by the callback of a command that failed, next being
\* the one that follows it.
GoOn(next) == <<next>>
Stop(next) == <<>>

\* The descriptors after the native readFile has failed, or has succeeded.
CloseOnError(d) == [opened EXCEPT ![d] = 0]
KeepOpen(d) == opened
CloseSync(d) == [opened EXCEPT ![d] = 0]

\* The calls of the user's callback for an error of call c.
NotTold(c) == <<>>
Told(c) == <<[call |-> c, error |-> TRUE, data |-> {}]>>

-----------------------------------------------------------------------------
(* The queue of object o.                                                  *)

ExecuteNext(o, ts) ==
  /\ tasks' = [tasks EXCEPT ![o] = ts]
  /\ busy' = [busy EXCEPT ![o] = StartHead(ts, @)]

\* _addCommand.  After a time-out the head stays, so nothing is started.
AddCommand(o, t) ==
  \/ tasks[o] = <<>> /\ ExecuteNext(o, <<t>>)
  \/ tasks[o] # <<>> /\ tasks' = [tasks EXCEPT ![o] = Append(@, t)] /\ UNCHANGED busy

\* 'callback' is emitted for the head, whose callback queues more and tells the
\* user told; nobody hears it after a time-out.
Emit(o, more, told) ==
  \/ /\ listening[o]
     /\ ExecuteNext(o, Tail(tasks[o]) \o more)
     /\ answers' = answers \o told
  \/ /\ ~listening[o]
     /\ busy' = [busy EXCEPT ![o] = Idle]
     /\ UNCHANGED <<tasks, answers>>

Then(o, cmd) == [cmd |-> cmd, call |-> busy[o].call]

-----------------------------------------------------------------------------
(* The actions.                                                            *)

\* readFile and readdir of object o.
UserCall(o, cmd) ==
  /\ Len(calls) < MaxCalls
  /\ calls' = Append(calls, o)
  /\ AddCommand(o, [cmd |-> cmd, call |-> Len(calls')])
  /\ UNCHANGED <<listening, disk, answers>>

\* _openTmpFile and readFile's first callback.  The file gets a free descriptor,
\* or cannot be opened.
OpenTmpFile(o) ==
  LET c == busy[o].call IN
  /\ busy[o].cmd = "open"
  /\ \/ /\ Emit(o, Stop(Then(o, "read")), Told(c))
        /\ UNCHANGED disk
     \/ /\ \E d \in Fd :
             /\ opened[d] = 0
             /\ fd' = [fd EXCEPT ![c] = d]
             /\ opened' = [opened EXCEPT ![d] = c]
        /\ files' = files \cup {c}
        /\ Emit(o, <<Then(o, "read")>>, <<>>)
        /\ UNCHANGED content
  /\ UNCHANGED <<listening, calls>>

\* A worker writes into the descriptor, whatever that is now.
NativeWrites(o) ==
  LET file == opened[fd[busy[o].call]] IN
  /\ busy[o].cmd = "read" /\ file # 0
  /\ content' = [content EXCEPT ![file] = @ \cup {busy[o].call}]
  /\ UNCHANGED <<tasks, listening, busy, calls, fd, opened, files, answers>>

\* The native readFile returns, and readFile's second callback.
NativeReadFile(o, error) ==
  LET c == busy[o].call IN
  /\ busy[o].cmd = "read"
  /\ \/ error /\ Emit(o, Stop(Then(o, "readTmp")), Told(c))
     \/ ~error /\ Emit(o, <<Then(o, "readTmp")>>, <<>>)
  /\ opened' = IF ~listening[o] THEN opened
               ELSE IF error THEN KeepOpen(fd[c]) ELSE CloseSync(fd[c])
  /\ UNCHANGED <<listening, calls, fd, files, content>>

\* _readTmpFile and readFile's last callback.  Both remove the file.
ReadTmpFile(o, error) ==
  LET c == busy[o].call IN
  /\ busy[o].cmd = "readTmp"
  /\ Emit(o, <<>>, IF error THEN Told(c)
                   ELSE <<[call |-> c, error |-> FALSE, data |-> content[c]]>>)
  /\ files' = files \ {c}
  /\ UNCHANGED <<listening, calls, fd, opened, content>>

\* The native listDir returns, and readdir's wrapper calls the user.
ListDir(o, error) ==
  /\ busy[o].cmd = "listDir"
  /\ Emit(o, <<>>, <<[call |-> busy[o].call, error |-> error, data |-> {}]>>)
  /\ UNCHANGED <<listening, calls, disk>>

\* The timer of the head fires: nobody listens any more and the callback of the
\* head gets an error and nothing else.  readFile's callbacks hand it on, the
\* last one after it has removed the file; readdir's throws.
Timeout(o) ==
  LET t == busy[o] IN
  /\ listening[o] /\ t # Idle
  /\ listening' = [listening EXCEPT ![o] = FALSE]
  /\ answers' = answers \o (IF t.cmd = "listDir" THEN <<>> ELSE Told(t.call))
  /\ files' = IF t.cmd = "readTmp" THEN files \ {t.call} ELSE files
  /\ opened' = IF t.cmd = "read" THEN KeepOpen(fd[t.call]) ELSE opened
  /\ UNCHANGED <<tasks, busy, calls, fd, content>>

\* What object o has started comes to its end.
Returns(o) ==
  \/ OpenTmpFile(o)
  \/ \E error \in BOOLEAN :
       NativeReadFile(o, error) \/ ReadTmpFile(o, error) \/ ListDir(o, error)

Next ==
  \E o \in Object :
    \/ \E cmd \in {"open", "listDir"} : UserCall(o, cmd)
    \/ Returns(o)
    \/ NativeWrites(o)
    \/ Timeout(o)

Spec == Init /\ [][Next]_vars

\* What was started comes to its end: libssh's calls return, and fs's.
FairSpec == Spec /\ \A o \in Object : WF_vars(Returns(o))

-----------------------------------------------------------------------------
(* Properties.                                                             *)

\* The data that readFile gives to its user are those of its own remote file,
\* though calls overlap, descriptors are used again, and a native readFile that
\* has timed out may still be writing.
OwnData ==
  \A i \in 1..Len(answers) : answers[i].data \subseteq {answers[i].call}

\* No callback is called twice, neither for an error in the middle of readFile
\* nor by an answer that comes after a time-out.
AnsweredOnce ==
  \A i, j \in 1..Len(answers) : answers[i].call = answers[j].call => i = j

\* A temporary file or a descriptor that is left over is that of a readFile that
\* failed, or is still going on, or belongs to an object that has timed out.
LeftByFailures ==
  \A c \in Call :
    c \in files \/ (\E d \in Fd : opened[d] = c)
      => \A i \in 1..Len(answers) : answers[i].call = c => answers[i].error

\* c is behind a time-out, or is a readdir that timed out.
GivenUp(c) ==
  /\ c \in DOMAIN calls /\ ~listening[calls[c]]
  /\ LET head == Head(tasks[calls[c]]) IN head.call # c \/ head.cmd = "listDir"

\* Every call is answered, in the end, also the readFile that times out, but for
\* the calls behind a time-out and a readdir that times out itself.
CallsAnswered ==
  \A c \in Call :
    Len(calls) >= c ~> GivenUp(c) \/ \E i \in 1..Len(answers) : answers[i].call = c
=============================================================================
