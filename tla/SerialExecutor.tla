--------------------------- MODULE SerialExecutor ---------------------------
(***************************************************************************)
(* What the JavaScript layer of node-ssh promises to its users and to the  *)
(* native objects: commands are executed one at a time, in the order they  *)
(* were queued; each is settled at most once; after a timeout the executor *)
(* is closed and nothing is started any more.                              *)
(*                                                                         *)
(* The promise is written down in src/src/sshBase.h, lines 36-40: the      *)
(* JavaScript layer makes sure that no new task is called while the        *)
(* previous one is not done.                                               *)
(*                                                                         *)
(* TaskQueue keeps the promise with the user's callbacks in between, and   *)
(* time-outs.  SftpSpawn keeps it with the polling rounds behind the queue *)
(* and no time-outs, the end of a spawn starting the next in the same step.*)
(***************************************************************************)
EXTENDS Naturals, Sequences

VARIABLES
  submitted,  \* number of commands accepted so far; they are 1..submitted
  busy,       \* the command being executed, 0 if none
  settled,    \* the outcomes delivered, in order: [id, how]
  open        \* FALSE once a command has timed out

vars == <<submitted, busy, settled, open>>

Outcome(c, h) == [id |-> c, how |-> h]

Init ==
  /\ submitted = 0
  /\ busy = 0
  /\ settled = <<>>
  /\ open = TRUE

\* With n commands accepted and k settled, an idle executor may start the next.
MayStart(n, k) ==
  \/ busy' = 0
  \/ open /\ k < n /\ busy' = k + 1

Submit ==
  /\ submitted' = submitted + 1
  /\ \/ busy' = busy
     \/ busy = 0 /\ MayStart(submitted', Len(settled))
  /\ UNCHANGED <<settled, open>>

Start ==
  /\ busy = 0
  /\ MayStart(submitted, Len(settled))
  /\ UNCHANGED <<submitted, settled, open>>

\* The result of the running command is delivered; the next may be started at
\* once.
Answer ==
  /\ open /\ busy # 0
  /\ settled' = Append(settled, Outcome(busy, "done"))
  /\ MayStart(submitted, Len(settled'))
  /\ UNCHANGED <<submitted, open>>

\* The running command is given up; it may still occupy the native object.
TimeOut ==
  /\ open /\ busy # 0
  /\ settled' = Append(settled, Outcome(busy, "timedOut"))
  /\ open' = FALSE
  /\ UNCHANGED <<submitted, busy>>

\* The native object finishes a command that was given up; nobody is told.
LateAnswer ==
  /\ ~open /\ busy # 0
  /\ busy' = 0
  /\ UNCHANGED <<submitted, settled, open>>

Next == Submit \/ Start \/ Answer \/ TimeOut \/ LateAnswer

Spec == Init /\ [][Next]_vars
=============================================================================
