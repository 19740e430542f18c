---------------------------- MODULE FileTransfer ----------------------------
(***************************************************************************)
(* What writeFile and readFile of an SFTP object promise to the layer      *)
(* above, with no rounds, chunks or handles: the copy is a prefix of its   *)
(* source at any time, an answer without an error means that it is whole,  *)
(* nothing but the target of the operation is touched, and an operation    *)
(* that was interrupted is not answered.  Of the remote file nothing is    *)
(* promised from then on.                                                  *)
(***************************************************************************)
EXTENDS Integers, Sequences

CONSTANT MaxFile  \* bound on the length of a file

VARIABLES
  op,           \* the operation under way
  size,         \* the length of the data to write
  remote,       \* the remote file
  local,        \* the file that readFile fills
  localFailed,  \* a write to that file came short
  outcome,      \* the answer of the last operation
  session       \* "live" until an operation is interrupted

vars == <<op, size, remote, local, localFailed, outcome, session>>

Content(n) == [i \in 1..n |-> i]
NoOutcome == [op |-> "none", error |-> FALSE]
Prefix(s, t) == \E n \in 0..Len(t) : s = SubSeq(t, 1, n)

Init ==
  /\ op = "none" /\ size = 0 /\ session = "live"
  /\ \E n \in 0..MaxFile : remote = Content(n)
  /\ local = <<>> /\ localFailed = FALSE
  /\ outcome = NoOutcome

Give(o, n) ==
  /\ op = "none" /\ session = "live"
  /\ op' = o /\ size' = n
  /\ local' = <<>> /\ localFailed' = FALSE
  /\ outcome' = NoOutcome
  /\ UNCHANGED <<remote, session>>

\* Some of the data get into the remote file, the first of them by truncating it.
Write ==
  /\ op = "writeFile"
  /\ session = "live" => Prefix(remote', Content(size))
  /\ UNCHANGED <<op, size, local, localFailed, outcome, session>>

\* Some of the remote file gets into the local one.
Read ==
  /\ op = "readFile"
  /\ session = "live" => Prefix(local', remote)
  /\ localFailed => localFailed'
  /\ UNCHANGED <<op, size, remote, outcome, session>>

\* The operation is answered, with or without an error.
Answer(e) ==
  /\ op # "none" /\ session = "live"
  /\ op = "writeFile" /\ ~e => remote = Content(size)
  /\ op = "readFile" /\ ~e /\ ~localFailed => local = remote
  /\ outcome' = [op |-> op, error |-> e]
  /\ op' = "none"
  /\ UNCHANGED <<size, remote, local, localFailed, session>>

Interrupt ==
  /\ op # "none" /\ session = "live"
  /\ session' = "freed"
  /\ UNCHANGED <<op, size, remote, local, localFailed, outcome>>

\* An interrupted operation comes to its end; nobody is told.
LateEnd ==
  /\ op # "none" /\ session = "freed"
  /\ op' = "none"
  /\ UNCHANGED <<size, remote, local, localFailed, outcome, session>>

Next ==
  \/ \E n \in 0..MaxFile : Give("writeFile", n)
  \/ Give("readFile", 0)
  \/ Write
  \/ Read
  \/ \E e \in BOOLEAN : Answer(e)
  \/ Interrupt
  \/ LateEnd

Spec == Init /\ [][Next]_vars
=============================================================================
