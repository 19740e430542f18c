---------------------------- MODULE SftpTransfer ----------------------------
(***************************************************************************)
(* The two operations of the native SFTP object that take several rounds:  *)
(* writeFile and readFile (src/sftp.cc).  Each round is a request of the   *)
(* eio thread pool: the main thread queues it, a worker thread takes it,   *)
(* runs start* or continue* (which block on the network), and the main     *)
(* thread calls cb*, which queues the next round or answers.               *)
(*                                                                         *)
(* One operation is given to the object at a time (TaskQueue shows it).    *)
(* Its timer may fire at any moment: the main thread then stops listening  *)
(* and frees the sessions, whatever the worker is doing.  A libssh call on *)
(* a freed session is undefined behaviour: it returns any result, and the  *)
(* behaviours of Spec may also stop there, which is a crash.               *)
(*                                                                         *)
(* Data are sequences of byte positions; SFTP_BUFFER_SIZE is ChunkSize.    *)
(***************************************************************************)
EXTENDS Integers, Sequences

CONSTANTS
  ChunkSize,     \* SFTP_BUFFER_SIZE
  MaxFile,       \* bound on the length of a file
  MaxTransfers   \* bound on the number of operations

ASSUME ChunkSizeAssumption == ChunkSize \in Nat \ {0}
ASSUME BoundsAssumption == MaxFile \in Nat /\ MaxTransfers \in Nat

VARIABLES
  op,         \* the operation that was given to the object and not answered
  round,      \* the function of the request in flight
  phase,      \* where the request is
  size,       \* m_size: the length of the data to write
  pos,        \* m_pos: how much of them was written
  done,       \* m_done
  error,      \* m_error is not empty
  handle,     \* m_sftp_file
  session,    \* m_ssh_session and m_sftp_session, and the 'callback' listener
  remote,     \* the content of the remote file
  local,      \* the content of the temporary file that readFile fills
  localFailed,\* history: a local write() came short in this operation
  evRefs,     \* ev_ref calls minus ev_unref calls: the loop stays alive if > 0
  outcome,    \* history: the answer of the last operation
  transfers   \* history: how many operations were given

members == <<size, pos, done, error, handle>>
files == <<remote, local, localFailed>>
vars == <<op, round, phase, members, session, files, evRefs, outcome, transfers>>

Op == {"writeFile", "readFile"}
Content(n) == [i \in 1..n |-> i]
NoOutcome == [op |-> "none", error |-> FALSE]
Least(a, b) == IF a < b THEN a ELSE b

TypeOK ==
  /\ op \in Op \cup {"none"}
  /\ round \in {"start", "continue"}
  /\ phase \in {"none", "queued", "running", "returned"}
  /\ size \in 0..MaxFile
  /\ pos \in 0..MaxFile
  /\ done \in BOOLEAN
  /\ error \in BOOLEAN
  /\ handle \in {"none", "open", "closed", "misused"}
  /\ session \in {"live", "freed"}
  /\ remote \in Seq(1..MaxFile)
  /\ local \in Seq(1..MaxFile)
  /\ localFailed \in BOOLEAN
  /\ evRefs \in {0, 1}
  /\ outcome \in [op : Op \cup {"none"}, error : BOOLEAN]
  /\ transfers \in 0..MaxTransfers

Init ==
  /\ op = "none" /\ round = "start" /\ phase = "none"
  /\ size = 0 /\ pos = 0 /\ done = FALSE /\ error = FALSE /\ handle = "none"
  /\ session = "live"
  /\ \E n \in 0..MaxFile : remote = Content(n)
  /\ local = <<>> /\ localFailed = FALSE
  /\ evRefs = 0
  /\ outcome = NoOutcome
  /\ transfers = 0

-----------------------------------------------------------------------------
(* The pieces of the handlers, each preceded by what it would be with a    *)
(* plausible mistake; the mistaken forms are used by no definition.        *)

\* Whether sftp_write's result n for a chunk of k bytes is a failure.
FailedIfNegative(n, k) == n < 0
WriteFailed(n, k) == n # k

\* Whether readFile goes on after a round that read n bytes.
MoreIfNotShort(n) == n = ChunkSize
MoreForever(n) == TRUE
MoreToRead(n) == n > 0

\* m_done after a failed sftp_write.
NotDone == FALSE
DoneAfterError == TRUE

\* ev_unref
NoUnref == evRefs
Unref == evRefs - 1

\* The length of the next chunk to write.
NextChunk == Least(size - pos, ChunkSize)

\* A libssh call that uses m_sftp_file and leaves it in the state h.
UseHandle(h) == handle' = IF handle = "open" THEN h ELSE "misused"

\* eio_custom(fn, ..., cb, pthis)
Queue(fn) == round' = fn /\ phase' = "queued"

Return == phase' = "returned" /\ UNCHANGED <<op, round, session, evRefs, outcome,
                                             transfers>>

\* resetData and the assignments of writeFile and readFile (n bytes to write).
ResetData(n) ==
  /\ size' = n /\ pos' = 0 /\ done' = FALSE /\ error' = FALSE
  /\ handle' = "none"

-----------------------------------------------------------------------------
(* The main thread.                                                        *)

\* sftp.writeFile with n bytes, or sftp.readFile into a fresh temporary file.
Give(o, n) ==
  /\ op = "none" /\ session = "live" /\ transfers < MaxTransfers
  /\ op' = o
  /\ ResetData(n)
  /\ Queue("start")
  /\ evRefs' = evRefs + 1
  /\ local' = <<>> /\ localFailed' = FALSE
  /\ outcome' = NoOutcome
  /\ transfers' = transfers + 1
  /\ UNCHANGED <<session, remote>>

WriteFile(n) == Give("writeFile", n)
ReadFile == Give("readFile", 0)

\* cbWriteFile and cbReadFile, with onDone when there is no round left.  The
\* listener of onDone's event may give the next operation at once; onDone only
\* calls ev_unref after that, so the model takes the two apart.  After a timeout
\* nobody listens.
CbTransfer ==
  /\ phase = "returned"
  /\ \/ /\ done
        /\ op' = "none" /\ phase' = "none"
        /\ outcome' = IF session = "live" THEN [op |-> op, error |-> error]
                                          ELSE NoOutcome
        /\ evRefs' = Unref
        /\ UNCHANGED round
     \/ /\ ~done
        /\ Queue("continue")
        /\ UNCHANGED <<op, outcome, evRefs>>
  /\ UNCHANGED <<members, session, files, transfers>>

\* The timer of the operation fires: removeAllListeners and interrupt().
Interrupt ==
  /\ op # "none" /\ session = "live"
  /\ session' = "freed"
  /\ UNCHANGED <<op, round, phase, members, files, evRefs, outcome, transfers>>

-----------------------------------------------------------------------------
(* A worker thread.                                                        *)

Take ==
  /\ phase = "queued"
  /\ phase' = "running"
  /\ UNCHANGED <<op, round, members, session, files, evRefs, outcome, transfers>>

\* startWriteFile and startReadFile: sftp_open succeeds or fails.  Opening for
\* writing truncates the file, which may have happened if the reply is lost.
StartTransfer ==
  /\ phase = "running" /\ round = "start"
  /\ \/ handle' = "open" /\ UNCHANGED <<done, error>>
     \/ handle' = "none" /\ done' = TRUE /\ error' = TRUE
  /\ \/ op = "writeFile" /\ remote' = <<>>
     \/ (op = "writeFile" => handle' = "none" \/ session = "freed")
        /\ UNCHANGED remote
  /\ Return
  /\ UNCHANGED <<size, pos, local, localFailed>>

\* continueWriteFile: sftp_write stores w bytes of the chunk and returns n (at
\* most as many; -1 is an error), and after the last chunk sftp_close succeeds
\* or fails.
ContinueWriteFile(w, n, closed) ==
  /\ phase = "running" /\ round = "continue" /\ op = "writeFile"
  /\ w <= NextChunk /\ n <= NextChunk
  /\ session = "live" => n <= w
  /\ remote' = remote \o SubSeq(Content(size), pos + 1, pos + w)
  /\ \/ /\ WriteFailed(n, NextChunk)
        /\ error' = TRUE /\ done' = DoneAfterError
        /\ UseHandle("closed")
        /\ UNCHANGED pos
     \/ /\ ~WriteFailed(n, NextChunk)
        /\ pos' = pos + NextChunk
        /\ \/ pos' # size /\ UseHandle("open") /\ UNCHANGED <<done, error>>
           \/ /\ pos' = size
              /\ done' = TRUE
              /\ UseHandle("closed")
              /\ error' = (error \/ ~closed)
  /\ Return
  /\ UNCHANGED <<size, local, localFailed>>

\* continueReadFile when sftp_read fails.
ReadError ==
  /\ phase = "running" /\ round = "continue" /\ op = "readFile"
  /\ error' = TRUE /\ done' = TRUE
  /\ UseHandle("closed")
  /\ Return
  /\ UNCHANGED <<size, pos, files>>

\* continueReadFile when sftp_read returns the next n bytes (0 at the end of
\* the file), of which write() stores l in the temporary file.
ContinueReadFile(n, l, closed) ==
  /\ phase = "running" /\ round = "continue" /\ op = "readFile"
  /\ n <= Least(Len(remote) - Len(local), ChunkSize) /\ l <= n
  /\ session = "live" => (n = 0 <=> Len(local) = Len(remote))
  /\ local' = local \o SubSeq(remote, Len(local) + 1, Len(local) + l)
  /\ localFailed' = (localFailed \/ l # n)
  /\ \/ l # n /\ done' = TRUE /\ UseHandle("closed") /\ UNCHANGED error
     \/ l = n /\ MoreToRead(n) /\ UseHandle("open") /\ UNCHANGED <<done, error>>
     \/ /\ l = n /\ ~MoreToRead(n)
        /\ done' = TRUE
        /\ UseHandle("closed")
        /\ error' = (error \/ ~closed)
  /\ Return
  /\ UNCHANGED <<size, pos, remote>>

Worker ==
  \/ Take
  \/ StartTransfer
  \/ \E w \in 0..ChunkSize, n \in -1..ChunkSize, closed \in BOOLEAN :
       ContinueWriteFile(w, n, closed)
  \/ ReadError
  \/ \E n, l \in 0..ChunkSize, closed \in BOOLEAN : ContinueReadFile(n, l, closed)

Next ==
  \/ \E n \in 0..MaxFile : WriteFile(n)
  \/ ReadFile
  \/ CbTransfer
  \/ Interrupt
  \/ Worker

Spec == Init /\ [][Next]_vars

\* The main loop runs; a libssh call on a live session returns within its
\* SSH_OPTIONS_TIMEOUT.  On a freed session nothing is promised.
FairSpec ==
  /\ Spec
  /\ WF_vars(CbTransfer)
  /\ WF_vars(session = "live" /\ Worker)

-----------------------------------------------------------------------------
(* Properties.                                                             *)

\* A writeFile that reports no error has replaced the remote file by the whole
\* of the data, however sftp_write and sftp_close behaved in between.
WriteWhole ==
  outcome = [op |-> "writeFile", error |-> FALSE] => remote = Content(size)

\* A readFile that reports no error, and none of whose local writes came short,
\* has copied the whole of the remote file.
ReadWhole ==
  outcome = [op |-> "readFile", error |-> FALSE] /\ ~localFailed
    => local = remote

\* sftp_open's handle is never used after sftp_close, never closed twice, and
\* closed on every path before the operation is answered.
HandleDiscipline ==
  /\ handle # "misused"
  /\ op = "none" => handle # "open"

\* The event loop is kept alive exactly while an operation is not answered,
\* also when it was interrupted.
LoopKeptAlive ==
  /\ evRefs = 1 <=> op # "none"
  /\ op # "none" <=> phase # "none"

\* Round by round, writeFile and readFile do what they promise: at any time the
\* copy is a prefix of its source, at an answer without an error it is whole,
\* nothing else is touched, and an interrupted operation is not answered.
Transfer == INSTANCE FileTransfer
ImplementsFileTransfer == Transfer!Spec

\* Every operation is answered unless it is interrupted.
TransferEnds == op # "none" ~> op = "none" \/ session = "freed"

\* The comment of sshBase.h, lines 38-40: the members of the object are not
\* accessed from two threads at the same time.
MembersNotShared ==
  [][session' # session => phase # "running"]_<<session, phase>>
=============================================================================
