------------------------- MODULE SftpTransferProofs -------------------------
(***************************************************************************)
(* Safety of the transfers of sftp.cc, for every chunk size and every      *)
(* bound on the length of a file and on the number of operations.          *)
(***************************************************************************)
EXTENDS SftpTransfer, SequenceTheorems, TLAPS

\* Where a request is in flight, the operation is not answered.
Flight ==
  /\ phase = "none" <=> op = "none"
  /\ evRefs = (IF op = "none" THEN 0 ELSE 1)
  /\ op # "none" => outcome = NoOutcome

\* The state of the handle in each round.
Handles ==
  /\ handle # "misused"
  /\ op = "none" => handle # "open"
  /\ op # "none" /\ round = "start" /\ phase # "returned" =>
       handle = "none" /\ ~done
  /\ op # "none" /\ round = "continue" /\ phase # "returned" =>
       handle = "open" /\ ~done
  /\ phase = "returned" => (handle = "open" <=> ~done)
  /\ op # "none" /\ ~done => ~error /\ ~localFailed

\* How far the copy has come.  Once the sessions are freed, the remote file is
\* anything.
Progress ==
  /\ pos <= size
  /\ Len(local) <= Len(remote) \/ op # "readFile"
  /\ op # "none" /\ round = "start" /\ phase # "returned" =>
       pos = 0 /\ local = <<>>
  /\ op = "writeFile" /\ session = "live" /\ handle = "open" =>
       remote = SubSeq(Content(size), 1, pos)
  /\ op = "writeFile" /\ session = "live" /\ done /\ ~error =>
       remote = Content(size)
  /\ op = "readFile" /\ session = "live" /\ ~localFailed =>
       /\ handle = "open" => local = SubSeq(remote, 1, Len(local))
       /\ done /\ ~error => local = remote

IInv == TypeOK /\ Flight /\ Handles /\ Progress /\ WriteWhole /\ ReadWhole

-----------------------------------------------------------------------------
(* Contents and their pieces.                                              *)

LEMMA ContentType ==
  ASSUME NEW n \in 0..MaxFile
  PROVE  Content(n) \in Seq(1..MaxFile) /\ Len(Content(n)) = n
<1>1. n \in Nat /\ 1..n \subseteq 1..MaxFile
  BY BoundsAssumption
<1>2. Content(n) \in [1..n -> 1..MaxFile]
  BY <1>1 DEF Content
<1>3. Content(n) \in Seq(1..MaxFile)
  BY <1>1, <1>2, SeqDef
<1>4. 1..Len(Content(n)) = 1..n /\ Len(Content(n)) \in Nat
  BY <1>2, <1>3, LenProperties
<1>5. Len(Content(n)) = n
  BY <1>1, <1>4
<1> QED
  BY <1>3, <1>5

\* Copying the next w elements of s extends a copied prefix of length p.
LEMMA ExtendPrefix ==
  ASSUME NEW S, NEW s \in Seq(S), NEW p \in Nat, NEW w \in Nat, p + w <= Len(s)
  PROVE  /\ SubSeq(s, p + 1, p + w) \in Seq(S)
         /\ Len(SubSeq(s, p + 1, p + w)) = w
         /\ SubSeq(s, 1, p) \o SubSeq(s, p + 1, p + w) = SubSeq(s, 1, p + w)
<1>1. \A i \in p + 1..p + w : s[i] \in S
  BY ElementOfSeq
<1>2. /\ SubSeq(s, p + 1, p + w) \in Seq(S)
      /\ Len(SubSeq(s, p + 1, p + w)) = w
  BY <1>1, SubSeqProperties
<1>3. SubSeq(s, 1, p) \o SubSeq(s, p + 1, p + w) = SubSeq(s, 1, p + w)
  <2> DEFINE m == 1
             n == p + w
  <2>1. m \in 1..Len(s) + 1 /\ p \in m - 1..Len(s) /\ n \in p..Len(s)
    BY LenProperties
  <2> HIDE DEF m, n
  <2>2. SubSeq(s, m, p) \o SubSeq(s, p + 1, n) = SubSeq(s, m, n)
    BY <2>1, ConcatAdjacentSubSeq
  <2> QED
    BY <2>2 DEF m, n
<1> QED
  BY <1>2, <1>3

-----------------------------------------------------------------------------
(* The invariant.                                                          *)

LEMMA InitIInv == Init => IInv
<1> SUFFICES ASSUME Init PROVE IInv
  OBVIOUS
<1>1. TypeOK
  <2>1. remote \in Seq(1..MaxFile) /\ local \in Seq(1..MaxFile)
    BY ContentType, EmptySeq DEF Init
  <2>2. outcome \in [op : Op \cup {"none"}, error : BOOLEAN]
    BY DEF Init, NoOutcome
  <2>3. size \in 0..MaxFile /\ pos \in 0..MaxFile /\ transfers \in 0..MaxTransfers
    BY BoundsAssumption DEF Init
  <2>4. /\ op \in Op \cup {"none"} /\ round \in {"start", "continue"}
        /\ phase \in {"none", "queued", "running", "returned"}
        /\ done \in BOOLEAN /\ error \in BOOLEAN /\ localFailed \in BOOLEAN
        /\ handle \in {"none", "open", "closed", "misused"}
        /\ session \in {"live", "freed"} /\ evRefs \in {0, 1}
    BY DEF Init
  <2> QED
    BY <2>1, <2>2, <2>3, <2>4 DEF TypeOK
<1>2. Flight /\ Handles
  BY DEF Init, Flight, Handles
<1>3. Progress
  BY EmptySeq DEF Init, Progress
<1>4. WriteWhole /\ ReadWhole
  BY DEF Init, WriteWhole, ReadWhole, NoOutcome
<1> QED
  BY <1>1, <1>2, <1>3, <1>4 DEF IInv

\* While the operation is not answered, nothing is claimed of its outcome.
LEMMA NotYet ==
  ASSUME outcome' = NoOutcome
  PROVE  WriteWhole' /\ ReadWhole'
BY DEF WriteWhole, ReadWhole, NoOutcome

LEMMA GiveStep ==
  ASSUME IInv, NEW o \in Op, NEW n \in 0..MaxFile, Give(o, n)
  PROVE  IInv'
<1> USE DEF IInv
<1>1. /\ op = "none" /\ session = "live" /\ op' = o /\ round' = "start"
      /\ phase' = "queued" /\ evRefs' = evRefs + 1
      /\ size' = n /\ pos' = 0 /\ done' = FALSE /\ error' = FALSE
      /\ handle' = "none" /\ session' = session /\ remote' = remote
      /\ local' = <<>> /\ localFailed' = FALSE /\ outcome' = NoOutcome
      /\ transfers' = transfers + 1 /\ transfers < MaxTransfers
  BY DEF Give, ResetData, Queue
<1>2. TypeOK'
  <2>1. transfers' \in 0..MaxTransfers /\ pos' \in 0..MaxFile /\ evRefs' = 1
    BY <1>1, BoundsAssumption DEF TypeOK, Flight
  <2>2. local' \in Seq(1..MaxFile) /\ remote' \in Seq(1..MaxFile)
    BY <1>1, EmptySeq DEF TypeOK
  <2>3. outcome' \in [op : Op \cup {"none"}, error : BOOLEAN]
    BY <1>1 DEF NoOutcome
  <2> QED
    BY <1>1, <2>1, <2>2, <2>3 DEF TypeOK, Op
<1>3. Flight' /\ Handles'
  BY <1>1 DEF Flight, Handles, Op
<1>4. Progress'
  <2>1. Len(local') = 0 /\ Len(remote') \in Nat
    BY <1>1, EmptySeq DEF TypeOK
  <2> QED
    BY <1>1, <2>1 DEF Progress
<1> QED
  BY <1>1, <1>2, <1>3, <1>4, NotYet

LEMMA CbTransferStep ==
  ASSUME IInv, CbTransfer
  PROVE  IInv'
<1> USE DEF IInv
<1>1. /\ phase = "returned" /\ op # "none" /\ evRefs = 1
      /\ UNCHANGED <<size, pos, done, error, handle, session, remote, local,
                     localFailed, transfers>>
  BY DEF CbTransfer, Flight, members, files
<1>2. CASE done
  <2>1. /\ op' = "none" /\ phase' = "none" /\ evRefs' = 0 /\ round' = round
        /\ outcome' = IF session = "live" THEN [op |-> op, error |-> error]
                                          ELSE NoOutcome
    BY <1>1, <1>2 DEF CbTransfer, Unref
  <2>2. TypeOK'
    <3>1. outcome' \in [op : Op \cup {"none"}, error : BOOLEAN]
      BY <2>1 DEF NoOutcome, TypeOK
    <3> QED
      BY <1>1, <2>1, <3>1 DEF TypeOK
  <2>3. Flight' /\ Handles'
    BY <1>1, <1>2, <2>1 DEF Flight, Handles
  <2>4. Progress'
    BY <1>1, <1>2, <2>1 DEF Progress, Handles
  <2>5. WriteWhole'
    BY <1>1, <1>2, <2>1 DEF WriteWhole, Progress, NoOutcome
  <2>6. ReadWhole'
    BY <1>1, <1>2, <2>1 DEF ReadWhole, Progress, NoOutcome
  <2> QED
    BY <2>2, <2>3, <2>4, <2>5, <2>6
<1>3. CASE ~done
  <2>1. /\ round' = "continue" /\ phase' = "queued"
        /\ UNCHANGED <<op, outcome, evRefs>>
    BY <1>3 DEF CbTransfer, Queue
  <2>2. TypeOK' /\ Flight' /\ Handles'
    BY <1>1, <1>3, <2>1 DEF TypeOK, Flight, Handles
  <2>3. Progress'
    BY <1>1, <1>3, <2>1 DEF Progress
  <2> QED
    BY <1>1, <2>1, <2>2, <2>3, NotYet DEF Flight
<1> QED
  BY <1>2, <1>3

\* A step of the timer or of a worker that only moves the request along.
LEMMA MoveStep ==
  ASSUME IInv, Interrupt \/ Take \/ UNCHANGED vars
  PROVE  IInv'
<1> USE DEF IInv
<1>1. /\ UNCHANGED <<op, round, size, pos, done, error, handle, remote, local,
                     localFailed, evRefs, outcome, transfers>>
      /\ \/ op # "none" /\ session' = "freed" /\ phase' = phase
         \/ phase = "queued" /\ phase' = "running" /\ session' = session
         \/ phase' = phase /\ session' = session
  BY DEF Interrupt, Take, vars, members, files
<1>2. TypeOK' /\ Flight' /\ Handles'
  BY <1>1 DEF TypeOK, Flight, Handles
<1>3. Progress'
  BY <1>1 DEF Progress
<1>4. WriteWhole' /\ ReadWhole'
  BY <1>1 DEF WriteWhole, ReadWhole
<1> QED
  BY <1>2, <1>3, <1>4

LEMMA StartTransferStep ==
  ASSUME IInv, StartTransfer
  PROVE  IInv'
<1> USE DEF IInv
<1>1. /\ phase = "running" /\ round = "start" /\ phase' = "returned"
      /\ op # "none" /\ handle = "none" /\ ~done /\ ~error /\ ~localFailed
      /\ pos = 0 /\ local = <<>>
      /\ UNCHANGED <<op, round, size, pos, session, local, localFailed, evRefs,
                     outcome, transfers>>
  BY DEF StartTransfer, Return, Flight, Handles, Progress
<1>2. \/ handle' = "open" /\ done' = done /\ error' = error
      \/ handle' = "none" /\ done' = TRUE /\ error' = TRUE
  BY DEF StartTransfer
<1>3. /\ remote' = remote \/ (remote' = <<>> /\ op = "writeFile")
      /\ op = "writeFile" /\ handle' = "open" /\ session = "live" =>
           remote' = <<>>
  BY DEF StartTransfer
<1>4. TypeOK'
  <2>1. remote' \in Seq(1..MaxFile)
    BY <1>3, EmptySeq DEF TypeOK
  <2> QED
    BY <1>1, <1>2, <2>1 DEF TypeOK
<1>5. Flight' /\ Handles'
  BY <1>1, <1>2 DEF Flight, Handles
<1>6. Progress'
  <2>1. SubSeq(Content(size), 1, 0) = <<>> /\ SubSeq(remote, 1, 0) = <<>>
    BY SubSeqEmpty
  <2>2. Len(local) = 0 /\ Len(remote) \in Nat
    BY <1>1, EmptySeq DEF TypeOK
  <2>3. pos' <= size' /\ (Len(local') <= Len(remote') \/ op' # "readFile")
    BY <1>1, <1>3, <2>2 DEF Progress
  <2>4. op' = "writeFile" /\ session' = "live" /\ handle' = "open" =>
          remote' = SubSeq(Content(size'), 1, pos')
    BY <1>1, <1>3, <2>1
  <2>5. op' = "readFile" /\ handle' = "open" => local' = SubSeq(remote', 1, Len(local'))
    BY <1>1, <1>3, <2>1, <2>2
  <2> QED
    BY <1>1, <1>2, <2>3, <2>4, <2>5 DEF Progress
<1> QED
  BY <1>1, <1>4, <1>5, <1>6, NotYet DEF Flight

\* A round of a write extends the prefix that is in the remote file.
LEMMA ChunkWritten ==
  ASSUME IInv, NEW w \in 0..ChunkSize, NEW n \in -1..ChunkSize,
         NEW closed \in BOOLEAN, ContinueWriteFile(w, n, closed)
  PROVE  /\ phase = "running" /\ round = "continue" /\ phase' = "returned"
         /\ op = "writeFile" /\ handle = "open" /\ ~done /\ ~error /\ ~localFailed
         /\ UNCHANGED <<op, round, size, session, local, localFailed, evRefs,
                        outcome, transfers>>
         /\ size \in 0..MaxFile /\ pos \in 0..size /\ MaxFile \in Nat
         /\ w \in Nat /\ NextChunk \in Nat /\ pos + NextChunk <= size
         /\ w <= NextChunk
         /\ pos + w <= size
         /\ remote' \in Seq(1..MaxFile)
         /\ session = "live" => remote' = SubSeq(Content(size), 1, pos + w)
<1> USE DEF IInv
<1>1. /\ phase = "running" /\ round = "continue" /\ phase' = "returned"
      /\ op = "writeFile" /\ handle = "open" /\ ~done /\ ~error /\ ~localFailed
      /\ UNCHANGED <<op, round, size, session, local, localFailed, evRefs,
                     outcome, transfers>>
  BY DEF ContinueWriteFile, Return, Flight, Handles
<1>2. /\ size \in 0..MaxFile /\ pos \in 0..size /\ MaxFile \in Nat
      /\ w \in Nat /\ NextChunk \in Nat /\ pos + NextChunk <= size
      /\ w <= NextChunk
      /\ pos + w <= size
  BY ChunkSizeAssumption, BoundsAssumption
  DEF TypeOK, Progress, NextChunk, Least, ContinueWriteFile
<1>3. Content(size) \in Seq(1..MaxFile) /\ Len(Content(size)) = size
  BY <1>2, ContentType
<1>4. /\ SubSeq(Content(size), pos + 1, pos + w) \in Seq(1..MaxFile)
      /\ SubSeq(Content(size), 1, pos) \o SubSeq(Content(size), pos + 1, pos + w)
           = SubSeq(Content(size), 1, pos + w)
  BY <1>2, <1>3, ExtendPrefix
<1>5. remote' = remote \o SubSeq(Content(size), pos + 1, pos + w)
  BY DEF ContinueWriteFile
<1>6. remote' \in Seq(1..MaxFile)
  BY <1>4, <1>5, ConcatProperties DEF TypeOK
<1>7. session = "live" => remote' = SubSeq(Content(size), 1, pos + w)
  BY <1>1, <1>4, <1>5 DEF Progress
<1> QED
  BY <1>1, <1>2, <1>6, <1>7

LEMMA ContinueWriteFileStep ==
  ASSUME IInv, NEW w \in 0..ChunkSize, NEW n \in -1..ChunkSize,
         NEW closed \in BOOLEAN, ContinueWriteFile(w, n, closed)
  PROVE  IInv'
<1> USE DEF IInv
<1>1. /\ phase = "running" /\ round = "continue" /\ phase' = "returned"
      /\ op = "writeFile" /\ handle = "open" /\ ~done /\ ~error /\ ~localFailed
      /\ UNCHANGED <<op, round, size, session, local, localFailed, evRefs,
                     outcome, transfers>>
  BY ChunkWritten
<1>2. /\ size \in 0..MaxFile /\ pos \in 0..size /\ MaxFile \in Nat
      /\ w \in Nat /\ NextChunk \in Nat /\ pos + NextChunk <= size
      /\ w <= NextChunk
      /\ pos + w <= size
  BY ChunkWritten
<1>3. Content(size) \in Seq(1..MaxFile) /\ Len(Content(size)) = size
  BY <1>2, ContentType
<1>6. remote' \in Seq(1..MaxFile)
  BY ChunkWritten
<1>7. session = "live" => remote' = SubSeq(Content(size), 1, pos + w)
  BY ChunkWritten
<1>8. CASE WriteFailed(n, NextChunk)
  <2>1. error' = TRUE /\ done' = TRUE /\ handle' = "closed" /\ pos' = pos
    BY <1>1, <1>8 DEF ContinueWriteFile, DoneAfterError, UseHandle
  <2>2. TypeOK' /\ Flight' /\ Handles'
    BY <1>1, <1>6, <2>1 DEF TypeOK, Flight, Handles
  <2>3. Progress'
    BY <1>1, <1>2, <2>1 DEF Progress
  <2> QED
    BY <1>1, <2>2, <2>3, NotYet DEF Flight
<1>9. CASE ~WriteFailed(n, NextChunk)
  <2>1. n = NextChunk /\ pos' = pos + NextChunk
    BY <1>9 DEF ContinueWriteFile, WriteFailed
  <2>2. session = "live" => w = NextChunk
    BY <1>1, <1>2, <2>1 DEF ContinueWriteFile
  <2>3. \/ pos' # size /\ handle' = "open" /\ done' = done /\ error' = error
        \/ /\ pos' = size /\ handle' = "closed" /\ done' = TRUE
           /\ error' = ~closed
    BY <1>1, <1>9 DEF ContinueWriteFile, UseHandle
  <2>4. pos' \in 0..size' /\ pos' \in 0..MaxFile
    BY <1>1, <1>2, <2>1
  <2>5. session = "live" => remote' = SubSeq(Content(size), 1, pos')
    BY <1>7, <2>1, <2>2
  <2>6. pos' = size => SubSeq(Content(size), 1, pos') = Content(size)
    BY <1>3, SubSeqFull
  <2>7. TypeOK'
    BY <1>1, <1>6, <2>3, <2>4 DEF TypeOK
  <2>8. Flight' /\ Handles'
    BY <1>1, <2>3 DEF Flight, Handles
  <2>9. Progress'
    BY <1>1, <2>3, <2>4, <2>5, <2>6 DEF Progress
  <2> QED
    BY <1>1, <2>7, <2>8, <2>9, NotYet DEF Flight
<1> QED
  BY <1>8, <1>9

LEMMA ReadErrorStep ==
  ASSUME IInv, ReadError
  PROVE  IInv'
<1> USE DEF IInv
<1>1. /\ phase = "running" /\ round = "continue" /\ phase' = "returned"
      /\ op = "readFile" /\ handle = "open" /\ handle' = "closed"
      /\ done' = TRUE /\ error' = TRUE
      /\ UNCHANGED <<op, round, size, pos, session, remote, local, localFailed,
                     evRefs, outcome, transfers>>
  BY DEF ReadError, Return, Flight, Handles, UseHandle, files
<1>2. TypeOK' /\ Flight' /\ Handles' /\ Progress'
  BY <1>1 DEF TypeOK, Flight, Handles, Progress
<1> QED
  BY <1>1, <1>2, NotYet DEF Flight

\* A round of a read extends the prefix that was copied.
LEMMA ChunkRead ==
  ASSUME IInv, NEW n \in 0..ChunkSize, NEW l \in 0..ChunkSize,
         NEW closed \in BOOLEAN, ContinueReadFile(n, l, closed)
  PROVE  /\ phase = "running" /\ round = "continue" /\ phase' = "returned"
         /\ op = "readFile" /\ handle = "open" /\ ~done /\ ~error /\ ~localFailed
         /\ UNCHANGED <<op, round, size, pos, session, remote, evRefs, outcome,
                        transfers>>
         /\ Len(local) \in Nat /\ Len(remote) \in Nat /\ l \in Nat /\ n \in Nat
         /\ l <= n /\ Len(local) + n <= Len(remote) /\ Len(local) + l <= Len(remote)
         /\ remote \in Seq(1..MaxFile) /\ local \in Seq(1..MaxFile)
         /\ local' \in Seq(1..MaxFile) /\ Len(local') = Len(local) + l
         /\ session = "live" => local' = SubSeq(remote, 1, Len(local'))
<1> USE DEF IInv
<1>1. /\ phase = "running" /\ round = "continue" /\ phase' = "returned"
      /\ op = "readFile" /\ handle = "open" /\ ~done /\ ~error /\ ~localFailed
      /\ UNCHANGED <<op, round, size, pos, session, remote, evRefs, outcome,
                     transfers>>
  BY DEF ContinueReadFile, Return, Flight, Handles
<1>2. /\ Len(local) \in Nat /\ Len(remote) \in Nat /\ l \in Nat /\ n \in Nat
      /\ l <= n /\ Len(local) + n <= Len(remote) /\ Len(local) + l <= Len(remote)
      /\ remote \in Seq(1..MaxFile) /\ local \in Seq(1..MaxFile)
  <2>1. /\ remote \in Seq(1..MaxFile) /\ local \in Seq(1..MaxFile)
        /\ l \in Nat /\ n \in Nat
    BY ChunkSizeAssumption DEF TypeOK
  <2>2. Len(local) \in Nat /\ Len(remote) \in Nat
    BY <2>1, LenProperties
  <2>3. n <= Least(Len(remote) - Len(local), ChunkSize) /\ l <= n
    BY DEF ContinueReadFile
  <2>4. n <= Len(remote) - Len(local)
    BY <2>1, <2>2, <2>3, ChunkSizeAssumption DEF Least
  <2> QED
    BY <2>1, <2>2, <2>3, <2>4
<1> DEFINE piece == SubSeq(remote, Len(local) + 1, Len(local) + l)
<1>4. /\ piece \in Seq(1..MaxFile) /\ Len(piece) = l
      /\ SubSeq(remote, 1, Len(local)) \o piece
           = SubSeq(remote, 1, Len(local) + l)
  <2> DEFINE p == Len(local)
  <2>1. p \in Nat /\ p + l <= Len(remote) /\ l \in Nat /\ remote \in Seq(1..MaxFile)
    BY <1>2
  <2> HIDE DEF p
  <2>2. /\ SubSeq(remote, p + 1, p + l) \in Seq(1..MaxFile)
        /\ Len(SubSeq(remote, p + 1, p + l)) = l
        /\ SubSeq(remote, 1, p) \o SubSeq(remote, p + 1, p + l)
             = SubSeq(remote, 1, p + l)
    BY ONLY <2>1, ExtendPrefix
  <2> QED
    BY <2>2 DEF p
<1>5. local' = local \o piece
  BY DEF ContinueReadFile
<1> HIDE DEF piece
<1>6. local' \in Seq(1..MaxFile) /\ Len(local') = Len(local) + l
  BY <1>2, <1>4, <1>5, ConcatProperties
<1>7. session = "live" => local' = SubSeq(remote, 1, Len(local'))
  BY <1>1, <1>4, <1>5, <1>6 DEF Progress
<1> QED
  BY <1>1, <1>2, <1>6, <1>7

LEMMA ContinueReadFileStep ==
  ASSUME IInv, NEW n \in 0..ChunkSize, NEW l \in 0..ChunkSize,
         NEW closed \in BOOLEAN, ContinueReadFile(n, l, closed)
  PROVE  IInv'
<1> USE DEF IInv
<1>1. /\ phase = "running" /\ round = "continue" /\ phase' = "returned"
      /\ op = "readFile" /\ handle = "open" /\ ~done /\ ~error /\ ~localFailed
      /\ UNCHANGED <<op, round, size, pos, session, remote, evRefs, outcome,
                     transfers>>
  BY ChunkRead
<1>2. /\ Len(local) \in Nat /\ Len(remote) \in Nat /\ l \in Nat /\ n \in Nat
      /\ l <= n /\ Len(local) + n <= Len(remote) /\ Len(local) + l <= Len(remote)
      /\ remote \in Seq(1..MaxFile) /\ local \in Seq(1..MaxFile)
  BY ChunkRead
<1>6. local' \in Seq(1..MaxFile) /\ Len(local') = Len(local) + l
  BY ChunkRead
<1>7. session = "live" => local' = SubSeq(remote, 1, Len(local'))
  BY ChunkRead
<1>8. localFailed' \in BOOLEAN /\ (localFailed' <=> l # n)
  BY <1>1 DEF ContinueReadFile
<1>9. \/ l # n /\ done' = TRUE /\ handle' = "closed" /\ error' = error
      \/ l = n /\ n > 0 /\ handle' = "open" /\ done' = done /\ error' = error
      \/ l = n /\ ~(n > 0) /\ done' = TRUE /\ handle' = "closed"
           /\ error' \in BOOLEAN
  BY <1>1 DEF ContinueReadFile, MoreToRead, UseHandle
<1>10. session = "live" /\ ~(n > 0) /\ l = n => local' = remote
  <2> SUFFICES ASSUME session = "live", ~(n > 0), l = n PROVE local' = remote
    OBVIOUS
  <2>1. n = 0
    BY <1>2
  <2>2. n = 0 <=> Len(local) = Len(remote)
    BY DEF ContinueReadFile
  <2>3. Len(local') = Len(remote)
    BY <1>2, <1>6, <2>1, <2>2
  <2> QED
    BY <1>2, <1>7, <2>3, SubSeqFull
<1>11. TypeOK'
  BY <1>1, <1>6, <1>8, <1>9 DEF TypeOK
<1>12. Flight' /\ Handles'
  BY <1>1, <1>8, <1>9 DEF Flight, Handles
<1>13. Progress'
  <2>1. pos' <= size' /\ Len(local') <= Len(remote')
    BY <1>1, <1>2, <1>6 DEF Progress
  <2> QED
    BY <1>1, <1>7, <1>8, <1>9, <1>10, <2>1 DEF Progress
<1> QED
  BY <1>1, <1>11, <1>12, <1>13, NotYet DEF Flight

LEMMA NextIInv == IInv /\ [Next]_vars => IInv'
<1> SUFFICES ASSUME IInv, [Next]_vars PROVE IInv'
  OBVIOUS
<1>1. ASSUME NEW n \in 0..MaxFile, WriteFile(n) PROVE IInv'
  BY <1>1, GiveStep DEF WriteFile, Op
<1>2. CASE ReadFile
  BY <1>2, GiveStep, BoundsAssumption DEF ReadFile, Op
<1>3. CASE CbTransfer
  BY <1>3, CbTransferStep
<1>4. CASE Interrupt \/ Take \/ UNCHANGED vars
  BY <1>4, MoveStep
<1>5. CASE StartTransfer
  BY <1>5, StartTransferStep
<1>6. ASSUME NEW w \in 0..ChunkSize, NEW n \in -1..ChunkSize,
             NEW closed \in BOOLEAN, ContinueWriteFile(w, n, closed)
      PROVE  IInv'
  BY <1>6, ContinueWriteFileStep
<1>7. CASE ReadError
  BY <1>7, ReadErrorStep
<1>8. ASSUME NEW n \in 0..ChunkSize, NEW l \in 0..ChunkSize,
             NEW closed \in BOOLEAN, ContinueReadFile(n, l, closed)
      PROVE  IInv'
  BY <1>8, ContinueReadFileStep
<1> QED
  BY <1>1, <1>2, <1>3, <1>4, <1>5, <1>6, <1>7, <1>8 DEF Next, Worker

LEMMA Invariance == Spec => []IInv
<1> QED
  BY InitIInv, NextIInv, PTL DEF Spec

\* The members of the SFTP object and the two files keep their shape; m_pos
\* never runs past m_size.
THEOREM TypeCorrect == Spec => []TypeOK
<1>1. IInv => TypeOK
  BY DEF IInv
<1> QED
  BY <1>1, Invariance, PTL

\* For every chunk size: a writeFile that reports no error has written the
\* whole of the data, over any sequence of rounds.
THEOREM WritesWhole == Spec => []WriteWhole
<1>1. IInv => WriteWhole
  BY DEF IInv
<1> QED
  BY <1>1, Invariance, PTL

\* For every chunk size: a readFile that reports no error has copied the whole
\* of the remote file, unless a write to the temporary file came short.
THEOREM ReadsWhole == Spec => []ReadWhole
<1>1. IInv => ReadWhole
  BY DEF IInv
<1> QED
  BY <1>1, Invariance, PTL

\* The handle of sftp_open is used only while it is open and is closed before
\* the operation is answered, on every path, interrupted or not.
THEOREM HandlesClosed == Spec => []HandleDiscipline
<1>1. IInv => HandleDiscipline
  BY DEF IInv, Handles, HandleDiscipline
<1> QED
  BY <1>1, Invariance, PTL

\* The event loop is kept alive exactly while an operation is not answered.
THEOREM LoopAlive == Spec => []LoopKeptAlive
<1>1. IInv => LoopKeptAlive
  BY DEF IInv, Flight, LoopKeptAlive
<1> QED
  BY <1>1, Invariance, PTL

-----------------------------------------------------------------------------
(* What the transfers promise.                                             *)

LEMMA SameContent == \A n : Transfer!Content(n) = Content(n)
BY DEF Transfer!Content, Content

\* A worker writes into the remote file, or the round changes neither file.
LEMMA WriteRefines ==
  ASSUME IInv, op = "writeFile",
         UNCHANGED <<op, size, local, localFailed, outcome, session>>,
         \/ remote' = remote
         \/ session # "live"
         \/ \E m \in 0..size : remote' = SubSeq(Content(size), 1, m)
  PROVE  Transfer!Write \/ UNCHANGED Transfer!vars
<1>1. CASE remote' = remote
  BY <1>1 DEF Transfer!vars
<1>2. CASE session # "live"
  BY <1>2 DEF Transfer!Write
<1>3. ASSUME NEW m \in 0..size, remote' = SubSeq(Content(size), 1, m)
      PROVE  Transfer!Write
  <2>1. Len(Transfer!Content(size)) = size
    BY ContentType, SameContent DEF IInv, TypeOK
  <2>2. Transfer!Prefix(remote', Transfer!Content(size))
    BY <1>3, <2>1, SameContent DEF Transfer!Prefix
  <2> QED
    BY <2>2 DEF Transfer!Write
<1> QED
  BY <1>1, <1>2, <1>3

LEMMA StartTransferRefines ==
  ASSUME IInv, StartTransfer
  PROVE  Transfer!Write \/ UNCHANGED Transfer!vars
<1>1. UNCHANGED <<op, size, local, localFailed, outcome, session>>
  BY DEF StartTransfer, Return
<1>2. CASE remote' = remote
  BY <1>1, <1>2 DEF Transfer!vars
<1>3. CASE op = "writeFile" /\ remote' = <<>>
  <2>1. 0 \in 0..size /\ remote' = SubSeq(Content(size), 1, 0)
    BY <1>3, SubSeqEmpty, BoundsAssumption DEF IInv, TypeOK
  <2> QED
    BY <1>1, <1>3, <2>1, WriteRefines
<1> QED
  BY <1>2, <1>3 DEF StartTransfer

LEMMA ContinueWriteFileRefines ==
  ASSUME IInv, NEW w \in 0..ChunkSize, NEW n \in -1..ChunkSize,
         NEW closed \in BOOLEAN, ContinueWriteFile(w, n, closed)
  PROVE  Transfer!Write \/ UNCHANGED Transfer!vars
<1>1. /\ op = "writeFile"
      /\ UNCHANGED <<op, size, local, localFailed, outcome, session>>
      /\ session = "live" => remote' = SubSeq(Content(size), 1, pos + w)
  BY ChunkWritten
<1>2. pos + w \in 0..size
  <2>1. pos \in 0..size /\ w \in Nat /\ pos + w <= size /\ size \in 0..MaxFile
    BY ChunkWritten
  <2> QED
    BY <2>1
<1> QED
  BY <1>1, <1>2, WriteRefines

LEMMA ContinueReadFileRefines ==
  ASSUME IInv, NEW n \in 0..ChunkSize, NEW l \in 0..ChunkSize,
         NEW closed \in BOOLEAN, ContinueReadFile(n, l, closed)
  PROVE  Transfer!Read
<1>1. /\ op = "readFile" /\ ~localFailed
      /\ UNCHANGED <<op, size, remote, outcome, session>>
      /\ session = "live" => local' = SubSeq(remote, 1, Len(local'))
  BY ChunkRead
<1>2. Len(local') \in 0..Len(remote)
  <2>1. /\ Len(local) \in Nat /\ Len(remote) \in Nat /\ l \in Nat
        /\ Len(local') = Len(local) + l /\ Len(local) + l <= Len(remote)
    BY ChunkRead
  <2> QED
    BY <2>1
<1> QED
  BY <1>1, <1>2 DEF Transfer!Read, Transfer!Prefix

\* An operation is answered only when it is done, and then its copy is whole.
LEMMA CbTransferRefines ==
  ASSUME IInv, CbTransfer
  PROVE  (\E e \in BOOLEAN : Transfer!Answer(e)) \/ Transfer!LateEnd \/ UNCHANGED Transfer!vars
<1>1. phase = "returned" /\ op # "none" /\ outcome = NoOutcome
      /\ UNCHANGED <<size, remote, local, localFailed, session>>
      /\ error \in BOOLEAN /\ op \in Op /\ session \in {"live", "freed"}
  BY DEF CbTransfer, IInv, Flight, TypeOK, members, files
<1>2. CASE ~done
  BY <1>1, <1>2 DEF CbTransfer, Transfer!vars
<1>3. CASE done /\ session = "live"
  <2>1. op' = "none" /\ outcome' = [op |-> op, error |-> error]
    BY <1>3 DEF CbTransfer
  <2>2. op = "writeFile" /\ ~error => remote = Transfer!Content(size)
    BY <1>3, SameContent DEF IInv, Progress
  <2>3. op = "readFile" /\ ~error /\ ~localFailed => local = remote
    BY <1>3 DEF IInv, Progress
  <2>4. Transfer!Answer(error)
    BY <1>1, <1>3, <2>1, <2>2, <2>3 DEF Transfer!Answer
  <2> QED
    BY <1>1, <2>4
<1>4. CASE done /\ session = "freed"
  BY <1>1, <1>4 DEF CbTransfer, Transfer!LateEnd
<1> QED
  BY <1>1, <1>2, <1>3, <1>4

\* For every chunk size and every file, the rounds of writeFile and readFile do
\* what is promised: a copy is a prefix of its source until it is whole, an answer
\* without an error comes only then, reading does not touch the remote file nor
\* writing the local one, and after interrupt() nothing is answered.
THEOREM TransfersKeepPromise == Spec => ImplementsFileTransfer
<1>1. Init => Transfer!Init
  BY SameContent DEF Init, Transfer!Init, NoOutcome, Transfer!NoOutcome
<1>2. IInv /\ [Next]_vars => [Transfer!Next]_Transfer!vars
  <2> SUFFICES ASSUME IInv, [Next]_vars
               PROVE  Transfer!Next \/ UNCHANGED Transfer!vars
    BY DEF Transfer!vars
  <2>1. ASSUME NEW n \in 0..MaxFile, WriteFile(n)
        PROVE  Transfer!Next
    BY <2>1 DEF WriteFile, Give, ResetData, NoOutcome, Transfer!NoOutcome, Transfer!Give, Transfer!Next
  <2>2. CASE ReadFile
    BY <2>2 DEF ReadFile, Give, ResetData, NoOutcome, Transfer!NoOutcome, Transfer!Give, Transfer!Next
  <2>3. CASE CbTransfer
    BY <2>3, CbTransferRefines DEF Transfer!Next
  <2>4. CASE Interrupt
    BY <2>4 DEF Interrupt, members, files, Transfer!Interrupt, Transfer!Next
  <2>5. CASE Take \/ ReadError \/ UNCHANGED vars
    BY <2>5 DEF Take, ReadError, Return, members, files, vars, Transfer!vars
  <2>6. CASE StartTransfer
    BY <2>6, StartTransferRefines DEF Transfer!Next
  <2>7. ASSUME NEW w \in 0..ChunkSize, NEW n \in -1..ChunkSize,
               NEW closed \in BOOLEAN, ContinueWriteFile(w, n, closed)
        PROVE  Transfer!Next \/ UNCHANGED Transfer!vars
    BY <2>7, ContinueWriteFileRefines DEF Transfer!Next
  <2>8. ASSUME NEW n \in 0..ChunkSize, NEW l \in 0..ChunkSize,
               NEW closed \in BOOLEAN, ContinueReadFile(n, l, closed)
        PROVE  Transfer!Next
    BY <2>8, ContinueReadFileRefines DEF Transfer!Next
  <2> QED
    BY <2>1, <2>2, <2>3, <2>4, <2>5, <2>6, <2>7, <2>8 DEF Next, Worker
<1> QED
  BY <1>1, <1>2, Invariance, PTL DEF Spec, ImplementsFileTransfer, Transfer!Spec
=============================================================================
