--------------------------- MODULE SftpSpawnProofs ---------------------------
(***************************************************************************)
(* Safety of the polling loop of spawn, for any number of children and any *)
(* amount of output: what holds whatever the timer adds, and what holds as *)
(* long as each request has run when the one before it was done.           *)
(***************************************************************************)
EXTENDS SftpSpawn, SequenceTheorems, TLAPS

(* The invariant of the behaviours in which each request has run when the  *)
(* one before it was done.  Any number of rounds may wait in the queue.    *)

\* Where the request of startSpawn is; there is one at most.
start == CASE starts["queued"] # 0 -> "queued"
           [] starts["running"] # 0 -> "running"
           [] starts["returned"] # 0 -> "returned"
           [] OTHER -> "none"

StartAt(p) == [g \in Stage |-> IF g = p THEN 1 ELSE 0]

NoRoundTaken == rounds["running"] = 0 /\ rounds["returned"] = 0

ChildrenOK ==
  /\ called \in 0..MaxChildren /\ cur \in 0..called /\ channel \in {0, cur}
  /\ evRefs = IF cur = 0 THEN 0 ELSE 1

ExitsOK ==
  /\ exits \in Seq([child : Child, error : BOOLEAN])
  /\ Len(exits) = IF cur = 0 THEN called ELSE cur - 1
  /\ ExitsInOrder

MembersOK ==
  /\ out \in Chunk \cup {Wrapped} /\ err \in Chunk \cup {Wrapped, Stale}
  /\ done \in BOOLEAN /\ killed \in BOOLEAN /\ error \in BOOLEAN /\ timer \in BOOLEAN
  /\ \E p \in Stage \cup {"none"} : starts = StartAt(p)
  /\ rounds \in [Stage -> Nat]
  /\ frame \in {"none", "cb"} /\ discipline = "kept"

OutputOK ==
  /\ produced \in [Child -> PerStream(Chunk)]
  /\ consumed \in [Child -> PerStream(Chunk)]
  /\ \A c \in Child, s \in Stream : consumed[c][s] <= produced[c][s]
  /\ eof \subseteq Child /\ pollFailed \subseteq Child /\ readFailed \subseteq Child
  /\ shown \in [0..MaxChildren -> PerStream(Seq(Int))]

\* Where the one request of the spawn is that was taken.
Polling ==
  /\ cur = 0 => start = "none" /\ NoRoundTaken /\ ~timer /\ frame = "none"
  /\ frame = "cb" => start = "none" /\ NoRoundTaken
  /\ start # "none" => ~timer /\ NoRoundTaken
  /\ rounds["running"] + rounds["returned"] <= 1
  /\ timer \/ ~NoRoundTaken => channel = cur
  /\ start \in {"queued", "running"} => channel = 0
  /\ start = "returned" \/ frame = "cb" => done \/ channel = cur

\* On stream s everything was emitted that was read, but for the last n chunks.
Behind(s, n) ==
  /\ Len(shown[cur][s]) + n = consumed[cur][s]
  /\ \A i \in 1..Len(shown[cur][s]) : shown[cur][s][i] = i

\* The chunk that a round has read is still to be emitted.
Pending(s, chunk) ==
  IF chunk = 0 THEN Behind(s, 0) ELSE chunk = consumed[cur][s] /\ Behind(s, 1)

NothingRead(c) == \A s \in Stream : consumed[c][s] = 0
NothingShown(c) == \A s \in Stream : shown[c][s] = <<>>

\* How far the output of the child is that is executed.
Showing ==
  /\ start # "none" => NothingRead(cur) /\ NothingShown(cur)
  /\ start # "none" => out = 0 /\ (err = 0 \/ (err = Stale /\ (start = "returned" => done /\ channel = 0)))
  /\ cur # 0 /\ cur \notin readFailed =>
       /\ start = "none" /\ frame = "none" /\ rounds["returned"] = 0
            => Behind("out", 0) /\ Behind("err", 0)
       /\ rounds["returned"] # 0 => Pending("out", out) /\ Pending("err", err)
       /\ frame = "cb" =>
            \/ Behind("out", 0) /\ Pending("err", err)
            \/ /\ err = Stale /\ done /\ channel = 0
               /\ NothingRead(cur) /\ NothingShown(cur)

\* When a spawn is done because its command ended, everything was read.
ReadToTheEnd ==
  /\ \A c \in Child : c > Begun => c \notin eof
  /\ start \in {"queued", "running"} => ~done /\ cur \notin eof
  /\ cur # 0 /\ done /\ ~killed /\ cur \notin pollFailed \cup readFailed =>
       IF channel = 0 THEN cur \notin eof
       ELSE cur \in eof /\ \A s \in Stream : consumed[cur][s] = produced[cur][s]

Fresh == \A c \in Child : c > Begun => NothingRead(c) /\ NothingShown(c)

\* The property of OutputInOrder, for one child.
InOrder(c) ==
  c \notin readFailed => \A s \in Stream :
    \/ /\ Len(shown[c][s]) <= consumed[c][s]
       /\ \A i \in 1..Len(shown[c][s]) : shown[c][s][i] = i
    \/ s = "err" /\ consumed[c]["out"] = 0 /\ shown[c][s] = <<Stale>>

Finished == \A c \in Child : c # cur => InOrder(c)

IInv ==
  /\ ChildrenOK /\ ExitsOK /\ MembersOK /\ OutputOK
  /\ Polling
  /\ Showing
  /\ ReadToTheEnd
  /\ Fresh /\ Finished

-----------------------------------------------------------------------------

LEMMA InitIInv == Init => IInv
<1> SUFFICES ASSUME Init PROVE IInv
  OBVIOUS
<1> USE BoundsAssumption DEF Init
<1>1. ChildrenOK
  BY DEF ChildrenOK
<1>2. ExitsOK
  BY EmptySeq DEF ExitsOK, ExitsInOrder
<1>3. MembersOK
  <2>1. 0 \in Chunk /\ rounds \in [Stage -> Nat]
    BY DEF Chunk
  <2>2. err \in Chunk \cup {Wrapped, Stale}
    BY <2>1
  <2>3. starts = StartAt("none")
    BY DEF StartAt, Stage
  <2> QED
    BY <2>1, <2>2, <2>3 DEF MembersOK
<1>4. OutputOK
  <2>1. shown \in [0..MaxChildren -> PerStream(Seq(Int))]
    BY EmptySeq DEF PerStream
  <2>2. produced \in [Child -> PerStream(Chunk)] /\ consumed = produced
    BY DEF PerStream, Chunk
  <2>3. \A c \in Child, s \in Stream : consumed[c][s] <= produced[c][s]
    BY <2>2
  <2> QED
    BY <2>1, <2>2, <2>3 DEF OutputOK
<1>5. start = "none" /\ NoRoundTaken
  BY DEF start, NoRoundTaken, Stage
<1>11. Polling
  BY <1>5 DEF Polling, NoRoundTaken
<1>6. Showing
  BY <1>5 DEF Showing
<1>7. ASSUME NEW c \in Child PROVE NothingRead(c) /\ NothingShown(c)
  BY DEF NothingRead, NothingShown, Child
<1>8. Fresh
  BY <1>7 DEF Fresh
<1>9. Finished
  <2> SUFFICES ASSUME NEW c \in Child, NEW s \in Stream
               PROVE  /\ Len(shown[c][s]) <= consumed[c][s]
                      /\ \A i \in 1..Len(shown[c][s]) : shown[c][s][i] = i
    BY DEF Finished, InOrder
  <2>1. shown[c][s] = <<>> /\ consumed[c][s] = 0
    BY <1>7 DEF NothingRead, NothingShown
  <2> QED
    BY <2>1
<1>10. ReadToTheEnd
  BY <1>5 DEF ReadToTheEnd
<1> QED
  BY <1>1, <1>2, <1>3, <1>4, <1>6, <1>8, <1>9, <1>10, <1>11 DEF IInv

LEMMA StartIs ==
  ASSUME NEW p \in Stage \cup {"none"}, starts = StartAt(p)
  PROVE  start = p
BY DEF StartAt, Stage, start

LEMMA StartOnce ==
  ASSUME IInv
  PROVE  start \in Stage \cup {"none"} /\ starts = StartAt(start)
BY StartIs DEF IInv, MembersOK

\* How the request of startSpawn moves from stage to stage.
LEMMA StartMoves ==
  /\ [StartAt("none") EXCEPT !["queued"] = @ + 1] = StartAt("queued")
  /\ [StartAt("queued") EXCEPT !["queued"] = @ - 1, !["running"] = @ + 1] = StartAt("running")
  /\ [StartAt("running") EXCEPT !["running"] = @ - 1, !["returned"] = @ + 1] = StartAt("returned")
  /\ [StartAt("returned") EXCEPT !["returned"] = @ - 1] = StartAt("none")
<1>1. ASSUME NEW f \in [Stage -> Int], NEW g \in [Stage -> Int], \A x \in Stage : f[x] = g[x]
      PROVE  f = g
  BY <1>1
<1>2. ASSUME NEW p PROVE StartAt(p) \in [Stage -> Int] /\ \A x \in Stage : StartAt(p)[x] = IF x = p THEN 1 ELSE 0
  BY DEF StartAt
<1>3. ASSUME NEW p, NEW q \in Stage, p # q
      PROVE  /\ p \in Stage => [StartAt(p) EXCEPT ![p] = @ - 1, ![q] = @ + 1] = StartAt(q)
             /\ p \notin Stage => [StartAt(p) EXCEPT ![q] = @ + 1] = StartAt(q)
             /\ [StartAt(q) EXCEPT ![q] = @ - 1] = StartAt("none")
  <2>1. ASSUME p \in Stage
        PROVE  [StartAt(p) EXCEPT ![p] = @ - 1, ![q] = @ + 1] = StartAt(q)
    <3> DEFINE h == [StartAt(p) EXCEPT ![p] = @ - 1, ![q] = @ + 1]
    <3>1. h \in [Stage -> Int] /\ \A x \in Stage : h[x] = StartAt(q)[x]
      BY <1>2, <1>3, <2>1
    <3> QED
      BY <1>1, <1>2, <3>1
  <2>2. ASSUME p \notin Stage
        PROVE  [StartAt(p) EXCEPT ![q] = @ + 1] = StartAt(q)
    <3> DEFINE h == [StartAt(p) EXCEPT ![q] = @ + 1]
    <3>1. h \in [Stage -> Int] /\ \A x \in Stage : h[x] = StartAt(q)[x]
      BY <1>2, <1>3, <2>2
    <3> QED
      BY <1>1, <1>2, <3>1
  <2>3. [StartAt(q) EXCEPT ![q] = @ - 1] = StartAt("none")
    <3> DEFINE h == [StartAt(q) EXCEPT ![q] = @ - 1]
    <3>1. h \in [Stage -> Int] /\ \A x \in Stage : h[x] = StartAt("none")[x]
      BY <1>2 DEF Stage
    <3> QED
      BY <1>1, <1>2, <3>1
  <2> QED
    BY <2>1, <2>2, <2>3
<1> QED
  BY <1>3 DEF Stage

\* One request at most was taken, and none while cbSpawn is on the stack.
LEMMA OneRequest ==
  ASSUME IInv
  PROVE  /\ rounds["queued"] \in Nat /\ rounds["running"] \in {0, 1} /\ rounds["returned"] \in {0, 1}
         /\ start # "none" => NoRoundTaken /\ frame = "none" /\ cur # 0
         /\ rounds["running"] # 0 \/ rounds["returned"] # 0 =>
              /\ rounds["running"] + rounds["returned"] = 1
              /\ start = "none" /\ frame = "none" /\ cur # 0 /\ channel = cur
BY DEF IInv, MembersOK, Polling, NoRoundTaken, Stage

\* What is left alone when the output of no child changes.
LEMMA SameOutput ==
  ASSUME IInv, NEW c \in Child,
         UNCHANGED <<consumed, shown, readFailed>>
  PROVE  /\ NothingRead(c)' <=> NothingRead(c)
         /\ NothingShown(c)' <=> NothingShown(c)
         /\ InOrder(c)' <=> InOrder(c)
BY DEF NothingRead, NothingShown, InOrder

\* What is left alone when neither the channel nor its child does anything.
LEMMA SameEnd ==
  ASSUME IInv, UNCHANGED <<called, cur, done, channel, produced, eof, consumed,
                           pollFailed, readFailed>>,
         ~killed' => ~killed,
         start' \in {"queued", "running"} => start \in {"queued", "running"}
  PROVE  ReadToTheEnd'
BY DEF IInv, ReadToTheEnd, Begun

\* The output of the child that is executed is in order at any time.
LEMMA CurrentInOrder ==
  ASSUME IInv, cur # 0
  PROVE  InOrder(cur)
<1>1. cur \in Child /\ cur \in 0..MaxChildren
  BY BoundsAssumption DEF IInv, ChildrenOK, Child
<1>2. \A s \in Stream : consumed[cur][s] \in Nat
  <2>1. consumed[cur] \in [Stream -> Chunk]
    BY <1>1 DEF IInv, OutputOK, PerStream
  <2> QED
    BY <2>1 DEF Chunk
<1>3. \A s \in Stream : shown[cur][s] \in Seq(Int)
  <2>1. shown[cur] \in [Stream -> Seq(Int)]
    BY <1>1 DEF IInv, OutputOK, PerStream
  <2> QED
    BY <2>1
<1> SUFFICES ASSUME cur \notin readFailed, NEW s \in Stream
             PROVE  /\ Len(shown[cur][s]) <= consumed[cur][s]
                    /\ \A i \in 1..Len(shown[cur][s]) : shown[cur][s][i] = i
  BY DEF InOrder
<1>4. CASE NothingRead(cur) /\ NothingShown(cur)
  BY <1>4 DEF NothingRead, NothingShown
<1>5. CASE Behind(s, 0) \/ Behind(s, 1)
  BY <1>2, <1>3, <1>5 DEF Behind
<1>6. \/ start # "none" \/ frame = "cb" \/ rounds["returned"] # 0
      \/ (start = "none" /\ frame = "none" /\ rounds["returned"] = 0)
  BY DEF IInv, MembersOK
<1>7. \/ NothingRead(cur) /\ NothingShown(cur)
      \/ Behind("out", 0) /\ (Behind("err", 0) \/ Behind("err", 1))
      \/ Behind("out", 1) /\ (Behind("err", 0) \/ Behind("err", 1))
  BY <1>6 DEF IInv, Showing, Pending
<1> QED
  BY <1>4, <1>5, <1>7 DEF Stream

-----------------------------------------------------------------------------

LEMMA KillStep ==
  ASSUME IInv, Kill
  PROVE  IInv'
<1> USE DEF Kill, js, requests, remote, history
<1>1. ChildrenOK' /\ ExitsOK'
  BY DEF IInv, ChildrenOK, ExitsOK, ExitsInOrder
<1>2. MembersOK' /\ OutputOK'
  BY DEF IInv, MembersOK, OutputOK
<1>7. start' = start
  BY DEF start
<1>3. Polling'
  BY <1>7 DEF IInv, Polling, NoRoundTaken
<1>4. Showing'
  BY <1>7 DEF IInv, Showing, Behind, Pending, NothingRead, NothingShown
<1>5. Fresh' /\ Finished'
  BY DEF IInv, Fresh, Finished, Begun, NothingRead, NothingShown, InOrder
<1>6. ReadToTheEnd'
  BY <1>7, SameEnd
<1> QED
  BY <1>1, <1>2, <1>3, <1>4, <1>5, <1>6 DEF IInv

\* Room for a chunk is room on its stream.
LEMMA RoomOnStream ==
  ASSUME NEW n, n \in [Child -> [Stream -> 0..MaxOutput]], NEW c \in Child, NEW s \in Stream,
         n[c]["out"] + n[c]["err"] < MaxOutput
  PROVE  n[c][s] < MaxOutput
BY BoundsAssumption DEF Stream

\* The remote command does something: nothing of the object changes.
LEMMA RemoteStep ==
  ASSUME IInv, (\E s \in Stream : Arrives(s)) \/ EofArrives
  PROVE  IInv'
<1>1. UNCHANGED <<js, members, requests, consumed, history>>
  BY DEF Arrives, EofArrives
<1> USE <1>1 DEF js, members, requests, history
<1>2. ChildrenOK' /\ ExitsOK'
  BY DEF IInv, ChildrenOK, ExitsOK, ExitsInOrder
<1>3. OutputOK'
  <2>1. CASE EofArrives
    BY <2>1 DEF EofArrives, IInv, OutputOK
  <2>2. ASSUME NEW s \in Stream, Arrives(s) PROVE OutputOK'
    <3>2. /\ produced \in [Child -> [Stream -> 0..MaxOutput]]
          /\ consumed \in [Child -> [Stream -> 0..MaxOutput]]
          /\ \A c \in Child, t \in Stream : consumed[c][t] <= produced[c][t]
      BY DEF IInv, OutputOK, PerStream, Chunk
    <3>1. /\ channel \in Child /\ produced[channel][s] < MaxOutput
          /\ produced' = [produced EXCEPT ![channel][s] = @ + 1]
          /\ UNCHANGED eof
      BY <2>2, <3>2, RoomOnStream DEF Arrives
    <3>3. produced' \in [Child -> [Stream -> 0..MaxOutput]]
      BY <3>1, <3>2, BoundsAssumption
    <3>4. \A c \in Child, t \in Stream : produced[c][t] <= produced'[c][t]
      BY <3>1, <3>2, BoundsAssumption
    <3>5. \A c \in Child, t \in Stream : consumed[c][t] <= produced'[c][t]
      BY <3>2, <3>3, <3>4, BoundsAssumption
    <3> QED
      BY <3>1, <3>3, <3>5 DEF IInv, OutputOK, PerStream, Chunk
  <2> QED
    BY <2>1, <2>2
<1>8. start' = start
  BY DEF start
<1>4. MembersOK' /\ Polling'
  BY <1>8 DEF IInv, MembersOK, Polling, NoRoundTaken
<1>5. Showing'
  BY <1>8 DEF IInv, Showing, Behind, Pending, NothingRead, NothingShown
<1>6. Fresh' /\ Finished'
  BY DEF IInv, Fresh, Finished, Begun, NothingRead, NothingShown, InOrder
<1>7. ReadToTheEnd'
  <2>1. /\ channel \in Child \ eof /\ channel = cur /\ cur # 0
        /\ start \notin {"queued", "running"} /\ cur <= Begun
        /\ eof' \subseteq eof \cup {cur}
        /\ UNCHANGED Begun
    BY DEF Arrives, EofArrives, IInv, ChildrenOK, Polling, Begun, Child
  <2>2. ~(done /\ ~killed /\ cur \notin pollFailed \cup readFailed)
    BY <2>1 DEF IInv, ReadToTheEnd
  <2>3. cur \in Int /\ Begun \in Int
    BY DEF IInv, ChildrenOK, Begun
  <2>4. \A c \in Child : c > Begun' => c \notin eof'
    BY <2>1, <2>3 DEF IInv, ReadToTheEnd, Child
  <2>5. start' \notin {"queued", "running"} /\ UNCHANGED <<cur, done, killed, pollFailed, readFailed>>
    BY <1>8, <2>1
  <2> QED
    BY <2>2, <2>4, <2>5 DEF ReadToTheEnd
<1> QED
  BY <1>2, <1>3, <1>4, <1>5, <1>6, <1>7 DEF IInv

\* Another round waits: nothing else changes.
LEMMA TimerSpawnStep ==
  ASSUME IInv, TimerSpawn
  PROVE  IInv'
<1>1. /\ rounds' = [rounds EXCEPT !["queued"] = @ + 1]
      /\ UNCHANGED <<js, members, starts, frame, remote, consumed, history>>
  BY DEF TimerSpawn
<1>2. /\ rounds' \in [Stage -> Nat]
      /\ rounds'["running"] = rounds["running"] /\ rounds'["returned"] = rounds["returned"]
  <2>1. rounds \in [Stage -> Nat] /\ Stage = {"queued", "running", "returned"}
    BY DEF IInv, MembersOK, Stage
  <2> QED
    BY <1>1, <2>1
<1>3. start' = start
  BY <1>1 DEF start
<1> USE <1>1 DEF js, members, remote, history
<1>5. ChildrenOK' /\ ExitsOK' /\ OutputOK'
  BY DEF IInv, ChildrenOK, ExitsOK, ExitsInOrder, OutputOK
<1>6. MembersOK'
  BY <1>2 DEF IInv, MembersOK
<1>7. Polling'
  BY <1>2, <1>3 DEF IInv, Polling, NoRoundTaken
<1>8. Showing'
  BY <1>2, <1>3 DEF IInv, Showing, Behind, Pending, NothingRead, NothingShown
<1>9. Fresh' /\ Finished'
  BY DEF IInv, Fresh, Finished, Begun, NothingRead, NothingShown, InOrder
<1>10. ReadToTheEnd'
  BY <1>3, SameEnd
<1> QED
  BY <1>5, <1>6, <1>7, <1>8, <1>9, <1>10 DEF IInv

\* A request is taken when nothing else is under way.
LEMMA TakeStep ==
  ASSUME IInv, Take, discipline' = "kept"
  PROVE  IInv'
<1>1. /\ ~Occupied /\ (rounds' # rounds => channel # 0)
      /\ UNCHANGED <<js, members, frame, remote, consumed, shown, seen, pollFailed, readFailed,
                     discipline>>
  <2>1. ~(Requests("running") > 0 \/ (rounds' # rounds /\ channel = 0))
    BY DEF Take
  <2>2. discipline = "kept"
    BY DEF IInv, MembersOK
  <2>3. ~Occupied
    BY <2>1, <2>2 DEF Take
  <2> QED
    BY <2>1, <2>2, <2>3 DEF Take
<1>2. rounds \in [Stage -> Nat] /\ Stage = {"queued", "running", "returned"}
  BY DEF IInv, MembersOK, Stage
<1>3. frame = "none" /\ start \notin {"running", "returned"} /\ NoRoundTaken
  <2>1. starts = StartAt(start) /\ start \in Stage \cup {"none"}
    BY StartOnce
  <2>2. starts["running"] \in Nat /\ starts["returned"] \in Nat
    BY <1>2, <2>1 DEF StartAt
  <2>3. /\ starts["running"] = 0 /\ starts["returned"] = 0
        /\ rounds["running"] = 0 /\ rounds["returned"] = 0 /\ frame # "cb"
    BY <1>1, <1>2, <2>2 DEF Occupied, Requests
  <2> QED
    BY <1>2, <2>1, <2>3 DEF StartAt, NoRoundTaken, IInv, MembersOK
<1>4. \/ /\ start = "queued" /\ start' = "running" /\ starts' = StartAt("running")
         /\ rounds' = rounds
      \/ /\ start = "none" /\ start' = "none" /\ starts' = starts
         /\ rounds' \in [Stage -> Nat] /\ rounds'["running"] = 1 /\ rounds'["returned"] = 0
         /\ channel = cur /\ cur # 0
  <2>1. CASE starts["queued"] > 0 /\ rounds' = rounds
             /\ starts' = [starts EXCEPT !["queued"] = @ - 1, !["running"] = @ + 1]
    <3>1. start = "queued" /\ starts = StartAt("queued")
      BY <1>2, <2>1, StartOnce DEF StartAt
    <3>2. starts' = StartAt("running")
      BY <2>1, <3>1, StartMoves
    <3>3. start' = "running"
      BY <1>2, <3>2 DEF start, StartAt
    <3> QED
      BY <2>1, <3>1, <3>2, <3>3
  <2>2. CASE rounds["queued"] > 0 /\ starts' = starts
             /\ rounds' = [rounds EXCEPT !["queued"] = @ - 1, !["running"] = @ + 1]
    <3>1. rounds' \in [Stage -> Nat] /\ rounds'["running"] = 1 /\ rounds'["returned"] = 0
      BY <1>2, <1>3, <2>2 DEF NoRoundTaken
    <3>2. channel # 0
      BY <1>1, <1>3, <3>1 DEF NoRoundTaken
    <3>3. channel = cur /\ cur # 0
      BY <3>2 DEF IInv, ChildrenOK
    <3>4. start = "none"
      BY <1>2, <1>3, <3>2, StartOnce DEF IInv, Polling
    <3>5. start' = start
      BY <2>2 DEF start
    <3> QED
      BY <2>2, <3>1, <3>3, <3>4, <3>5
  <2> QED
    BY <2>1, <2>2 DEF Take
<1> USE <1>1 DEF js, members, remote
<1>5. ChildrenOK' /\ ExitsOK' /\ OutputOK'
  BY DEF IInv, ChildrenOK, ExitsOK, ExitsInOrder, OutputOK
<1>6. MembersOK'
  <2>1. rounds' \in [Stage -> Nat] /\ \E p \in Stage \cup {"none"} : starts' = StartAt(p)
    BY <1>2, <1>4, StartOnce
  <2> QED
    BY <2>1 DEF IInv, MembersOK, StartAt
<1>7. Polling'
  BY <1>3, <1>4 DEF IInv, Polling, NoRoundTaken
<1>8. Showing'
  BY <1>3, <1>4 DEF IInv, Showing, Behind, Pending, NothingRead, NothingShown, NoRoundTaken
<1>9. Fresh' /\ Finished'
  BY DEF IInv, Fresh, Finished, Begun, NothingRead, NothingShown, InOrder
<1>10. ReadToTheEnd'
  BY <1>4, SameEnd
<1> QED
  BY <1>5, <1>6, <1>7, <1>8, <1>9, <1>10 DEF IInv

LEMMA StartSpawnStep ==
  ASSUME IInv, StartSpawn
  PROVE  IInv'
<1> USE DEF StartSpawn, js, remote, history
<1>0. Stage = {"queued", "running", "returned"}
  BY DEF Stage
<1>1. /\ start = "running" /\ start' = "returned" /\ starts' = StartAt("returned")
      /\ frame = "none" /\ cur # 0 /\ NoRoundTaken /\ ~timer
  <2>1. start = "running" /\ starts = StartAt("running")
    BY <1>0, StartOnce DEF StartAt
  <2>2. starts' = StartAt("returned")
    BY <2>1, StartMoves
  <2>3. start' = "returned"
    BY <1>0, <2>2 DEF start, StartAt
  <2> QED
    BY <2>1, <2>2, <2>3, OneRequest DEF IInv, Polling
<1>2. Begun = cur
  BY <1>1 DEF Begun
<1>3. ChildrenOK' /\ ExitsOK' /\ OutputOK'
  BY <1>2 DEF IInv, ChildrenOK, ExitsOK, ExitsInOrder, OutputOK
<1>4. MembersOK'
  <2>1. 0 \in Chunk
    BY BoundsAssumption DEF Chunk
  <2>2. done' \in BOOLEAN /\ error' \in BOOLEAN /\ killed' \in BOOLEAN /\ timer' \in BOOLEAN
    BY DEF IInv, MembersOK
  <2>3. out' \in Chunk \cup {Wrapped} /\ err' \in Chunk \cup {Wrapped, Stale}
    BY <2>1 DEF IInv, MembersOK
  <2>4. \E p \in Stage \cup {"none"} : starts' = StartAt(p)
    BY <1>0, <1>1
  <2> QED
    BY <2>2, <2>3, <2>4 DEF IInv, MembersOK, StartAt
<1>5. Polling'
  BY <1>1, <1>2 DEF IInv, Polling, NoRoundTaken
<1>6. Showing'
  BY <1>1 DEF IInv, Showing, Behind, Pending, NothingRead, NothingShown, NoRoundTaken
<1>7. Fresh' /\ Finished'
  BY DEF IInv, Fresh, Finished, Begun, NothingRead, NothingShown, InOrder
<1>8. ReadToTheEnd'
  <2>1. CASE channel' = cur /\ UNCHANGED done
    <3>1. channel = 0 /\ cur \in Child
      BY <1>1, BoundsAssumption DEF IInv, Polling, ChildrenOK, Child
    <3>2. cur \notin eof
      BY <1>1 DEF IInv, ReadToTheEnd
    <3>3. ~done
      BY <1>1 DEF IInv, ReadToTheEnd
    <3> QED
      BY <1>1, <2>1, <3>2, <3>3 DEF IInv, ReadToTheEnd, Begun
  <2>2. CASE channel' = 0
    <3>1. cur \notin eof
      BY <1>1 DEF IInv, ReadToTheEnd
    <3> QED
      BY <1>1, <2>2, <3>1 DEF IInv, ReadToTheEnd, Begun
  <2> QED
    BY <1>2, <2>1, <2>2
<1> QED
  BY <1>3, <1>4, <1>5, <1>6, <1>7, <1>8 DEF IInv

\* The chunk that comes next in a stream is emitted.
LEMMA AppendNext ==
  ASSUME NEW q \in Seq(Int), \A i \in 1..Len(q) : q[i] = i,
         NEW n \in Nat, Len(q) + 1 = n
  PROVE  /\ Append(q, n) \in Seq(Int) /\ Len(Append(q, n)) = n
         /\ \A i \in 1..Len(Append(q, n)) : Append(q, n)[i] = i
<1>1. /\ Append(q, n) \in Seq(Int) /\ Len(Append(q, n)) = Len(q) + 1
      /\ Append(q, n)[Len(q) + 1] = n
      /\ \A i \in 1..Len(q) : Append(q, n)[i] = q[i]
  BY AppendProperties
<1> QED
  BY <1>1

\* What emitting chunk on stream s makes of the output of child cur.
LEMMA ShowChunk ==
  ASSUME IInv, cur # 0, NEW s \in Stream, NEW chunk \in Int,
         shown' = Show(shown, s, chunk)
  PROVE  /\ cur \in Child /\ cur \in 0..MaxChildren
         /\ shown' \in [0..MaxChildren -> PerStream(Seq(Int))]
         /\ \A c \in 0..MaxChildren : c # cur => shown'[c] = shown[c]
         /\ \A t \in Stream : t # s => shown'[cur][t] = shown[cur][t]
         /\ shown'[cur][s] = IF chunk = 0 THEN shown[cur][s] ELSE Append(shown[cur][s], chunk)
<1>1. cur \in Child /\ cur \in 0..MaxChildren
  BY BoundsAssumption DEF IInv, ChildrenOK, Child
<1>2. shown \in [0..MaxChildren -> [Stream -> Seq(Int)]]
  BY DEF IInv, OutputOK, PerStream
<1>3. CASE chunk = 0
  BY <1>1, <1>2, <1>3 DEF Show, PerStream
<1>4. CASE chunk # 0
  <2>1. shown' = [shown EXCEPT ![cur] = [shown[cur] EXCEPT ![s] = Append(shown[cur][s], chunk)]]
    BY <1>4 DEF Show, IInv, MembersOK
  <2>2. shown[cur] \in [Stream -> Seq(Int)]
    BY <1>1, <1>2
  <2>3. Append(shown[cur][s], chunk) \in Seq(Int)
    BY <2>2, AppendProperties
  <2>4. [shown[cur] EXCEPT ![s] = Append(shown[cur][s], chunk)] \in [Stream -> Seq(Int)]
    BY <2>2, <2>3
  <2>5. shown' \in [0..MaxChildren -> [Stream -> Seq(Int)]]
    BY <1>1, <1>2, <2>1, <2>4
  <2>6. shown'[cur] = [shown[cur] EXCEPT ![s] = Append(shown[cur][s], chunk)]
    BY <1>1, <1>2, <2>1
  <2>7. \A c \in 0..MaxChildren : c # cur => shown'[c] = shown[c]
    BY <1>1, <1>2, <2>1
  <2> QED
    BY <1>1, <1>4, <2>2, <2>5, <2>6, <2>7 DEF PerStream
<1> QED
  BY <1>3, <1>4

\* A pending chunk is emitted: nothing is pending any more.
LEMMA ShowPending ==
  ASSUME IInv, cur # 0, NEW s \in Stream, NEW chunk \in Int, Pending(s, chunk),
         shown' = Show(shown, s, chunk), UNCHANGED <<cur, consumed>>
  PROVE  Behind(s, 0)'
<1>1. /\ cur \in Child /\ cur \in 0..MaxChildren
      /\ shown'[cur][s] = IF chunk = 0 THEN shown[cur][s] ELSE Append(shown[cur][s], chunk)
  BY ShowChunk
<1>2. consumed[cur][s] \in Nat /\ shown[cur][s] \in Seq(Int)
  <2>1. consumed[cur] \in [Stream -> Chunk] /\ shown[cur] \in [Stream -> Seq(Int)]
    BY <1>1 DEF IInv, OutputOK, PerStream
  <2> QED
    BY <2>1 DEF Chunk
<1>3. CASE chunk = 0
  BY <1>1, <1>3 DEF Pending, Behind
<1>4. CASE chunk # 0
  <2>1. /\ chunk = consumed[cur][s] /\ Len(shown[cur][s]) + 1 = chunk
        /\ \A i \in 1..Len(shown[cur][s]) : shown[cur][s][i] = i
    BY <1>4 DEF Pending, Behind
  <2>2. /\ Len(shown'[cur][s]) = chunk
        /\ \A i \in 1..Len(shown'[cur][s]) : shown'[cur][s][i] = i
    BY <1>1, <1>2, <1>4, <2>1, AppendNext
  <2> QED
    BY <1>2, <2>1, <2>2 DEF Behind
<1> QED
  BY <1>3, <1>4

\* The other children keep their output while one is executed.
LEMMA OthersKept ==
  ASSUME IInv, cur # 0,
         UNCHANGED <<cur, called>>,
         \A c \in Child : c # cur =>
           shown'[c] = shown[c] /\ consumed'[c] = consumed[c]
           /\ (c \in readFailed' <=> c \in readFailed)
  PROVE  Fresh' /\ Finished'
<1>1. cur \in Int
  BY DEF IInv, ChildrenOK
<1>2. Fresh'
  BY <1>1 DEF IInv, Fresh, Begun, NothingRead, NothingShown, Child
<1>3. Finished'
  BY DEF IInv, Finished, InOrder
<1> QED
  BY <1>2, <1>3

LEMMA CbSpawnBeginsStep ==
  ASSUME IInv, CbSpawnBegins
  PROVE  IInv'
<1>1. /\ frame = "none" /\ out # Wrapped /\ frame' = "cb"
      /\ shown' = Show(shown, "out", out)
      /\ UNCHANGED <<called, cur, exits, evRefs, out, err, done, killed, error, channel, timer,
                     produced, eof, consumed, pollFailed, readFailed, discipline>>
  BY DEF CbSpawnBegins, js, members, remote
<1>12. rounds \in [Stage -> Nat] /\ Stage = {"queued", "running", "returned"}
  BY DEF IInv, MembersOK, Stage
<1>2. /\ start = "returned" \/ rounds["returned"] # 0
      /\ start' = "none" /\ starts' = StartAt("none") /\ cur # 0
      /\ rounds' \in [Stage -> Nat] /\ rounds'["running"] = 0 /\ rounds'["returned"] = 0
  <2>1. CASE starts["returned"] > 0 /\ rounds' = rounds
             /\ starts' = [starts EXCEPT !["returned"] = @ - 1]
    <3>1. start = "returned" /\ starts = StartAt("returned")
      BY <1>12, <2>1, StartOnce DEF StartAt
    <3>2. starts' = StartAt("none")
      BY <2>1, <3>1, StartMoves
    <3>3. start' = "none"
      BY <1>12, <3>2 DEF start, StartAt
    <3> QED
      BY <1>12, <2>1, <3>1, <3>2, <3>3, OneRequest DEF NoRoundTaken
  <2>2. CASE rounds["returned"] > 0 /\ starts' = starts
             /\ rounds' = [rounds EXCEPT !["returned"] = @ - 1]
    <3>1. start = "none" /\ cur # 0 /\ rounds["returned"] = 1 /\ rounds["running"] = 0
      BY <1>12, <2>2, OneRequest
    <3>2. rounds' \in [Stage -> Nat] /\ rounds'["running"] = 0 /\ rounds'["returned"] = 0
      BY <1>12, <2>2, <3>1
    <3>3. start' = start /\ starts = StartAt("none")
      BY <2>2, <3>1, StartOnce DEF start
    <3> QED
      BY <2>2, <3>1, <3>2, <3>3
  <2> QED
    BY <2>1, <2>2 DEF CbSpawnBegins
<1>3. cur # 0 /\ NoRoundTaken'
  BY <1>2 DEF NoRoundTaken
<1>4. out \in Int /\ err \in Int /\ "out" \in Stream /\ "err" \in Stream
  BY DEF IInv, MembersOK, Chunk, Wrapped, Stale, Stream
<1>5. /\ cur \in Child /\ cur \in 0..MaxChildren
      /\ shown' \in [0..MaxChildren -> PerStream(Seq(Int))]
      /\ \A c \in 0..MaxChildren : c # cur => shown'[c] = shown[c]
      /\ shown'[cur]["err"] = shown[cur]["err"]
  BY <1>1, <1>3, <1>4, ShowChunk
<1>6. ChildrenOK' /\ ExitsOK' /\ OutputOK'
  BY <1>1, <1>5 DEF IInv, ChildrenOK, ExitsOK, ExitsInOrder, OutputOK
<1>7. MembersOK'
  BY <1>1, <1>2 DEF IInv, MembersOK, StartAt
<1>8. Polling'
  <2>1. done' \/ channel' = cur'
    BY <1>1, <1>2, OneRequest DEF IInv, Polling
  <2>2. timer' => channel' = cur'
    BY <1>1 DEF IInv, Polling
  <2> QED
    BY <1>1, <1>2, <1>3, <2>1, <2>2 DEF Polling
<1>9. Showing'
  <2> SUFFICES ASSUME cur \notin readFailed
               PROVE  \/ Behind("out", 0)' /\ Pending("err", err)'
                      \/ err = Stale /\ done /\ channel = 0 /\ NothingRead(cur)' /\ NothingShown(cur)'
    BY <1>1, <1>2 DEF Showing
  <2>1. CASE start = "returned"
    <3>1. /\ NothingRead(cur) /\ NothingShown(cur) /\ out = 0
          /\ err = 0 \/ (err = Stale /\ done /\ channel = 0)
      BY <2>1 DEF IInv, Showing
    <3>2. shown' = shown
      BY <1>1, <3>1 DEF Show
    <3>3. NothingRead(cur)' /\ NothingShown(cur)'
      BY <1>1, <3>1, <3>2 DEF NothingRead, NothingShown
    <3>4. CASE err = 0
      <4>1. \A s \in Stream : shown'[cur][s] = <<>> /\ consumed'[cur][s] = 0
        BY <1>1, <3>3 DEF NothingRead, NothingShown
      <4>2. Behind("out", 0)' /\ Behind("err", 0)'
        BY <1>1, <1>4, <4>1 DEF Behind
      <4> QED
        BY <1>1, <3>4, <4>2 DEF Pending, Behind
    <3> QED
      BY <3>1, <3>3, <3>4
  <2>2. CASE rounds["returned"] # 0
    <3>1. Pending("out", out) /\ Pending("err", err)
      BY <1>3, <2>2 DEF IInv, Showing
    <3>2. Behind("out", 0)'
      BY <1>1, <1>3, <1>4, <3>1, ShowPending
    <3>3. Pending("err", err)'
      BY <1>1, <1>5, <3>1 DEF Pending, Behind
    <3> QED
      BY <3>2, <3>3
  <2> QED
    BY <1>2, <2>1, <2>2
<1>10. Fresh' /\ Finished'
  <2>1. \A c \in Child : c # cur => shown'[c] = shown[c]
    BY <1>5, BoundsAssumption DEF Child
  <2> QED
    BY <1>1, <1>3, <2>1, OthersKept
<1>11. ReadToTheEnd'
  BY <1>1, <1>2, SameEnd
<1> QED
  BY <1>6, <1>7, <1>8, <1>9, <1>10, <1>11 DEF IInv

LEMMA ContinueSpawnStep ==
  ASSUME IInv, ContinueSpawn
  PROVE  IInv'
<1>1. /\ rounds["running"] > 0
      /\ rounds' = [rounds EXCEPT !["running"] = @ - 1, !["returned"] = @ + 1]
      /\ UNCHANGED <<called, cur, exits, evRefs, killed, error, channel, timer, starts, frame,
                     produced, eof, shown, seen, discipline>>
  BY DEF ContinueSpawn, js, remote
<1>2. /\ rounds["running"] = 1 /\ start = "none" /\ frame = "none"
      /\ cur # 0 /\ channel = cur /\ rounds["returned"] = 0
  BY <1>1, OneRequest
<1>3. /\ rounds' \in [Stage -> Nat]
      /\ rounds'["running"] = 0 /\ rounds'["returned"] = 1
  <2>1. rounds \in [Stage -> Nat] /\ {"queued", "running", "returned"} = Stage
    BY DEF IInv, MembersOK, Stage
  <2> QED
    BY <1>1, <1>2, <2>1
<1>4. start' = start /\ discipline = "kept"
  BY <1>1 DEF start, IInv, MembersOK
<1>5. cur \in Child
  BY <1>2, BoundsAssumption DEF IInv, ChildrenOK, Child
<1>6. /\ produced \in [Child -> [Stream -> 0..MaxOutput]]
      /\ consumed \in [Child -> [Stream -> 0..MaxOutput]]
      /\ \A c \in Child, s \in Stream : consumed[c][s] <= produced[c][s]
      /\ readFailed \subseteq Child /\ pollFailed \subseteq Child
  BY DEF IInv, OutputOK, PerStream, Chunk
<1>7. /\ out' \in Chunk \cup {Wrapped} /\ err' \in Chunk \cup {Wrapped} /\ done' \in BOOLEAN
      /\ consumed' \in [Child -> [Stream -> 0..MaxOutput]]
      /\ \A c \in Child, s \in Stream : consumed'[c][s] <= produced[c][s]
      /\ \A c \in Child : c # cur => consumed'[c] = consumed[c]
      /\ readFailed' \subseteq Child /\ pollFailed' \subseteq Child
      /\ readFailed \subseteq readFailed' /\ readFailed' \subseteq readFailed \cup {cur}
      /\ cur \notin readFailed' =>
           /\ out' # Wrapped /\ err' # Wrapped
           /\ IF out' = 0 THEN consumed'[cur]["out"] = consumed[cur]["out"]
              ELSE out' = consumed'[cur]["out"] /\ out' = consumed[cur]["out"] + 1
           /\ IF err' = 0 THEN consumed'[cur]["err"] = consumed[cur]["err"]
              ELSE err' = consumed'[cur]["err"] /\ err' = consumed[cur]["err"] + 1
  <2>1. CASE KillSeen /\ out' = 0 /\ err' = 0 /\ done' = TRUE
             /\ UNCHANGED <<consumed, pollFailed, readFailed>>
    BY <1>5, <1>6, <2>1, BoundsAssumption DEF Chunk, Wrapped
  <2>2. CASE ~KillSeen
    <3>1. PICK o \in Polls("out"), e \in Polls("err") :
            /\ out' = o.size /\ err' = e.size
            /\ done' = (\/ done \/ o.failed \/ e.failed
                        \/ channel \in eof /\ Drained(o.size, e.size))
            /\ consumed' = [consumed EXCEPT ![channel] =
                 [s \in Stream |-> LET r == IF s = "out" THEN o ELSE e IN
                    IF r.size > @[s] THEN r.size ELSE @[s]]]
            /\ pollFailed' = IF discipline = "kept" /\ (o.failed \/ e.failed)
                             THEN pollFailed \cup {channel} ELSE pollFailed
            /\ readFailed' = IF Wrapped \in {o.size, e.size}
                             THEN readFailed \cup {channel} ELSE readFailed
      BY <1>4, <2>2 DEF ContinueSpawn
    <3>2. ASSUME NEW s \in Stream, NEW r \in Polls(s)
          PROVE  r.size = 0 \/ r.size = Wrapped
                 \/ (r.size = consumed[cur][s] + 1 /\ consumed[cur][s] < produced[cur][s])
      BY <1>2 DEF Polls, Unread
    <3>3. /\ "out" \in Stream /\ "err" \in Stream
          /\ \A s \in Stream : consumed[cur][s] \in 0..MaxOutput /\ produced[cur][s] \in 0..MaxOutput
                               /\ consumed[cur][s] <= produced[cur][s]
      BY <1>5, <1>6 DEF Stream
    <3> DEFINE new == [s \in Stream |-> LET r == IF s = "out" THEN o ELSE e IN
                         IF r.size > consumed[cur][s] THEN r.size ELSE consumed[cur][s]]
    <3>4. consumed' = [consumed EXCEPT ![cur] = new]
      BY <1>2, <3>1
    <3>5. /\ new["out"] = IF o.size > consumed[cur]["out"] THEN o.size ELSE consumed[cur]["out"]
          /\ new["err"] = IF e.size > consumed[cur]["err"] THEN e.size ELSE consumed[cur]["err"]
          /\ new = [s \in Stream |-> new[s]]
      BY <3>3
    <3> HIDE DEF new
    <3>6. /\ o.size = 0 \/ o.size = Wrapped
             \/ (o.size = consumed[cur]["out"] + 1 /\ consumed[cur]["out"] < produced[cur]["out"])
          /\ e.size = 0 \/ e.size = Wrapped
             \/ (e.size = consumed[cur]["err"] + 1 /\ consumed[cur]["err"] < produced[cur]["err"])
      BY <3>2, <3>3
    <3>7. \A s \in Stream : new[s] \in 0..MaxOutput /\ new[s] <= produced[cur][s]
      BY <3>3, <3>5, <3>6, BoundsAssumption DEF Stream, Wrapped
    <3>8. new \in [Stream -> 0..MaxOutput]
      BY <3>5, <3>7
    <3>9. consumed'[cur] = new /\ \A c \in Child : c # cur => consumed'[c] = consumed[c]
      BY <1>5, <1>6, <3>4
    <3>10. consumed' \in [Child -> [Stream -> 0..MaxOutput]]
      BY <1>6, <3>4, <3>8
    <3>11. \A c \in Child, s \in Stream : consumed'[c][s] <= produced[c][s]
      BY <1>6, <3>7, <3>9
    <3>12. out' \in Chunk \cup {Wrapped} /\ err' \in Chunk \cup {Wrapped}
      BY <3>1, <3>3, <3>6, BoundsAssumption DEF Chunk, Wrapped
    <3>13. done' \in BOOLEAN
      BY <3>1
    <3>14. /\ readFailed' \subseteq Child /\ pollFailed' \subseteq Child
           /\ readFailed \subseteq readFailed' /\ readFailed' \subseteq readFailed \cup {cur}
           /\ cur \notin readFailed' => o.size # Wrapped /\ e.size # Wrapped
      BY <1>2, <1>5, <1>6, <3>1
    <3>15. cur \notin readFailed' =>
             /\ out' # Wrapped /\ err' # Wrapped
             /\ IF out' = 0 THEN consumed'[cur]["out"] = consumed[cur]["out"]
                ELSE out' = consumed'[cur]["out"] /\ out' = consumed[cur]["out"] + 1
             /\ IF err' = 0 THEN consumed'[cur]["err"] = consumed[cur]["err"]
                ELSE err' = consumed'[cur]["err"] /\ err' = consumed[cur]["err"] + 1
      BY <3>1, <3>3, <3>5, <3>6, <3>9, <3>14
    <3> QED
      BY <3>9, <3>10, <3>11, <3>12, <3>13, <3>14, <3>15
  <2> QED
    BY <2>1, <2>2 DEF ContinueSpawn
<1>8. ChildrenOK' /\ ExitsOK'
  BY <1>1 DEF IInv, ChildrenOK, ExitsOK, ExitsInOrder
<1>9. MembersOK'
  BY <1>1, <1>3, <1>7 DEF IInv, MembersOK
<1>10. OutputOK'
  BY <1>1, <1>7 DEF IInv, OutputOK, PerStream, Chunk
<1>11. Polling'
  BY <1>1, <1>2, <1>3, <1>4 DEF IInv, Polling, NoRoundTaken
<1>12. Showing'
  <2> SUFFICES ASSUME cur \notin readFailed'
               PROVE  Pending("out", out)' /\ Pending("err", err)'
    BY <1>1, <1>2, <1>3, <1>4 DEF Showing
  <2>1. Behind("out", 0) /\ Behind("err", 0)
    BY <1>2, <1>7 DEF IInv, Showing
  <2>2. ASSUME NEW s \in Stream
        PROVE  consumed[cur][s] \in Nat /\ Len(shown[cur][s]) \in Nat
    <3>1. shown[cur] \in [Stream -> Seq(Int)]
      BY <1>5, BoundsAssumption DEF IInv, OutputOK, PerStream, Child
    <3>2. shown[cur][s] \in Seq(Int)
      BY <3>1
    <3> QED
      BY <1>5, <1>6, <3>2
  <2>3. consumed[cur]["out"] \in Nat /\ Len(shown[cur]["out"]) \in Nat
        /\ consumed[cur]["err"] \in Nat /\ Len(shown[cur]["err"]) \in Nat
    BY <2>2 DEF Stream
  <2>4. Pending("out", out)'
    BY <1>1, <1>7, <2>1, <2>3 DEF Pending, Behind
  <2>5. Pending("err", err)'
    BY <1>1, <1>7, <2>1, <2>3 DEF Pending, Behind
  <2> QED
    BY <2>4, <2>5
<1>13. Fresh' /\ Finished'
  BY <1>1, <1>2, <1>7, OthersKept
<1>14. ReadToTheEnd'
  <2> SUFFICES ASSUME done', ~killed, cur \notin pollFailed' \cup readFailed'
               PROVE  cur \in eof /\ \A s \in Stream : consumed'[cur][s] = produced[cur][s]
    BY <1>1, <1>2, <1>4 DEF IInv, ReadToTheEnd, Begun
  <2>1. PICK o \in Polls("out"), e \in Polls("err") :
          /\ out' = o.size /\ err' = e.size
          /\ done' = (\/ done \/ o.failed \/ e.failed
                      \/ channel \in eof /\ Drained(o.size, e.size))
          /\ pollFailed' = IF discipline = "kept" /\ (o.failed \/ e.failed)
                           THEN pollFailed \cup {channel} ELSE pollFailed
    BY <1>4 DEF ContinueSpawn, KillSeen
  <2>2. ~o.failed /\ ~e.failed /\ cur \notin pollFailed /\ cur \notin readFailed
    BY <1>2, <1>4, <1>7, <2>1
  <2>3. /\ "out" \in Stream /\ "err" \in Stream
        /\ \A s \in Stream : /\ consumed[cur][s] \in 0..MaxOutput /\ produced[cur][s] \in 0..MaxOutput
                             /\ consumed[cur][s] <= produced[cur][s]
                             /\ consumed'[cur][s] \in 0..MaxOutput
                             /\ consumed'[cur][s] <= produced[cur][s]
    BY <1>5, <1>6, <1>7 DEF Stream
  <2>4. ASSUME NEW s \in Stream, NEW r \in Polls(s), ~r.failed, r.size = 0
        PROVE  consumed[cur][s] = produced[cur][s]
    <3>1. Unread(s) = 0
      BY <2>4 DEF Polls, Wrapped
    <3>2. consumed[cur][s] \in Nat /\ produced[cur][s] \in Nat /\ consumed[cur][s] <= produced[cur][s]
      BY <2>3
    <3> QED
      BY <1>2, <3>1, <3>2 DEF Unread
  <2>5. cur \in eof /\ \A s \in Stream : consumed[cur][s] = produced[cur][s]
    <3>1. CASE done
      BY <1>2, <2>2, <3>1 DEF IInv, ReadToTheEnd
    <3>2. CASE ~done
      <4>1. cur \in eof /\ o.size = 0 /\ e.size = 0
        BY <1>2, <2>1, <2>2, <3>2 DEF Drained
      <4>2. consumed[cur]["out"] = produced[cur]["out"] /\ consumed[cur]["err"] = produced[cur]["err"]
        BY <2>2, <2>3, <2>4, <4>1
      <4> QED
        BY <4>1, <4>2 DEF Stream
    <3> QED
      BY <3>1, <3>2
  <2>6. consumed[cur]["out"] <= consumed'[cur]["out"] /\ consumed[cur]["err"] <= consumed'[cur]["err"]
    BY <1>7, <2>3
  <2>7. consumed'[cur]["out"] = produced[cur]["out"] /\ consumed'[cur]["err"] = produced[cur]["err"]
    BY <2>3, <2>5, <2>6
  <2> QED
    BY <2>5, <2>7 DEF Stream
<1> QED
  BY <1>8, <1>9, <1>10, <1>11, <1>12, <1>13, <1>14 DEF IInv

\* cbSpawn ends and the spawn goes on: another round, or the timer.
LEMMA GoesOnStep ==
  ASSUME IInv, CbSpawnEnds, ~done
  PROVE  IInv'
<1>1. /\ frame = "cb" /\ err # Wrapped /\ frame' = "none"
      /\ shown' = Show(shown, "err", err)
      /\ UNCHANGED <<called, cur, exits, evRefs, out, err, done, killed, error, channel, starts,
                     produced, eof, consumed, pollFailed, readFailed, discipline>>
      /\ \/ rounds' = [rounds EXCEPT !["queued"] = @ + 1] /\ UNCHANGED timer
         \/ timer' = TRUE /\ UNCHANGED rounds
  BY DEF CbSpawnEnds, remote
<1>2. /\ cur # 0 /\ start = "none" /\ NoRoundTaken /\ channel = cur /\ start' = start
  BY <1>1 DEF IInv, Polling, start
<1>3. rounds \in [Stage -> Nat] /\ timer \in BOOLEAN /\ err \in Int
      /\ Stage = {"queued", "running", "returned"} /\ "out" \in Stream /\ "err" \in Stream
  BY DEF IInv, MembersOK, Stage, Stream, Chunk, Wrapped, Stale
<1>4. /\ rounds' \in [Stage -> Nat] /\ timer' \in BOOLEAN
      /\ rounds'["running"] = 0 /\ rounds'["returned"] = 0
  <2>1. rounds["queued"] + 1 \in Nat
    BY <1>3
  <2>2. rounds["running"] = 0 /\ rounds["returned"] = 0
    BY <1>2 DEF NoRoundTaken
  <2>3. CASE rounds' = [rounds EXCEPT !["queued"] = @ + 1] /\ UNCHANGED timer
    BY <1>3, <2>1, <2>2, <2>3
  <2>4. CASE timer' = TRUE /\ UNCHANGED rounds
    BY <1>3, <2>2, <2>4
  <2> QED
    BY <1>1, <2>3, <2>4
<1>5. /\ shown' \in [0..MaxChildren -> PerStream(Seq(Int))]
      /\ \A c \in 0..MaxChildren : c # cur => shown'[c] = shown[c]
      /\ shown'[cur]["out"] = shown[cur]["out"]
  BY <1>1, <1>2, <1>3, ShowChunk
<1>6. ChildrenOK' /\ ExitsOK' /\ OutputOK'
  BY <1>1, <1>5 DEF IInv, ChildrenOK, ExitsOK, ExitsInOrder, OutputOK
<1>7. MembersOK'
  BY <1>1, <1>4 DEF IInv, MembersOK, StartAt
<1>8. Polling'
  BY <1>1, <1>2, <1>4 DEF Polling, NoRoundTaken
<1>9. Showing'
  <2> SUFFICES ASSUME cur \notin readFailed
               PROVE  Behind("out", 0)' /\ Behind("err", 0)' /\ rounds'["returned"] = 0
    BY <1>1, <1>2 DEF Showing
  <2>1. Behind("out", 0) /\ Pending("err", err)
    BY <1>1, <1>2 DEF IInv, Showing
  <2>2. Behind("out", 0)'
    BY <1>1, <1>5, <2>1 DEF Behind
  <2>3. Behind("err", 0)'
    BY <1>1, <1>2, <1>3, <2>1, ShowPending
  <2> QED
    BY <1>2, <1>3, <1>4, <2>2, <2>3
<1>10. Fresh' /\ Finished'
  <2>1. \A c \in Child : c # cur => shown'[c] = shown[c]
    BY <1>5, BoundsAssumption DEF Child
  <2> QED
    BY <1>1, <1>2, <2>1, OthersKept
<1>11. ReadToTheEnd'
  BY <1>1, <1>2, SameEnd
<1> QED
  BY <1>6, <1>7, <1>8, <1>9, <1>10, <1>11 DEF IInv

\* cbSpawn ends the spawn: the child exits with its output in order, and the
\* next one is started.
LEMMA ExitsStep ==
  ASSUME IInv, CbSpawnEnds, done
  PROVE  IInv'
<1>1. /\ frame = "cb" /\ err # Wrapped /\ frame' = "none"
      /\ shown' = Show(shown, "err", err)
      /\ timer' = FALSE /\ channel' = 0
      /\ exits' = Append(exits, [child |-> cur, error |-> error])
      /\ UNCHANGED <<called, rounds, produced, eof, consumed, pollFailed, readFailed>>
  BY DEF CbSpawnEnds, OnExit, remote
<1>2. /\ cur # 0 /\ start = "none" /\ starts = StartAt("none") /\ NoRoundTaken
      /\ Stage = {"queued", "running", "returned"}
  BY <1>1, StartOnce DEF IInv, Polling, Stage
<1>20. discipline' = "kept"
  <2>1. Requests("running") = 0
    BY <1>2 DEF Requests, StartAt, NoRoundTaken
  <2>2. discipline' = IF Requests("running") > 0 THEN "raced" ELSE discipline
    BY DEF CbSpawnEnds, OnExit
  <2> QED
    BY <2>1, <2>2 DEF IInv, MembersOK
<1>3. err \in Int /\ "out" \in Stream /\ "err" \in Stream /\ 0 \in Chunk
  BY BoundsAssumption DEF IInv, MembersOK, Stream, Chunk, Wrapped, Stale
<1>4. /\ cur \in Child /\ called \in 0..MaxChildren /\ cur \in 1..called /\ evRefs = 1
      /\ MaxChildren \in Nat
  BY <1>2, BoundsAssumption DEF IInv, ChildrenOK, Child
<1>5. \/ /\ called > cur /\ cur' = cur + 1 /\ start' = "queued" /\ evRefs' = 1
         /\ starts' = StartAt("queued")
         /\ out' = 0 /\ (err' = 0 \/ err' = Stale) /\ done' = FALSE
      \/ /\ called = cur /\ cur' = 0 /\ start' = "none" /\ evRefs' = 0
         /\ starts' = StartAt("none")
         /\ out' = out /\ err' = err
  <2>1. OnExit
    BY DEF CbSpawnEnds
  <2>2. CASE called > cur /\ NativeSpawn(cur + 1, Unref, err)
    <3>1. cur' = cur + 1 /\ starts' = [starts EXCEPT !["queued"] = @ + 1] /\ evRefs' = Unref + 1
          /\ out' = 0 /\ (err' = 0 \/ err' = Stale) /\ done' = FALSE
      BY <2>2 DEF NativeSpawn
    <3>2. starts' = StartAt("queued")
      BY <1>2, <3>1 DEF StartAt
    <3>3. start' = "queued"
      BY <1>2, <3>2 DEF start, StartAt
    <3> QED
      BY <1>4, <2>2, <3>1, <3>2, <3>3 DEF Unref
  <2>3. CASE /\ cur = 0 \/ called = cur
             /\ cur' = 0 /\ evRefs' = Unref
             /\ UNCHANGED <<out, err, done, killed, error, starts>>
    <3>1. cur' = 0 /\ evRefs' = Unref /\ out' = out /\ err' = err /\ starts' = starts
      BY <2>3
    <3>2. start' = start
      BY <3>1 DEF start
    <3> QED
      BY <1>2, <1>4, <2>3, <3>1, <3>2 DEF Unref
  <2> QED
    BY <2>1, <2>2, <2>3 DEF OnExit
<1>6. done' \in BOOLEAN /\ killed' \in BOOLEAN /\ error' \in BOOLEAN
  BY DEF CbSpawnEnds, OnExit, NativeSpawn, IInv, MembersOK
<1>7. /\ shown' \in [0..MaxChildren -> PerStream(Seq(Int))]
      /\ \A c \in 0..MaxChildren : c # cur => shown'[c] = shown[c]
      /\ shown'[cur]["out"] = shown[cur]["out"]
      /\ shown'[cur]["err"] = IF err = 0 THEN shown[cur]["err"] ELSE Append(shown[cur]["err"], err)
  <2>1. \A t \in Stream : t # "err" => shown'[cur][t] = shown[cur][t]
    BY <1>1, <1>2, <1>3, ShowChunk
  <2> QED
    BY <1>1, <1>2, <1>3, <2>1, ShowChunk
<1>8. ChildrenOK'
  BY <1>1, <1>4, <1>5 DEF ChildrenOK
<1>9. ExitsOK'
  <2>1. /\ exits \in Seq([child : Child, error : BOOLEAN]) /\ Len(exits) = cur - 1
        /\ \A i \in 1..Len(exits) : exits[i].child = i
    BY <1>2 DEF IInv, ExitsOK, ExitsInOrder
  <2>2. [child |-> cur, error |-> error] \in [child : Child, error : BOOLEAN]
    BY <1>4 DEF IInv, MembersOK
  <2> DEFINE x == [child |-> cur, error |-> error]
  <2>3. x.child = cur
    OBVIOUS
  <2> HIDE DEF x
  <2>4. /\ exits' \in Seq([child : Child, error : BOOLEAN]) /\ Len(exits') = cur
        /\ exits'[cur] = x
        /\ \A i \in 1..Len(exits) : exits'[i] = exits[i]
    <3>1. exits' = Append(exits, x) /\ x \in [child : Child, error : BOOLEAN]
      BY <1>1, <2>2 DEF x
    <3>2. Len(exits) + 1 = cur
      BY <1>4, <2>1
    <3> QED
      BY <2>1, <3>1, <3>2, AppendProperties
  <2>5. \A i \in 1..Len(exits') : exits'[i].child = i
    BY <1>4, <2>1, <2>3, <2>4
  <2>6. Len(exits') = IF cur' = 0 THEN called' ELSE cur' - 1
    BY <1>1, <1>4, <1>5, <2>4
  <2> QED
    BY <2>4, <2>5, <2>6 DEF ExitsOK, ExitsInOrder
<1>10. MembersOK'
  <2>1. out' \in Chunk \cup {Wrapped} /\ err' \in Chunk \cup {Wrapped, Stale}
    BY <1>3, <1>5 DEF IInv, MembersOK
  <2>2. \E p \in Stage \cup {"none"} : starts' = StartAt(p)
    BY <1>2, <1>5
  <2> QED
    BY <1>1, <1>6, <1>20, <2>1, <2>2 DEF IInv, MembersOK, StartAt
<1>11. OutputOK'
  BY <1>1, <1>7 DEF IInv, OutputOK
<1>12. Polling'
  BY <1>1, <1>2, <1>4, <1>5 DEF Polling, NoRoundTaken
<1>13. ASSUME NEW c \in Child, c # cur
       PROVE  /\ NothingRead(c)' <=> NothingRead(c)
              /\ NothingShown(c)' <=> NothingShown(c)
              /\ InOrder(c)' <=> InOrder(c)
  <2>1. shown'[c] = shown[c]
    BY <1>7, <1>13, BoundsAssumption DEF Child
  <2> QED
    BY <1>1, <2>1 DEF NothingRead, NothingShown, InOrder
<1>14. \A c \in Child : c > cur => NothingRead(c) /\ NothingShown(c)
  BY <1>2 DEF IInv, Fresh, Begun
<1>15. Fresh'
  <2> SUFFICES ASSUME NEW c \in Child, c > Begun'
               PROVE  NothingRead(c)' /\ NothingShown(c)'
    BY DEF Fresh
  <2>1. c > cur /\ c # cur
    BY <1>1, <1>4, <1>5 DEF Begun, Child
  <2> QED
    BY <1>13, <1>14, <2>1
<1>16. Showing'
  <2>1. CASE cur' = 0
    BY <1>1, <1>4, <1>5, <2>1 DEF Showing
  <2>2. CASE cur' # 0
    <3>1. cur' \in Child /\ cur' > cur /\ cur' # cur
      BY <1>4, <1>5, <2>2 DEF Child
    <3>2. ASSUME NEW c \in Child, c > cur, c # cur PROVE NothingRead(c)' /\ NothingShown(c)'
      BY <1>13, <1>14, <3>2
    <3>3. \A s \in Stream : consumed'[cur'][s] = 0 /\ shown'[cur'][s] = <<>>
      BY <3>1, <3>2 DEF NothingRead, NothingShown
    <3>4. NothingRead(cur)' /\ NothingShown(cur)'
      BY <3>3 DEF NothingRead, NothingShown
    <3> QED
      BY <1>1, <1>2, <1>5, <2>2, <3>4 DEF Showing, NoRoundTaken
  <2> QED
    BY <2>1, <2>2
<1>17. ASSUME cur \notin readFailed, NEW s \in Stream
       PROVE  \/ /\ Len(shown'[cur][s]) <= consumed[cur][s]
                 /\ \A i \in 1..Len(shown'[cur][s]) : shown'[cur][s][i] = i
              \/ s = "err" /\ consumed[cur]["out"] = 0 /\ shown'[cur][s] = <<Stale>>
  <2>0. consumed[cur][s] \in Nat /\ shown[cur] \in [Stream -> Seq(Int)]
    <3>1. consumed[cur] \in [Stream -> Chunk] /\ shown[cur] \in [Stream -> Seq(Int)]
      BY <1>4 DEF IInv, OutputOK, PerStream
    <3> QED
      BY <3>1 DEF Chunk
  <2>1. \/ Behind("out", 0) /\ Pending("err", err)
        \/ err = Stale /\ NothingRead(cur) /\ NothingShown(cur)
    BY <1>1, <1>2, <1>17 DEF IInv, Showing
  <2>2. CASE Behind("out", 0) /\ Pending("err", err) /\ s = "out"
    BY <1>7, <2>0, <2>2 DEF Behind
  <2>3. CASE Behind("out", 0) /\ Pending("err", err) /\ s = "err"
    <3>1. CASE err = 0
      BY <1>7, <2>0, <2>3, <3>1 DEF Pending, Behind
    <3>2. CASE err # 0
      <4>1. /\ err = consumed[cur][s] /\ Len(shown[cur][s]) + 1 = err
            /\ \A i \in 1..Len(shown[cur][s]) : shown[cur][s][i] = i
        BY <2>3, <3>2 DEF Pending, Behind
      <4>2. shown[cur][s] \in Seq(Int) /\ shown'[cur][s] = Append(shown[cur][s], err)
        BY <1>7, <2>0, <2>3, <3>2
      <4>3. /\ Len(shown'[cur][s]) = err
            /\ \A i \in 1..Len(shown'[cur][s]) : shown'[cur][s][i] = i
        BY <2>0, <4>1, <4>2, AppendNext
      <4> QED
        BY <2>0, <4>1, <4>3
    <3> QED
      BY <3>1, <3>2
  <2>4. CASE err = Stale /\ NothingRead(cur) /\ NothingShown(cur)
    <3>1. shown[cur][s] = <<>> /\ consumed[cur]["out"] = 0
      BY <1>3, <2>4 DEF NothingRead, NothingShown
    <3>2. s = "out" => shown'[cur][s] = <<>>
      BY <1>7, <3>1
    <3>3. s = "err" => shown'[cur][s] = Append(<<>>, Stale)
      BY <1>7, <2>4, <3>1 DEF Stale
    <3>4. Append(<<>>, Stale) = <<Stale>>
      OBVIOUS
    <3> QED
      BY <2>0, <3>1, <3>2, <3>3, <3>4 DEF Stream
  <2> QED
    BY <2>1, <2>2, <2>3, <2>4 DEF Stream
<1>18. Finished'
  <2> SUFFICES ASSUME NEW c \in Child, c # cur'
               PROVE  InOrder(c)'
    BY DEF Finished
  <2>1. CASE c = cur
    BY <1>1, <1>17, <2>1 DEF InOrder
  <2>2. CASE c # cur
    BY <1>13, <2>2 DEF IInv, Finished
  <2> QED
    BY <2>1, <2>2
<1>19. ReadToTheEnd'
  <2>1. \A c \in Child : c > cur => c \notin eof
    BY <1>2 DEF IInv, ReadToTheEnd, Begun
  <2>2. CASE cur' = 0
    BY <1>1, <1>4, <1>5, <2>1, <2>2 DEF ReadToTheEnd, Begun, Child
  <2>3. CASE cur' # 0
    <3>1. cur' = cur + 1 /\ done' = FALSE /\ cur' \in Child /\ cur' > cur
      BY <1>4, <1>5, <2>3 DEF Child
    <3>2. cur' \notin eof'
      BY <1>1, <2>1, <3>1
    <3>3. \A c \in Child : c > Begun' => c \notin eof'
      BY <1>1, <1>4, <2>1, <3>1 DEF Begun, Child
    <3> QED
      BY <3>1, <3>2, <3>3 DEF ReadToTheEnd
  <2> QED
    BY <2>2, <2>3
<1> QED
  BY <1>8, <1>9, <1>10, <1>11, <1>12, <1>15, <1>16, <1>18, <1>19 DEF IInv

LEMMA SpawnStep ==
  ASSUME IInv, Spawn
  PROVE  IInv'
<1>1. /\ called < MaxChildren /\ called' = called + 1
      /\ UNCHANGED <<exits, channel, timer, rounds, frame, produced, eof, consumed,
                     shown, pollFailed, readFailed, discipline>>
  BY DEF Spawn, remote, history
<1>2. called \in 0..MaxChildren /\ cur \in 0..called /\ channel \in {0, cur} /\ MaxChildren \in Nat
  BY BoundsAssumption DEF IInv, ChildrenOK
<1>3. \A c \in Child : /\ NothingRead(c)' <=> NothingRead(c)
                       /\ NothingShown(c)' <=> NothingShown(c)
                       /\ InOrder(c)' <=> InOrder(c)
  BY <1>1, SameOutput
<1>4. OutputOK'
  BY <1>1 DEF IInv, OutputOK
<1>5. CASE cur = 0
  <2>1. /\ cur' = called + 1 /\ start' = "queued" /\ evRefs' = 1
        /\ starts' = StartAt("queued")
        /\ out' = 0 /\ (err' = 0 \/ err' = Stale)
    <3>1. NativeSpawn(called', evRefs, err) /\ evRefs = 0
      BY <1>5 DEF Spawn, QueueIdle, IInv, ChildrenOK
    <3>2. cur' = called' /\ starts' = [starts EXCEPT !["queued"] = @ + 1] /\ evRefs' = evRefs + 1
          /\ out' = 0 /\ (err' = 0 \/ err' = Stale)
      BY <3>1 DEF NativeSpawn
    <3>3. starts = StartAt("none") /\ Stage = {"queued", "running", "returned"}
      BY <1>5, StartOnce DEF IInv, Polling, Stage
    <3>4. starts' = StartAt("queued")
      BY <3>2, <3>3, StartMoves
    <3>5. start' = "queued"
      BY <3>3, <3>4 DEF start, StartAt
    <3> QED
      BY <1>1, <3>1, <3>2, <3>4, <3>5
  <2>2. done' \in BOOLEAN /\ killed' \in BOOLEAN /\ error' \in BOOLEAN
    BY <1>5 DEF Spawn, QueueIdle, NativeSpawn
  <2>3. ~timer /\ frame = "none" /\ channel = 0 /\ start = "none" /\ NoRoundTaken
    BY <1>2, <1>5 DEF IInv, Polling
  <2>4. ChildrenOK'
    BY <1>1, <1>2, <2>1, <2>3 DEF ChildrenOK
  <2>5. ExitsOK'
    BY <1>1, <1>2, <1>5, <2>1 DEF IInv, ExitsOK, ExitsInOrder
  <2>6. MembersOK'
    <3>1. out' \in Chunk \cup {Wrapped} /\ err' \in Chunk \cup {Wrapped, Stale}
      BY <2>1, BoundsAssumption DEF Chunk
    <3>2. \E p \in Stage \cup {"none"} : starts' = StartAt(p)
      BY <2>1 DEF Stage
    <3> QED
      BY <1>1, <2>2, <3>1, <3>2 DEF IInv, MembersOK, StartAt
  <2>7. Polling'
    BY <1>1, <1>2, <2>1, <2>3 DEF Polling, NoRoundTaken
  <2>8. called + 1 \in Child /\ \A c \in Child : c > called => NothingRead(c) /\ NothingShown(c)
    BY <1>1, <1>2, <1>5 DEF IInv, Fresh, Begun, Child
  <2>9. \A c \in Child : c > called => NothingRead(c)' /\ NothingShown(c)'
    BY <1>3, <2>8
  <2>10. NothingRead(cur)' /\ NothingShown(cur)'
    <3>1. \A s \in Stream : consumed'[cur'][s] = 0 /\ shown'[cur'][s] = <<>>
      BY <1>2, <2>1, <2>8, <2>9 DEF NothingRead, NothingShown
    <3> QED
      BY <3>1 DEF NothingRead, NothingShown
  <2>11. Showing'
    BY <1>1, <2>1, <2>3, <2>10 DEF Showing, NoRoundTaken
  <2>12. Fresh'
    BY <1>2, <2>1, <2>9 DEF Fresh, Begun, Child
  <2>13. Finished'
    BY <1>3, <1>5 DEF IInv, Finished, Child
  <2>14. ReadToTheEnd'
    <3>1. \A c \in Child : c > called => c \notin eof'
      BY <1>1, <1>5 DEF IInv, ReadToTheEnd, Begun
    <3>2. cur' \notin eof' /\ \A c \in Child : c > Begun' => c \notin eof'
      BY <1>2, <2>1, <2>8, <3>1 DEF Begun, Child
    <3>3. done' = FALSE
      BY <1>5 DEF Spawn, QueueIdle, NativeSpawn
    <3> QED
      BY <3>2, <3>3 DEF ReadToTheEnd
  <2> QED
    BY <1>4, <2>4, <2>5, <2>6, <2>7, <2>11, <2>12, <2>13, <2>14 DEF IInv
<1>6. CASE cur # 0
  <2>1. UNCHANGED <<cur, out, err, done, killed, error, starts, evRefs>> /\ start' = start
    BY <1>6 DEF Spawn, QueueIdle, start
  <2>2. ChildrenOK' /\ ExitsOK'
    BY <1>1, <1>2, <1>6, <2>1 DEF IInv, ChildrenOK, ExitsOK, ExitsInOrder
  <2>3. MembersOK' /\ Polling'
    BY <1>1, <2>1 DEF IInv, MembersOK, Polling, NoRoundTaken, StartAt
  <2>4. Showing'
    BY <1>1, <2>1 DEF IInv, Showing, Behind, Pending, NothingRead, NothingShown
  <2>5. Fresh' /\ Finished'
    BY <1>3, <1>6, <2>1 DEF IInv, Fresh, Finished, Begun
  <2>6. ReadToTheEnd'
    BY <1>1, <1>6, <2>1 DEF IInv, ReadToTheEnd, Begun
  <2> QED
    BY <1>4, <2>2, <2>3, <2>4, <2>5, <2>6 DEF IInv
<1> QED
  BY <1>5, <1>6

\* Requests that have mixed stay so.
LEMMA KeptBefore == [Next]_vars /\ discipline' = "kept" => discipline = "kept"
BY DEF Next, Worker, Spawn, Kill, CbSpawnBegins, CbSpawnEnds, OnExit, TimerSpawn, Take, StartSpawn,
       ContinueSpawn, Arrives, EofArrives, vars, history

LEMMA NextIInv == IInv /\ [Next]_vars /\ discipline' = "kept" => IInv'
<1> SUFFICES ASSUME IInv, [Next]_vars, discipline' = "kept" PROVE IInv'
  OBVIOUS
<1>1. CASE UNCHANGED vars
  <2> USE <1>1 DEF vars, js, members, requests, remote, history
  <2>0. start' = start
    BY DEF start
  <2>1. ChildrenOK' /\ ExitsOK' /\ OutputOK'
    BY DEF IInv, ChildrenOK, ExitsOK, ExitsInOrder, OutputOK
  <2>2. MembersOK' /\ Polling'
    BY <2>0 DEF IInv, MembersOK, Polling, NoRoundTaken, StartAt
  <2>3. Showing'
    BY <2>0 DEF IInv, Showing, Behind, Pending, NothingRead, NothingShown
  <2>4. Fresh' /\ Finished'
    BY DEF IInv, Fresh, Finished, Begun, NothingRead, NothingShown, InOrder
  <2>5. ReadToTheEnd'
    BY <2>0, SameEnd
  <2> QED
    BY <2>1, <2>2, <2>3, <2>4, <2>5 DEF IInv
<1>2. CASE Spawn
  BY <1>2, SpawnStep
<1>3. CASE Kill
  BY <1>3, KillStep
<1>4. CASE CbSpawnBegins
  BY <1>4, CbSpawnBeginsStep
<1>5. CASE CbSpawnEnds
  BY <1>5, GoesOnStep, ExitsStep
<1>6. CASE TimerSpawn
  BY <1>6, TimerSpawnStep
<1>7. CASE Take
  BY <1>7, TakeStep
<1>8. CASE StartSpawn
  BY <1>8, StartSpawnStep
<1>9. CASE ContinueSpawn
  BY <1>9, ContinueSpawnStep
<1>10. CASE (\E s \in Stream : Arrives(s)) \/ EofArrives
  BY <1>10, RemoteStep
<1> QED
  BY <1>1, <1>2, <1>3, <1>4, <1>5, <1>6, <1>7, <1>8, <1>9, <1>10 DEF Next, Worker

\* The inductive invariant holds for as long as each request has run when the one
\* before it was done, however many requests the timer has queued.
THEOREM Invariance == Spec => [](discipline = "kept" => IInv)
<1> DEFINE Inv == discipline = "kept" => IInv
<1>1. Init => Inv
  BY InitIInv
<1>2. Inv /\ [Next]_vars => Inv'
  BY KeptBefore, NextIInv
<1> QED
  BY <1>1, <1>2, PTL DEF Spec

-----------------------------------------------------------------------------
(* Types, whatever the timer adds.                                         *)

\* Until two requests race, one runs at a time, and a round has a channel.
NoRaceYet ==
  discipline # "raced" =>
    Requests("running") <= 1 /\ (rounds["running"] > 0 => channel # 0)

TInv == TypeOK /\ NoRaceYet

LEMMA InitTInv == Init => TInv
<1> SUFFICES ASSUME Init PROVE TInv
  OBVIOUS
<1>1. called = 0 /\ cur = 0 /\ channel = 0 /\ exits = <<>> /\ evRefs = 0
  BY DEF Init
<1>2. 0 \in 0..MaxChildren /\ 0 \in Chunk
  BY BoundsAssumption DEF Chunk
<1>3. exits \in Seq([child : 0..MaxChildren, error : BOOLEAN])
  BY <1>1, EmptySeq
<1>4. out \in Chunk \cup {Wrapped} /\ err \in Chunk \cup {Wrapped, Stale}
  BY <1>2 DEF Init
<1>5. starts \in [Stage -> Nat] /\ rounds \in [Stage -> Nat]
  BY DEF Init
<1>6. /\ produced \in [Child -> PerStream(Chunk)] /\ consumed \in [Child -> PerStream(Chunk)]
      /\ \A c \in Child, s \in Stream : consumed[c][s] <= produced[c][s]
  <2>1. produced \in [Child -> PerStream(Chunk)] /\ consumed = produced
    BY <1>2 DEF Init, PerStream
  <2>2. \A c \in Child, s \in Stream : produced[c][s] = 0
    BY DEF Init
  <2> QED
    BY <2>1, <2>2
<1>7. /\ {done, killed, error, timer} \subseteq BOOLEAN /\ frame \in {"none", "cb"}
      /\ eof \subseteq Child /\ pollFailed \subseteq Child /\ readFailed \subseteq Child
      /\ discipline \in Discipline
  BY DEF Init, Discipline
<1>8. TypeOK
  BY <1>1, <1>2, <1>3, <1>4, <1>5, <1>6, <1>7 DEF TypeOK
<1>9. NoRaceYet
  BY DEF Init, NoRaceYet, Requests, Stage
<1> QED
  BY <1>8, <1>9 DEF TInv

\* The counters of the requests.
LEMMA Counters ==
  ASSUME TInv
  PROVE  /\ Stage = {"queued", "running", "returned"}
         /\ \A g \in Stage : starts[g] \in Nat /\ rounds[g] \in Nat
BY DEF TInv, TypeOK, Stage

\* A request is queued, goes on to the next stage, or is answered.
LEMMA Queued ==
  ASSUME NEW f \in [Stage -> Nat], NEW p \in Stage
  PROVE  /\ [f EXCEPT ![p] = @ + 1] \in [Stage -> Nat]
         /\ [f EXCEPT ![p] = @ + 1][p] = f[p] + 1
         /\ \A g \in Stage \ {p} : [f EXCEPT ![p] = @ + 1][g] = f[g]
<1>1. f[p] + 1 \in Nat
  OBVIOUS
<1> QED
  BY <1>1

LEMMA Answered ==
  ASSUME NEW f \in [Stage -> Nat], NEW p \in Stage, f[p] > 0
  PROVE  /\ [f EXCEPT ![p] = @ - 1] \in [Stage -> Nat]
         /\ [f EXCEPT ![p] = @ - 1][p] = f[p] - 1
         /\ \A g \in Stage \ {p} : [f EXCEPT ![p] = @ - 1][g] = f[g]
<1>1. f[p] - 1 \in Nat
  OBVIOUS
<1> QED
  BY <1>1

LEMMA Moved ==
  ASSUME NEW f \in [Stage -> Nat], NEW p \in Stage, NEW q \in Stage, p # q, f[p] > 0
  PROVE  /\ [f EXCEPT ![p] = @ - 1, ![q] = @ + 1] \in [Stage -> Nat]
         /\ [f EXCEPT ![p] = @ - 1, ![q] = @ + 1][p] = f[p] - 1
         /\ [f EXCEPT ![p] = @ - 1, ![q] = @ + 1][q] = f[q] + 1
         /\ \A g \in Stage \ {p, q} : [f EXCEPT ![p] = @ - 1, ![q] = @ + 1][g] = f[g]
<1>1. f[p] - 1 \in Nat /\ f[q] + 1 \in Nat
  OBVIOUS
<1> QED
  BY <1>1

LEMMA SpawnTyped ==
  ASSUME TInv, Spawn
  PROVE  TInv'
<1>1. /\ called' = called + 1 /\ called' \in 0..MaxChildren /\ called \in Nat
      /\ UNCHANGED <<exits, channel, timer, rounds, frame, produced, eof, consumed, pollFailed,
                     readFailed, discipline>>
  BY BoundsAssumption DEF Spawn, remote, history, TInv, TypeOK
<1>2. 0 \in Chunk
  BY BoundsAssumption DEF Chunk
<1>3. /\ cur' \in 0..called' /\ evRefs' \in Int
      /\ out' \in Chunk \cup {Wrapped} /\ err' \in Chunk \cup {Wrapped, Stale}
      /\ {done', killed', error'} \subseteq BOOLEAN
      /\ starts' \in [Stage -> Nat] /\ starts'["running"] = starts["running"]
  <2>1. CASE NativeSpawn(called', evRefs, err)
    <3>1. starts' \in [Stage -> Nat] /\ starts'["running"] = starts["running"]
      BY <2>1, Counters, Queued DEF NativeSpawn, TInv, TypeOK
    <3>2. cur' \in 0..called' /\ evRefs' \in Int
      BY <1>1, <2>1 DEF NativeSpawn, TInv, TypeOK
    <3> QED
      BY <1>2, <2>1, <3>1, <3>2 DEF NativeSpawn
  <2>2. CASE UNCHANGED <<cur, out, err, done, killed, error, starts, evRefs>>
    BY <1>1, <2>2 DEF TInv, TypeOK
  <2> QED
    BY <2>1, <2>2 DEF Spawn
<1>4. TypeOK'
  BY <1>1, <1>3 DEF TInv, TypeOK
<1>5. NoRaceYet'
  BY <1>1, <1>3 DEF TInv, NoRaceYet, Requests
<1> QED
  BY <1>4, <1>5 DEF TInv

LEMMA CbBeginsTyped ==
  ASSUME TInv, CbSpawnBegins
  PROVE  TInv'
<1>1. /\ frame' = "cb"
      /\ UNCHANGED <<called, cur, exits, evRefs, out, err, done, killed, error, channel, timer,
                     produced, eof, consumed, pollFailed, readFailed, discipline>>
  BY DEF CbSpawnBegins, js, members, remote
<1>2. /\ starts' \in [Stage -> Nat] /\ rounds' \in [Stage -> Nat]
      /\ starts'["running"] = starts["running"] /\ rounds'["running"] = rounds["running"]
  <2>1. CASE starts["returned"] > 0 /\ rounds' = rounds
             /\ starts' = [starts EXCEPT !["returned"] = @ - 1]
    BY <2>1, Counters, Answered DEF TInv, TypeOK
  <2>2. CASE rounds["returned"] > 0 /\ starts' = starts
             /\ rounds' = [rounds EXCEPT !["returned"] = @ - 1]
    BY <2>2, Counters, Answered DEF TInv, TypeOK
  <2> QED
    BY <2>1, <2>2 DEF CbSpawnBegins
<1>3. TypeOK'
  BY <1>1, <1>2 DEF TInv, TypeOK
<1>4. NoRaceYet'
  BY <1>1, <1>2 DEF TInv, NoRaceYet, Requests
<1> QED
  BY <1>3, <1>4 DEF TInv

LEMMA CbEndsTyped ==
  ASSUME TInv, CbSpawnEnds
  PROVE  TInv'
<1>1. /\ frame' = "none"
      /\ UNCHANGED <<called, produced, eof, consumed, pollFailed, readFailed>>
  BY DEF CbSpawnEnds, remote
<1>2. called \in 0..MaxChildren /\ cur \in 0..called /\ error \in BOOLEAN /\ 0 \in Chunk
  BY BoundsAssumption DEF TInv, TypeOK, Chunk
<1>3. CASE OnExit
  <2>1. /\ timer' = FALSE /\ channel' = 0 /\ rounds' = rounds
        /\ discipline' = IF Requests("running") > 0 THEN "raced" ELSE discipline
    BY <1>3 DEF OnExit
  <2>2. exits' \in Seq([child : 0..MaxChildren, error : BOOLEAN])
    <3>1. [child |-> cur, error |-> error] \in [child : 0..MaxChildren, error : BOOLEAN]
      <4>1. cur \in 0..MaxChildren
        BY <1>2, BoundsAssumption
      <4> QED
        BY <1>2, <4>1
    <3>2. exits \in Seq([child : 0..MaxChildren, error : BOOLEAN])
      BY DEF TInv, TypeOK
    <3> QED
      BY <1>3, <3>1, <3>2, AppendProperties DEF OnExit
  <2>3. /\ cur' \in 0..called /\ evRefs' \in Int
        /\ out' \in Chunk \cup {Wrapped} /\ err' \in Chunk \cup {Wrapped, Stale}
        /\ {done', killed', error'} \subseteq BOOLEAN
        /\ starts' \in [Stage -> Nat] /\ starts'["running"] = starts["running"]
    <3>1. evRefs \in Int /\ Unref \in Int
      BY DEF TInv, TypeOK, Unref
    <3>2. CASE called > cur /\ NativeSpawn(cur + 1, Unref, err)
      <4>1. starts' \in [Stage -> Nat] /\ starts'["running"] = starts["running"]
        BY <3>2, Counters, Queued DEF NativeSpawn, TInv, TypeOK
      <4>2. cur' \in 0..called /\ evRefs' \in Int
        BY <1>2, <3>1, <3>2 DEF NativeSpawn
      <4> QED
        BY <1>2, <3>2, <4>1, <4>2 DEF NativeSpawn
    <3>3. CASE cur' = 0 /\ evRefs' = Unref /\ UNCHANGED <<out, err, done, killed, error, starts>>
      BY <1>2, <3>1, <3>3 DEF TInv, TypeOK
    <3> QED
      BY <1>3, <3>2, <3>3 DEF OnExit
  <2>4. discipline' \in Discipline
    BY <2>1 DEF Discipline, TInv, TypeOK
  <2>5. TypeOK'
    <3>1. channel' \in 0..called /\ timer' \in BOOLEAN
      <4>1. channel' = 0 /\ timer' = FALSE
        BY <2>1
      <4>2. 0 \in 0..called
        BY <1>2, BoundsAssumption
      <4> QED
        BY <4>1, <4>2
    <3> QED
      BY <1>1, <1>2, <2>1, <2>2, <2>3, <2>4, <3>1 DEF TInv, TypeOK
  <2>6. NoRaceYet'
    BY <2>1, <2>3, Counters DEF NoRaceYet, Requests
  <2> QED
    BY <2>5, <2>6 DEF TInv
<1>4. CASE UNCHANGED <<cur, exits, evRefs, out, err, done, killed, error, channel, starts,
                       discipline>>
           /\ (\/ rounds' = [rounds EXCEPT !["queued"] = @ + 1] /\ UNCHANGED timer
               \/ timer' = TRUE /\ UNCHANGED rounds)
  <2>1. rounds' \in [Stage -> Nat] /\ rounds'["running"] = rounds["running"] /\ timer' \in BOOLEAN
    <3>1. timer \in BOOLEAN /\ rounds \in [Stage -> Nat] /\ "queued" \in Stage /\ "running" \in Stage
      BY DEF TInv, TypeOK, Stage
    <3>2. CASE rounds' = [rounds EXCEPT !["queued"] = @ + 1] /\ UNCHANGED timer
      BY <3>1, <3>2, Queued
    <3>3. CASE timer' = TRUE /\ UNCHANGED rounds
      BY <3>1, <3>3
    <3> QED
      BY <1>4, <3>2, <3>3
  <2>2. TypeOK'
    BY <1>1, <1>4, <2>1 DEF TInv, TypeOK
  <2>3. NoRaceYet'
    BY <1>4, <2>1 DEF TInv, NoRaceYet, Requests
  <2> QED
    BY <2>2, <2>3 DEF TInv
<1> QED
  BY <1>3, <1>4 DEF CbSpawnEnds

LEMMA TakeTyped ==
  ASSUME TInv, Take
  PROVE  TInv'
<1>1. /\ UNCHANGED <<called, cur, exits, evRefs, out, err, done, killed, error, channel, timer,
                     frame, produced, eof, consumed, readFailed>>
      /\ pollFailed' \subseteq Child
  BY DEF Take, Forget, js, members, remote, TInv, TypeOK
<1>2. discipline' =
        IF Requests("running") > 0 \/ (rounds' # rounds /\ channel = 0) THEN "raced"
        ELSE IF Occupied /\ discipline = "kept" THEN "broken" ELSE discipline
  BY DEF Take
<1>3. /\ starts' \in [Stage -> Nat] /\ rounds' \in [Stage -> Nat]
      /\ \/ rounds' = rounds /\ starts'["running"] = starts["running"] + 1
         \/ /\ rounds' # rounds /\ starts' = starts
            /\ rounds'["running"] = rounds["running"] + 1
  <2>1. CASE starts["queued"] > 0 /\ rounds' = rounds
             /\ starts' = [starts EXCEPT !["queued"] = @ - 1, !["running"] = @ + 1]
    BY <2>1, Counters, Moved DEF TInv, TypeOK
  <2>2. CASE rounds["queued"] > 0 /\ starts' = starts
             /\ rounds' = [rounds EXCEPT !["queued"] = @ - 1, !["running"] = @ + 1]
    <3>1. rounds' \in [Stage -> Nat] /\ rounds'["running"] = rounds["running"] + 1
      BY <2>2, Counters, Moved DEF TInv, TypeOK
    <3>2. rounds["running"] + 1 # rounds["running"]
      BY Counters
    <3> QED
      BY <2>2, <3>1, <3>2 DEF TInv, TypeOK
  <2> QED
    BY <2>1, <2>2 DEF Take
<1>4. discipline' \in Discipline
  BY <1>2 DEF Discipline, TInv, TypeOK
<1>5. TypeOK'
  BY <1>1, <1>3, <1>4 DEF TInv, TypeOK
<1>6. NoRaceYet'
  <2> SUFFICES ASSUME discipline' # "raced"
               PROVE  Requests("running")' <= 1 /\ (rounds'["running"] > 0 => channel' # 0)
    BY DEF NoRaceYet
  <2>1. ~(Requests("running") > 0) /\ (rounds' # rounds => channel # 0)
    BY <1>2
  <2>2. starts["running"] = 0 /\ rounds["running"] = 0
    BY <2>1, Counters DEF Requests
  <2> QED
    BY <1>1, <1>3, <2>1, <2>2 DEF Requests
<1> QED
  BY <1>5, <1>6 DEF TInv

LEMMA StartTyped ==
  ASSUME TInv, StartSpawn
  PROVE  TInv'
<1>1. UNCHANGED <<called, cur, exits, evRefs, killed, timer, rounds, frame, produced, eof,
                  consumed, pollFailed, readFailed, discipline>>
  BY DEF StartSpawn, js, remote, history
<1>2. /\ starts["running"] > 0
      /\ starts' \in [Stage -> Nat] /\ starts'["running"] = starts["running"] - 1
  BY Counters, Moved DEF StartSpawn, TInv, TypeOK
<1>3. called \in Nat /\ Begun \in 0..called /\ 0 \in 0..called /\ 0 \in Chunk
  BY BoundsAssumption DEF TInv, TypeOK, Begun, Chunk
<1>4. /\ channel' \in 0..called /\ out' \in Chunk \cup {Wrapped}
      /\ err' \in Chunk \cup {Wrapped, Stale} /\ {done', error'} \subseteq BOOLEAN
  BY <1>3 DEF StartSpawn, TInv, TypeOK
<1>5. TypeOK'
  BY <1>1, <1>2, <1>4 DEF TInv, TypeOK
<1>6. NoRaceYet'
  BY <1>1, <1>2, Counters DEF TInv, NoRaceYet, Requests
<1> QED
  BY <1>5, <1>6 DEF TInv

\* What a poll and a read of the channel leave in m_size.
LEMMA PollsTyped ==
  ASSUME TInv, channel \in Child, NEW s \in Stream, NEW r \in Polls(s)
  PROVE  /\ r.size \in Chunk \cup {Wrapped} /\ r.failed \in BOOLEAN
         /\ r.size > consumed[channel][s] => r.size <= produced[channel][s]
         /\ consumed[channel][s] \in Chunk /\ produced[channel][s] \in Chunk
<1>1. /\ consumed \in [Child -> [Stream -> 0..MaxOutput]]
      /\ produced \in [Child -> [Stream -> 0..MaxOutput]]
  BY DEF TInv, TypeOK, PerStream, Chunk
<1>2. /\ consumed[channel][s] \in 0..MaxOutput /\ produced[channel][s] \in 0..MaxOutput
  BY <1>1
<1>3. Unread(s) \in 0..MaxOutput /\ Unread(s) <= produced[channel][s]
  BY <1>2, BoundsAssumption DEF Unread
<1>4. \/ r = [size |-> Unread(s), failed |-> FALSE]
      \/ r = [size |-> 0, failed |-> TRUE]
      \/ r = [size |-> Wrapped, failed |-> FALSE]
  BY Zenon DEF Polls
<1>5. r.size \in {Unread(s), 0, Wrapped} /\ r.failed \in BOOLEAN
  <2>1. ASSUME NEW n, NEW b, r = [size |-> n, failed |-> b] PROVE r.size = n /\ r.failed = b
    BY <2>1
  <2> QED
    BY <1>4, <2>1
<1> QED
  BY <1>2, <1>3, <1>5, BoundsAssumption DEF Chunk, Wrapped

LEMMA RoundTyped ==
  ASSUME TInv, ContinueSpawn
  PROVE  TInv'
<1>1. UNCHANGED <<called, cur, exits, evRefs, killed, error, channel, timer, starts, frame,
                  produced, eof, discipline>>
  BY DEF ContinueSpawn, js, remote
<1>2. /\ rounds["running"] > 0
      /\ rounds' \in [Stage -> Nat] /\ rounds'["running"] = rounds["running"] - 1
  BY Counters, Moved DEF ContinueSpawn, TInv, TypeOK
<1>3. 0 \in Chunk /\ Garbage \subseteq Chunk
  BY BoundsAssumption DEF Chunk, Garbage
<1>4. /\ out' \in Chunk \cup {Wrapped} /\ err' \in Chunk \cup {Wrapped, Stale}
      /\ done' \in BOOLEAN /\ pollFailed' \subseteq Child /\ readFailed' \subseteq Child
      /\ consumed' \in [Child -> PerStream(Chunk)]
      /\ \A c \in Child, s \in Stream : consumed'[c][s] <= produced[c][s]
  <2>1. CASE out' \in Chunk /\ err' \in Chunk /\ done' \in BOOLEAN
             /\ UNCHANGED <<consumed, pollFailed, readFailed>>
    BY <2>1 DEF TInv, TypeOK
  <2>2. CASE discipline # "raced" /\ ~KillSeen
    <3>1. channel \in Child
      BY <1>2, <2>2, BoundsAssumption DEF TInv, NoRaceYet, TypeOK, Child
    <3>2. PICK o \in Polls("out"), e \in Polls("err") :
            /\ out' = o.size /\ err' = e.size
            /\ done' = (\/ done \/ o.failed \/ e.failed
                        \/ channel \in eof /\ Drained(o.size, e.size))
            /\ consumed' = [consumed EXCEPT ![channel] =
                 [s \in Stream |-> LET r == IF s = "out" THEN o ELSE e IN
                    IF r.size > @[s] THEN r.size ELSE @[s]]]
            /\ pollFailed' = IF discipline = "kept" /\ (o.failed \/ e.failed)
                             THEN pollFailed \cup {channel} ELSE pollFailed
            /\ readFailed' = IF Wrapped \in {o.size, e.size}
                             THEN readFailed \cup {channel} ELSE readFailed
      BY <2>2 DEF ContinueSpawn
    <3>3. Stream = {"out", "err"}
      BY DEF Stream
    <3>4. /\ o.size \in Chunk \cup {Wrapped} /\ e.size \in Chunk \cup {Wrapped}
          /\ o.failed \in BOOLEAN /\ e.failed \in BOOLEAN
      BY <3>1, <3>3, PollsTyped
    <3> DEFINE after == [s \in Stream |-> LET r == IF s = "out" THEN o ELSE e IN
                           IF r.size > consumed[channel][s] THEN r.size ELSE consumed[channel][s]]
    <3>5. ASSUME NEW s \in Stream
          PROVE  after[s] \in Chunk /\ after[s] <= produced[channel][s]
      <4>1. consumed[channel][s] \in Chunk /\ consumed[channel][s] <= produced[channel][s]
        BY <3>1, <3>2, <3>3, PollsTyped DEF TInv, TypeOK
      <4>2. CASE s = "out"
        BY <3>1, <3>2, <3>3, <3>4, <4>1, <4>2, PollsTyped DEF Chunk, Wrapped
      <4>3. CASE s = "err"
        BY <3>1, <3>2, <3>3, <3>4, <4>1, <4>3, PollsTyped DEF Chunk, Wrapped
      <4> QED
        BY <3>3, <4>2, <4>3
    <3>6. after \in PerStream(Chunk)
      BY <3>5 DEF PerStream
    <3> HIDE DEF after
    <3>7. consumed' = [consumed EXCEPT ![channel] = after]
      BY <3>2 DEF after
    <3>8. /\ consumed' \in [Child -> PerStream(Chunk)]
          /\ \A c \in Child, s \in Stream : consumed'[c][s] <= produced[c][s]
      BY <3>1, <3>5, <3>6, <3>7 DEF TInv, TypeOK
    <3>9. pollFailed' \subseteq Child /\ readFailed' \subseteq Child /\ done' \in BOOLEAN
      BY <3>1, <3>2, <3>4 DEF TInv, TypeOK
    <3> QED
      BY <3>2, <3>4, <3>8, <3>9
  <2> QED
    BY <1>3, <2>1, <2>2 DEF ContinueSpawn, TInv, TypeOK
<1>5. TypeOK'
  BY <1>1, <1>2, <1>4 DEF TInv, TypeOK
<1>6. NoRaceYet'
  BY <1>1, <1>2, Counters DEF TInv, NoRaceYet, Requests
<1> QED
  BY <1>5, <1>6 DEF TInv

LEMMA RemoteTyped ==
  ASSUME TInv, (\E s \in Stream : Arrives(s)) \/ EofArrives
  PROVE  TInv'
<1>1. UNCHANGED <<called, cur, exits, evRefs, out, err, done, killed, error, channel, timer,
                  starts, rounds, frame, consumed, pollFailed, readFailed, discipline>>
  BY DEF Arrives, EofArrives, js, members, requests, history
<1>2. /\ produced \in [Child -> [Stream -> 0..MaxOutput]]
      /\ consumed \in [Child -> [Stream -> 0..MaxOutput]]
      /\ \A c \in Child, t \in Stream : consumed[c][t] <= produced[c][t]
  BY DEF TInv, TypeOK, PerStream, Chunk
<1>3. /\ produced' \in [Child -> PerStream(Chunk)] /\ eof' \subseteq Child
      /\ \A c \in Child, t \in Stream : consumed[c][t] <= produced'[c][t]
  <2>1. CASE EofArrives
    BY <2>1 DEF EofArrives, TInv, TypeOK
  <2>2. ASSUME NEW s \in Stream, Arrives(s)
        PROVE  /\ produced' \in [Child -> PerStream(Chunk)] /\ eof' \subseteq Child
               /\ \A c \in Child, t \in Stream : consumed[c][t] <= produced'[c][t]
    <3>1. /\ channel \in Child /\ produced[channel][s] < MaxOutput
          /\ produced' = [produced EXCEPT ![channel][s] = @ + 1]
          /\ UNCHANGED eof
      BY <1>2, <2>2, RoomOnStream DEF Arrives
    <3>2. produced' \in [Child -> [Stream -> 0..MaxOutput]]
      BY <1>2, <3>1, BoundsAssumption
    <3>3. \A c \in Child, t \in Stream : produced[c][t] <= produced'[c][t]
      BY <1>2, <3>1, BoundsAssumption
    <3>4. \A c \in Child, t \in Stream : consumed[c][t] <= produced'[c][t]
      BY <1>2, <3>2, <3>3, BoundsAssumption
    <3> QED
      BY <3>1, <3>2, <3>4 DEF PerStream, Chunk, TInv, TypeOK
  <2> QED
    BY <2>1, <2>2
<1>4. TypeOK'
  BY <1>1, <1>3 DEF TInv, TypeOK
<1>5. NoRaceYet'
  BY <1>1 DEF TInv, NoRaceYet, Requests
<1> QED
  BY <1>4, <1>5 DEF TInv

LEMMA NextTInv == TInv /\ [Next]_vars => TInv'
<1> SUFFICES ASSUME TInv, [Next]_vars PROVE TInv'
  OBVIOUS
<1>1. CASE Kill \/ UNCHANGED vars
  BY <1>1 DEF Kill, vars, js, members, requests, remote, history, TInv, TypeOK, NoRaceYet, Requests
<1>2. CASE TimerSpawn
  <2>1. /\ rounds' \in [Stage -> Nat] /\ rounds'["running"] = rounds["running"]
        /\ UNCHANGED <<js, members, starts, frame, remote, consumed, history>>
    BY <1>2, Counters, Queued DEF TimerSpawn, TInv, TypeOK
  <2> QED
    BY <2>1 DEF js, members, remote, history, TInv, TypeOK, NoRaceYet, Requests
<1>3. CASE Worker
  BY <1>3, TakeTyped, StartTyped, RoundTyped DEF Worker
<1> QED
  BY <1>1, <1>2, <1>3, SpawnTyped, CbBeginsTyped, CbEndsTyped, RemoteTyped DEF Next

\* The variables keep their types, also when rounds overlap, when a second exit is
\* emitted for a child and when its handler finds the queue empty; the reference
\* count then goes below zero, so only its being a number is claimed.
THEOREM TypeCorrect == Spec => []TypeOK
<1>1. TInv => TypeOK
  BY DEF TInv
<1> QED
  BY <1>1, InitTInv, NextTInv, PTL DEF Spec

\* Every child exits once, in the order of the calls, for as long as each request
\* has run when the one before it was done; a queue of rounds does not matter.
THEOREM ExitsOrdered == Spec => [](discipline = "kept" => ExitsInOrder)
<1>1. IInv => ExitsInOrder
  BY DEF IInv, ExitsOK
<1> QED
  BY <1>1, Invariance, PTL

\* What a child prints is emitted in order and complete on each stream, however
\* much it prints and however many rounds the timer has queued, while no read has
\* failed and each request has run when the one before it was done.
THEOREM OutputOrdered == Spec => []OutputInOrder
<1>1. (discipline = "kept" => IInv) => OutputInOrder
  <2> SUFFICES ASSUME discipline = "kept" => IInv, NEW c \in Child, discipline = "kept"
               PROVE  InOrder(c)
    BY DEF OutputInOrder, InOrder
  <2>1. CASE c = cur
    BY <2>1, CurrentInOrder DEF Child
  <2>2. CASE c # cur
    BY <2>2 DEF IInv, Finished
  <2> QED
    BY <2>1, <2>2
<1> QED
  BY <1>1, Invariance, PTL

\* An exit is a step of cbSpawn; if it is because the command ended, everything
\* on stdout was emitted and nothing but the last chunk of stderr is pending.
LEMMA ExitIsComplete ==
  ASSUME IInv, Next, exits' # exits,
         cur \in eof, ~killed, cur \notin pollFailed \cup readFailed
  PROVE  /\ CbSpawnEnds /\ cur \in Child
         /\ \A s \in Stream : consumed[cur][s] = produced[cur][s]
         /\ Behind("out", 0) /\ Pending("err", err)
<1>1. CbSpawnEnds /\ done
  BY DEF Next, Worker, Spawn, Kill, CbSpawnBegins, CbSpawnEnds, TimerSpawn, Take, StartSpawn,
         ContinueSpawn, Arrives, EofArrives, js
<1>2. frame = "cb"
  BY <1>1 DEF CbSpawnEnds
<1>3. cur # 0 /\ cur \in Child
  BY DEF IInv, OutputOK, Child
<1>4. channel # 0 /\ \A s \in Stream : consumed[cur][s] = produced[cur][s]
  BY <1>1, <1>3 DEF IInv, ReadToTheEnd
<1>5. Behind("out", 0) /\ Pending("err", err)
  BY <1>2, <1>3, <1>4 DEF IInv, Showing
<1> QED
  BY <1>1, <1>3, <1>4, <1>5

\* A child that exits because its command ended has got everything the command
\* printed, on both streams, whatever the interleaving of the output, the end of
\* file, the rounds and the ticks of the timer, as long as each request has run when
\* the one before it was done.
THEOREM OutputBeforeExit == Spec => ExitAfterOutput
<1> DEFINE A == \A c \in eof :
                  /\ cur = c /\ exits' # exits
                  /\ ~killed /\ c \notin pollFailed \cup readFailed /\ discipline = "kept"
                  => \A s \in Stream : Len(shown'[c][s]) = produced[c][s]
<1>1. (discipline = "kept" => IInv) /\ [Next]_vars => [A]_vars
  <2> SUFFICES ASSUME IInv, Next,
                      cur \in eof, exits' # exits, ~killed, cur \notin pollFailed \cup readFailed
               PROVE  \A s \in Stream : Len(shown'[cur][s]) = produced[cur][s]
    OBVIOUS
  <2>1. CbSpawnEnds /\ cur \in Child
    BY ExitIsComplete
  <2>2. shown' = Show(shown, "err", err) /\ discipline = "kept"
    BY <2>1 DEF CbSpawnEnds, IInv, MembersOK
  <2>3. cur # 0
    BY <2>1 DEF Child
  <2>4. \A s \in Stream : consumed[cur][s] = produced[cur][s]
    BY ExitIsComplete
  <2>5. Behind("out", 0) /\ Pending("err", err)
    BY ExitIsComplete
  <2>6. err \in Int /\ "out" \in Stream /\ "err" \in Stream
    BY DEF IInv, MembersOK, Stream, Chunk, Wrapped, Stale
  <2>7. /\ shown'[cur]["out"] = shown[cur]["out"]
        /\ shown'[cur]["err"] = IF err = 0 THEN shown[cur]["err"] ELSE Append(shown[cur]["err"], err)
    <3>1. \A t \in Stream : t # "err" => shown'[cur][t] = shown[cur][t]
      BY <2>1, <2>2, <2>3, <2>6, ShowChunk
    <3> QED
      BY <2>1, <2>2, <2>3, <2>6, <3>1, ShowChunk
  <2>8. /\ consumed[cur] \in [Stream -> 0..MaxOutput]
        /\ shown[cur] \in [Stream -> Seq(Int)]
    BY <2>1, <2>3, BoundsAssumption DEF IInv, OutputOK, PerStream, Chunk, Child
  <2>9. Len(shown'[cur]["out"]) = consumed[cur]["out"]
    BY <2>5, <2>6, <2>7, <2>8 DEF Behind
  <2>10. Len(shown'[cur]["err"]) = consumed[cur]["err"]
    BY <2>5, <2>6, <2>7, <2>8, AppendProperties DEF Pending, Behind
  <2> QED
    BY <2>4, <2>9, <2>10 DEF Stream
<1> QED
  BY <1>1, Invariance, PTL DEF Spec, ExitAfterOutput

-----------------------------------------------------------------------------
(* The serial executor.                                                    *)

LEMMA AnswersType ==
  ASSUME IInv
  PROVE  Answers \in Seq([id : Child, how : {"done"}]) /\ Len(Answers) = Len(exits)
<1>1. exits \in Seq([child : Child, error : BOOLEAN])
  BY DEF IInv, ExitsOK
<1>2. Len(exits) \in Nat /\ \A i \in 1..Len(exits) : exits[i].child \in Child
  <2>1. \A i \in 1..Len(exits) : exits[i] \in [child : Child, error : BOOLEAN]
    BY <1>1, ElementOfSeq
  <2> QED
    BY <1>1, <2>1, LenProperties
<1>3. \A i \in 1..Len(exits) : [id |-> exits[i].child, how |-> "done"] \in [id : Child, how : {"done"}]
  BY <1>2
<1> QED
  BY <1>2, <1>3 DEF Answers

\* One more exit is one more answer.
LEMMA AnswerAppended ==
  ASSUME IInv, NEW e \in BOOLEAN, cur \in Child,
         exits' = Append(exits, [child |-> cur, error |-> e])
  PROVE  /\ Answers' = Append(Answers, [id |-> cur, how |-> "done"])
         /\ Len(Answers') = Len(exits) + 1
<1> DEFINE n == Len(exits)
           x == [child |-> cur, error |-> e]
<1>1. exits \in Seq([child : Child, error : BOOLEAN]) /\ n \in Nat /\ x \in [child : Child, error : BOOLEAN]
  BY DEF IInv, ExitsOK
<1>2. /\ Len(exits') = n + 1 /\ \A i \in 1..n : exits'[i] = exits[i]
      /\ exits'[n + 1] = x
  BY <1>1, AppendProperties
<1>3. Answers \in Seq([id : Child, how : {"done"}]) /\ Len(Answers) = n
  BY AnswersType
<1>4. Answers' = [i \in 1..n + 1 |-> [id |-> exits'[i].child, how |-> "done"]]
  BY <1>2 DEF Answers
<1>5. Append(Answers, [id |-> cur, how |-> "done"])
        = [i \in 1..n + 1 |-> IF i = n + 1 THEN [id |-> cur, how |-> "done"] ELSE Answers[i]]
  BY <1>1, <1>3
<1>6. \A i \in 1..n + 1 : [id |-> exits'[i].child, how |-> "done"]
        = IF i = n + 1 THEN [id |-> cur, how |-> "done"] ELSE Answers[i]
  BY <1>1, <1>2 DEF Answers
<1>7. Answers' = Append(Answers, [id |-> cur, how |-> "done"])
  BY <1>4, <1>5, <1>6, Zenon
<1> QED
  BY <1>1, <1>4, <1>7

LEMMA SpawnSubmits ==
  ASSUME IInv, Spawn
  PROVE  Executor!Submit
<1>1. called' = called + 1 /\ exits' = exits /\ Answers' = Answers
  BY DEF Spawn, Answers
<1>2. CASE cur = 0
  <2>1. cur' = called + 1 /\ Len(Answers) = called /\ called \in Nat
    BY <1>1, <1>2, AnswersType, BoundsAssumption
       DEF Spawn, QueueIdle, NativeSpawn, IInv, ExitsOK, ChildrenOK
  <2> QED
    BY <1>1, <1>2, <2>1 DEF Executor!Submit, Executor!MayStart
<1>3. CASE cur # 0
  BY <1>1, <1>3 DEF Spawn, QueueIdle, Executor!Submit
<1> QED
  BY <1>2, <1>3

LEMMA ExitAnswers ==
  ASSUME IInv, CbSpawnEnds, done
  PROVE  Executor!Answer
<1>1. /\ called' = called /\ cur # 0 /\ cur \in Child /\ error \in BOOLEAN
      /\ called \in Nat /\ cur \in Nat /\ cur <= called /\ Len(exits) = cur - 1
      /\ exits' = Append(exits, [child |-> cur, error |-> error])
  <2>1. frame = "cb"
    BY DEF CbSpawnEnds
  <2>2. cur # 0 /\ called \in 0..MaxChildren /\ cur \in 0..called /\ error \in BOOLEAN
    BY <2>1 DEF IInv, Polling, ChildrenOK, MembersOK
  <2>3. cur \in Child /\ called \in Nat /\ cur \in Nat /\ cur <= called
    BY <2>2, BoundsAssumption DEF Child
  <2> QED
    BY <2>2, <2>3 DEF CbSpawnEnds, OnExit, IInv, ExitsOK
<1>2. /\ Answers' = Append(Answers, [id |-> cur, how |-> "done"])
      /\ Len(Answers') = cur
  BY <1>1, AnswerAppended
<1>3. \/ called > cur /\ cur' = cur + 1
      \/ called = cur /\ cur' = 0
  BY <1>1 DEF CbSpawnEnds, OnExit, NativeSpawn
<1> QED
  BY <1>1, <1>2, <1>3 DEF Executor!Answer, Executor!Outcome, Executor!MayStart

\* The spawns of an object are executed one at a time and in the order of the
\* calls, and each is answered by one exit before the next is started: what the
\* queue assumes of the native object, for any number of children and of requests
\* that the timer has queued, as long as each request has run when the one before it
\* was done.
THEOREM SpawnImplementsExecutor == Spec => ImplementsExecutor
<1>1. Init => Executor!Init
  <2> SUFFICES ASSUME Init PROVE Executor!Init
    OBVIOUS
  <2>1. IInv /\ exits = <<>>
    BY InitIInv DEF Init
  <2>2. Answers = <<>>
    BY <2>1, AnswersType, EmptySeq
  <2> QED
    BY <2>2 DEF Init, Executor!Init
<1>2. (discipline = "kept" => IInv) /\ [Next]_vars
        => [Executor!Next \/ discipline # "kept"]_(Executor!vars)
  <2> SUFFICES ASSUME IInv, [Next]_vars
               PROVE  Executor!Next \/ UNCHANGED Executor!vars
    BY DEF Executor!vars
  <2>1. CASE Spawn
    BY <2>1, SpawnSubmits DEF Executor!Next
  <2>2. CASE CbSpawnEnds /\ done
    BY <2>2, ExitAnswers DEF Executor!Next
  <2>3. CASE UNCHANGED <<called, cur, exits>>
    BY <2>3 DEF Executor!vars, Answers
  <2>4. Spawn \/ (CbSpawnEnds /\ done) \/ UNCHANGED <<called, cur, exits>>
    BY DEF Next, Worker, Kill, CbSpawnBegins, CbSpawnEnds, TimerSpawn, Take, StartSpawn,
           ContinueSpawn, Arrives, EofArrives, vars, js
  <2> QED
    BY <2>1, <2>2, <2>3, <2>4
<1> QED
  BY <1>1, <1>2, Invariance, PTL DEF Spec, ImplementsExecutor

\* No spawn emits two 'callback' events for as long as each request has run when the
\* one before it was done: requests that run beside one another are the only cause of
\* what TLC finds against OneExitPerSpawn.
THEOREM OneExitWithoutOverlap == Spec => [](discipline = "kept" => OneExitPerSpawn)
<1>1. IInv => OneExitPerSpawn
  BY BoundsAssumption DEF IInv, ChildrenOK, ExitsOK, OneExitPerSpawn
<1> QED
  BY <1>1, Invariance, PTL

-----------------------------------------------------------------------------
(* What the child objects see.                                             *)

\* No other spawn is called while one is executed.
Alone == cur # 0 => called = cur

\* The child object has got what was emitted on stdout for it.
SeenIsShown ==
  seen = [c \in Child |-> [i \in 1..Len(shown[c]["out"]) |-> <<c, shown[c]["out"][i]>>]]

\* Before the requests have mixed.
SeenBefore == discipline = "kept" => SeenIsShown

LEMMA InitSeen == Init => SeenIsShown
<1> SUFFICES ASSUME Init PROVE SeenIsShown
  OBVIOUS
<1>1. ASSUME NEW c \in Child
      PROVE  [i \in 1..Len(shown[c]["out"]) |-> <<c, shown[c]["out"][i]>>] = <<>>
  <2>1. shown[c]["out"] = <<>>
    BY BoundsAssumption DEF Init, Child, Stream
  <2> QED
    BY <2>1
<1> QED
  BY <1>1 DEF Init, SeenIsShown

\* A chunk emitted while its child is the last one gets to that child.
LEMMA SeenStep ==
  ASSUME IInv, Alone, SeenIsShown, CbSpawnBegins
  PROVE  SeenIsShown'
<1>1. /\ frame = "none" /\ shown' = Show(shown, "out", out)
      /\ seen' = IF out = 0 THEN seen
                 ELSE [seen EXCEPT ![called] = Append(@, <<cur, out>>)]
  BY DEF CbSpawnBegins, IInv, MembersOK
<1>2. CASE out = 0
  BY <1>1, <1>2 DEF Show, SeenIsShown
<1>3. CASE out # 0
  <2>1. cur # 0 /\ cur \in Child /\ called = cur
    <3>1. start # "none" \/ rounds["returned"] # 0
      BY DEF CbSpawnBegins, start
    <3>2. cur # 0
      BY <3>1, OneRequest DEF Stage
    <3> QED
      BY <3>2, BoundsAssumption DEF IInv, ChildrenOK, Child, Alone
  <2>2. out \in Int /\ "out" \in Stream
    BY DEF IInv, MembersOK, Chunk, Wrapped, Stream
  <2>3. /\ shown'[cur]["out"] = Append(shown[cur]["out"], out)
        /\ \A c \in Child : c # cur => shown'[c] = shown[c]
    <3>1. Child \subseteq 0..MaxChildren
      BY BoundsAssumption DEF Child
    <3> QED
      BY <1>1, <1>3, <2>1, <2>2, <3>1, ShowChunk
  <2>4. shown[cur]["out"] \in Seq(Int)
    BY <2>1, <2>2 DEF IInv, OutputOK, PerStream, Child
  <2>5. /\ \A c \in Child : c # cur => seen'[c] = seen[c]
        /\ seen'[cur] = Append(seen[cur], <<cur, out>>)
        /\ DOMAIN seen' = Child /\ seen' = [c \in Child |-> seen'[c]]
    BY <1>1, <1>3, <2>1 DEF SeenIsShown
  <2> SUFFICES ASSUME NEW c \in Child
               PROVE  seen'[c] = [i \in 1..Len(shown'[c]["out"]) |-> <<c, shown'[c]["out"][i]>>]
    BY <2>5, Zenon DEF SeenIsShown
  <2>6. CASE c # cur
    BY <2>3, <2>5, <2>6 DEF SeenIsShown
  <2>7. CASE c = cur
    <3> DEFINE s == shown[cur]["out"]
               n == Len(s)
    <3>1. seen[cur] = [i \in 1..n |-> <<cur, s[i]>>]
      BY <2>1 DEF SeenIsShown
    <3>2. s \in Seq(Int) /\ n \in Nat
      BY <2>4, LenProperties
    <3>3. shown'[cur]["out"] = Append(s, out)
      BY <2>3
    <3> HIDE DEF s
    <3>4. Append([i \in 1..n |-> <<cur, s[i]>>], <<cur, out>>)
            = [i \in 1..n + 1 |-> <<cur, Append(s, out)[i]>>]
      BY <2>2, <3>2
    <3>5. Len(Append(s, out)) = n + 1
      BY <2>2, <3>2
    <3> QED
      BY <2>5, <2>7, <3>1, <3>3, <3>4, <3>5
  <2> QED
    BY <2>6, <2>7
<1> QED
  BY <1>2, <1>3

\* If no spawn is called while another is executed, a child that exits has got
\* on its own stdout what its command printed, and nothing else, as long as each
\* request has run when the one before it was done: the listeners that change owner
\* too early are the only cause of what TLC finds against ChildSeesItsOutput.
THEOREM AloneSeesItsOutput == Spec /\ []Alone => ChildSeesItsOutput
<1> DEFINE A == \A c \in eof :
                  /\ cur = c /\ exits' # exits
                  /\ ~killed /\ c \notin pollFailed \cup readFailed /\ discipline = "kept"
                  => seen'[c] = [i \in 1..produced[c]["out"] |-> <<c, i>>]
<1>1. (discipline = "kept" => IInv) /\ Alone /\ SeenBefore /\ [Next]_vars => SeenBefore'
  <2> SUFFICES ASSUME IInv, Alone, SeenIsShown, [Next]_vars, discipline' = "kept"
               PROVE  SeenIsShown'
    BY KeptBefore DEF SeenBefore
  <2>1. CASE CbSpawnBegins
    BY <2>1, SeenStep
  <2>2. CASE CbSpawnEnds
    <3>1. seen' = seen /\ shown' = Show(shown, "err", err) /\ cur # 0 /\ frame = "cb"
      BY <2>2 DEF CbSpawnEnds, IInv, Polling
    <3>2. cur \in Child /\ err \in Int /\ "err" \in Stream /\ "out" \in Stream
      BY <3>1, BoundsAssumption DEF IInv, ChildrenOK, Child, MembersOK, Chunk, Wrapped, Stale, Stream
    <3>3. \A c \in Child : shown'[c]["out"] = shown[c]["out"]
      BY <3>1, <3>2, ShowChunk DEF Child
    <3> QED
      BY <3>1, <3>3 DEF SeenIsShown
  <2>3. CASE UNCHANGED <<seen, shown>>
    BY <2>3 DEF SeenIsShown
  <2>4. CbSpawnBegins \/ CbSpawnEnds \/ UNCHANGED <<seen, shown>>
    BY DEF Next, Worker, Spawn, Kill, TimerSpawn, Take, StartSpawn, ContinueSpawn, Arrives,
           EofArrives, vars, history
  <2> QED
    BY <2>1, <2>2, <2>3, <2>4
<1>2. (discipline = "kept" => IInv) /\ SeenBefore /\ [Next]_vars => [A]_vars
  <2> SUFFICES ASSUME IInv, SeenIsShown, Next,
                      cur \in eof, exits' # exits, ~killed, cur \notin pollFailed \cup readFailed
               PROVE  seen'[cur] = [i \in 1..produced[cur]["out"] |-> <<cur, i>>]
    BY DEF SeenBefore
  <2>1. CbSpawnEnds /\ cur \in Child /\ Behind("out", 0) /\ consumed[cur]["out"] = produced[cur]["out"]
    BY ExitIsComplete DEF Stream
  <2>2. seen' = seen
    BY <2>1 DEF CbSpawnEnds
  <2>3. shown[cur]["out"] \in Seq(Int)
    BY <2>1 DEF IInv, OutputOK, PerStream, Stream, Child
  <2>4. /\ Len(shown[cur]["out"]) = produced[cur]["out"]
        /\ \A i \in 1..Len(shown[cur]["out"]) : shown[cur]["out"][i] = i
    BY <2>1, <2>3 DEF Behind
  <2> QED
    BY <2>1, <2>2, <2>4 DEF SeenIsShown
<1>3. Init => SeenBefore
  BY InitSeen DEF SeenBefore
<1> QED
  BY <1>1, <1>2, <1>3, Invariance, PTL DEF Spec, ChildSeesItsOutput

-----------------------------------------------------------------------------
(* What holds however the rounds overlap.                                  *)

\* Every child that was started before has exited, and what keeps the event loop
\* alive is the difference between the children started and the exits.
ExitsAccounted ==
  /\ called \in Nat /\ cur \in 0..called /\ evRefs \in Int
  /\ exits \in Seq([child : Nat, error : BOOLEAN]) /\ error \in BOOLEAN
  /\ evRefs + Len(exits) = Begun
  /\ \A c \in 1..Begun : c = cur \/ \E i \in 1..Len(exits) : exits[i].child = c

LEMMA InitAccounted == Init => ExitsAccounted
<1> SUFFICES ASSUME Init PROVE ExitsAccounted
  OBVIOUS
<1>1. called = 0 /\ cur = 0 /\ exits = <<>> /\ evRefs = 0 /\ error = FALSE /\ Len(exits) = 0
  BY DEF Init
<1>2. Begun = 0
  BY <1>1 DEF Begun
<1>3. exits \in Seq([child : Nat, error : BOOLEAN])
  BY <1>1, EmptySeq
<1>4. evRefs + Len(exits) = Begun /\ called \in Nat /\ cur \in 0..called /\ evRefs \in Int
  BY <1>1, <1>2
<1>5. \A c \in 1..Begun : c = cur \/ \E i \in 1..Len(exits) : exits[i].child = c
  BY <1>2
<1>6. error \in BOOLEAN
  BY <1>1
<1> QED
  BY ONLY <1>3, <1>4, <1>5, <1>6 DEF ExitsAccounted

LEMMA SpawnAccounted ==
  ASSUME ExitsAccounted, Spawn
  PROVE  ExitsAccounted'
<1>1. called' = called + 1 /\ exits' = exits
  BY DEF Spawn, history
<1>2. CASE cur = 0 /\ NativeSpawn(called', evRefs, err)
  <2>1. cur' = called + 1 /\ evRefs' = evRefs + 1 /\ error' = FALSE
    BY <1>1, <1>2 DEF NativeSpawn
  <2>2. Begun = called /\ Begun' = called + 1
    BY <1>2, <2>1 DEF Begun, ExitsAccounted
  <2>3. evRefs' + Len(exits') = Begun'
    BY <1>1, <2>1, <2>2 DEF ExitsAccounted
  <2>4. \A c \in 1..Begun' : c = cur' \/ (c \in 1..Begun /\ c # cur)
    BY <1>2, <2>1, <2>2 DEF ExitsAccounted
  <2>5. ASSUME NEW c \in 1..Begun'
        PROVE  c = cur' \/ \E i \in 1..Len(exits') : exits'[i].child = c
    BY <1>1, <2>4, <2>5 DEF ExitsAccounted
  <2>6. called' \in Nat /\ cur' \in 0..called' /\ evRefs' \in Int
    BY <1>1, <2>1 DEF ExitsAccounted
  <2> QED
    BY <1>1, <2>1, <2>3, <2>5, <2>6 DEF ExitsAccounted
<1>3. CASE cur # 0 /\ UNCHANGED <<cur, error, evRefs>>
  BY <1>1, <1>3 DEF ExitsAccounted, Begun
<1> QED
  BY <1>2, <1>3 DEF Spawn, QueueIdle

LEMMA ExitAccounted ==
  ASSUME ExitsAccounted, OnExit, UNCHANGED called
  PROVE  ExitsAccounted'
<1> DEFINE x == [child |-> cur, error |-> error]
<1>1. /\ x \in [child : Nat, error : BOOLEAN] /\ exits' = Append(exits, x)
      /\ exits \in Seq([child : Nat, error : BOOLEAN]) /\ Len(exits) \in Nat
  BY DEF OnExit, ExitsAccounted
<1>2. /\ exits' \in Seq([child : Nat, error : BOOLEAN])
      /\ Len(exits') = Len(exits) + 1 /\ exits'[Len(exits) + 1].child = cur
      /\ \A i \in 1..Len(exits) : exits'[i] = exits[i]
  BY <1>1, AppendProperties
<1>3. \A c \in 1..Begun : \E i \in 1..Len(exits') : exits'[i].child = c
  <2> SUFFICES ASSUME NEW c \in 1..Begun PROVE \E i \in 1..Len(exits') : exits'[i].child = c
    OBVIOUS
  <2>1. CASE c = cur
    <3>1. Len(exits) + 1 \in 1..Len(exits')
      BY <1>1, <1>2
    <3> QED
      BY <1>2, <2>1, <3>1
  <2>2. CASE c # cur
    <3>1. PICK i \in 1..Len(exits) : exits[i].child = c
      BY <2>2 DEF ExitsAccounted
    <3>2. i \in 1..Len(exits') /\ exits'[i].child = c
      BY <1>1, <1>2, <3>1
    <3> QED
      BY <3>2
  <2> QED
    BY <2>1, <2>2
<1>4. CASE cur # 0 /\ called > cur /\ NativeSpawn(cur + 1, Unref, err)
  <2>1. cur' = cur + 1 /\ evRefs' = evRefs /\ error' = FALSE
    BY <1>4 DEF NativeSpawn, Unref, ExitsAccounted
  <2>2. Begun = cur /\ Begun' = cur + 1 /\ cur' \in 0..called
    BY <1>4, <2>1 DEF Begun, ExitsAccounted
  <2>3. evRefs' + Len(exits') = Begun'
    BY <1>1, <1>2, <2>1, <2>2 DEF ExitsAccounted
  <2>4. \A c \in 1..Begun' : c = cur' \/ c \in 1..Begun
    BY <2>1, <2>2 DEF ExitsAccounted
  <2> QED
    BY <1>2, <1>3, <2>1, <2>2, <2>3, <2>4 DEF ExitsAccounted
<1>5. CASE (cur = 0 \/ called = cur) /\ cur' = 0 /\ evRefs' = Unref /\ UNCHANGED error
  <2>1. evRefs' = evRefs - 1 /\ Begun = called /\ Begun' = called
    BY <1>5 DEF Unref, Begun, ExitsAccounted
  <2>2. evRefs' + Len(exits') = Begun'
    <3>1. PICK n \in Nat : n = Len(exits)
      BY <1>1
    <3>2. evRefs + n = called /\ evRefs \in Int /\ called \in Nat
      BY <2>1, <3>1 DEF ExitsAccounted
    <3>3. evRefs - 1 + (n + 1) = called
      BY ONLY <3>2
    <3> QED
      BY <1>2, <2>1, <3>1, <3>3
  <2>3. \A c \in 1..Begun' : \E i \in 1..Len(exits') : exits'[i].child = c
    BY <1>3, <2>1
  <2>4. called' \in Nat /\ cur' \in 0..called' /\ evRefs' \in Int /\ error' \in BOOLEAN
    BY <1>5, <2>1 DEF ExitsAccounted
  <2> QED
    BY <1>2, <2>2, <2>3, <2>4 DEF ExitsAccounted
<1> QED
  BY <1>4, <1>5 DEF OnExit

LEMMA OtherAccounted ==
  ASSUME ExitsAccounted, UNCHANGED <<called, cur, exits, evRefs>>, error' \in BOOLEAN
  PROVE  ExitsAccounted'
BY DEF ExitsAccounted, Begun

LEMMA NextAccounted == ExitsAccounted /\ [Next]_vars => ExitsAccounted'
<1> SUFFICES ASSUME ExitsAccounted, [Next]_vars PROVE ExitsAccounted'
  OBVIOUS
<1>1. error \in BOOLEAN
  BY DEF ExitsAccounted
<1>2. CASE Spawn
  BY <1>2, SpawnAccounted
<1>3. CASE Kill \/ CbSpawnBegins \/ TimerSpawn \/ EofArrives \/ \E s \in Stream : Arrives(s)
  BY <1>1, <1>3, OtherAccounted
     DEF Kill, CbSpawnBegins, TimerSpawn, EofArrives, Arrives, js, members, history
<1>4. CASE CbSpawnEnds
  <2>1. CASE OnExit
    BY <1>4, <2>1, ExitAccounted DEF CbSpawnEnds
  <2>2. CASE UNCHANGED <<cur, exits, evRefs, error>>
    BY <1>1, <1>4, <2>2, OtherAccounted DEF CbSpawnEnds
  <2> QED
    BY <1>4, <2>1, <2>2 DEF CbSpawnEnds
<1>5. CASE Worker
  BY <1>1, <1>5, OtherAccounted
     DEF Worker, Take, StartSpawn, ContinueSpawn, js, members, history
<1>6. CASE UNCHANGED vars
  BY <1>1, <1>6, OtherAccounted DEF vars, js, members, history
<1> QED
  BY <1>2, <1>3, <1>4, <1>5, <1>6 DEF Next

\* A request is in flight, or the timer will queue one.
Polled == cur # 0 /\ frame = "none" => InFlight > 0 \/ timer

LEMMA NextPolled == TInv /\ Polled /\ [Next]_vars => Polled'
<1> SUFFICES ASSUME TInv, Polled, [Next]_vars, cur' # 0, frame' = "none"
             PROVE  InFlight' > 0 \/ timer'
  BY DEF Polled
<1>1. /\ starts \in [Stage -> Nat] /\ rounds \in [Stage -> Nat]
      /\ "queued" \in Stage /\ "running" \in Stage /\ "returned" \in Stage
  BY DEF TInv, TypeOK, Stage
<1>2. InFlight > 0 <=> \E g \in Stage : starts[g] > 0 \/ rounds[g] > 0
  BY <1>1 DEF InFlight, Requests, Stage
<1>3. starts' \in [Stage -> Nat] /\ rounds' \in [Stage -> Nat]
  BY NextTInv DEF TInv, TypeOK
<1>4. InFlight' > 0 <=> \E g \in Stage : starts'[g] > 0 \/ rounds'[g] > 0
  BY <1>1, <1>3 DEF InFlight, Requests, Stage
<1>5. CASE Spawn
  <2>1. CASE NativeSpawn(called', evRefs, err)
    <3>1. starts'["queued"] > 0
      BY <1>1, <2>1, Queued DEF NativeSpawn
    <3> QED
      BY <1>1, <1>4, <3>1
  <2>2. CASE UNCHANGED <<cur, starts>>
    BY <1>2, <1>4, <1>5, <2>2 DEF Spawn, Polled
  <2> QED
    BY <1>5, <2>1, <2>2 DEF Spawn
<1>6. CASE CbSpawnEnds
  <2>1. CASE OnExit
    <3>1. NativeSpawn(cur + 1, Unref, err)
      BY <2>1 DEF OnExit
    <3>2. starts'["queued"] > 0
      BY <1>1, <3>1, Queued DEF NativeSpawn
    <3> QED
      BY <1>1, <1>4, <3>2
  <2>2. CASE rounds' = [rounds EXCEPT !["queued"] = @ + 1]
    <3>1. rounds'["queued"] > 0
      BY <1>1, <2>2, Queued
    <3> QED
      BY <1>1, <1>4, <3>1
  <2>3. CASE timer' = TRUE
    BY <2>3
  <2> QED
    BY <1>6, <2>1, <2>2, <2>3 DEF CbSpawnEnds
<1>7. CASE TimerSpawn
  <2>1. rounds'["queued"] > 0
    BY <1>1, <1>7, Queued DEF TimerSpawn
  <2> QED
    BY <1>1, <1>4, <2>1
<1>8. CASE Take
  <2>1. starts'["running"] > 0 \/ rounds'["running"] > 0
    BY <1>1, <1>8, Moved DEF Take
  <2> QED
    BY <1>1, <1>4, <2>1
<1>9. CASE StartSpawn
  <2>1. starts'["returned"] > 0
    BY <1>1, <1>9, Moved DEF StartSpawn
  <2> QED
    BY <1>1, <1>4, <2>1
<1>10. CASE ContinueSpawn
  <2>1. rounds'["returned"] > 0
    BY <1>1, <1>10, Moved DEF ContinueSpawn
  <2> QED
    BY <1>1, <1>4, <2>1
<1>11. CASE CbSpawnBegins
  BY <1>11 DEF CbSpawnBegins
<1>12. CASE UNCHANGED <<cur, frame, timer, starts, rounds>>
  BY <1>2, <1>4, <1>12 DEF Polled
<1>13. Kill \/ EofArrives \/ (\E s \in Stream : Arrives(s)) \/ UNCHANGED vars
         => UNCHANGED <<cur, frame, timer, starts, rounds>>
  BY DEF Kill, EofArrives, Arrives, vars, js, members, requests
<1> QED
  BY <1>5, <1>6, <1>7, <1>8, <1>9, <1>10, <1>11, <1>12, <1>13 DEF Next, Worker

\* Also when rounds overlap no spawn is passed over: it is polled until its exit, the
\* next child is started only at an exit, and every child before has had one of its
\* own.  An exit too many is paid with an ev_unref too many, so nothing may keep the
\* event loop alive for a spawn that is executed later.
THEOREM SpawnsNotForgotten == Spec => []NoneForgotten
<1>1. ExitsAccounted /\ Polled => NoneForgotten
  BY DEF ExitsAccounted, Polled, NoneForgotten
<1>2. Init => Polled
  BY DEF Init, Polled
<1> QED
  BY <1>1, <1>2, InitAccounted, NextAccounted, InitTInv, NextTInv, NextPolled, PTL DEF Spec
=============================================================================
