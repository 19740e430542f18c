------------------------- MODULE SftpCommandsProofs -------------------------
(***************************************************************************)
(* Safety of the one-round operations, for any directory, any commands and *)
(* any number of calls.                                                    *)
(***************************************************************************)
EXTENDS SftpCommands, SequenceTheorems, FiniteSetTheorems, TLAPS

Held == Cardinality(list) + (IF stat = NoEntry THEN 0 ELSE 1)
Existing == {n \in Names : Exists(n)}

DirectoryOK ==
  /\ fs \in [Names -> Entries \cup {NoEntry}]
  /\ stats \in [Names -> Entries \cup {NoEntry}]

QueueOK ==
  /\ tasks \in Seq(Commands)
  /\ req \in {"none", "queued", "returned"} /\ (req = "none" <=> tasks = <<>>)
  /\ frame \in {"none", "onStat"}
  /\ calls \in 0..MaxCalls /\ answers \in Nat /\ answers + Len(tasks) <= calls

\* The arguments of the operation that is executed are those of the head.
ArgsOK ==
  /\ buf \in Names \cup {NoName} /\ buf2 \in Names \cup {NoName}
  /\ int1 \in Nat /\ int2 \in Ids
  /\ req # "none" => LET c == Head(tasks) IN
       buf = c.name /\ buf2 = c.to /\ int1 = IntStored(c)

ResultsOK ==
  /\ error \in BOOLEAN /\ ignored \in BOOLEAN /\ overtaken \in BOOLEAN
  /\ stat \in Entries \cup {NoEntry}
  /\ list \subseteq Names \X Entries /\ IsFiniteSet(list)
  /\ allocs \in Nat /\ Held <= allocs
  /\ req = "queued" => list = {}

\* m_stat is set between the worker's stat and the end of onStat only.
StatHeld ==
  ~overtaken /\ stat # NoEntry
    => frame = "onStat" \/ (req = "returned" /\ Head(tasks).cmd = "stat")

\* An operation that has returned without an error has done what it is for.
ReturnedDone ==
  req = "returned" /\ ~error => LET c == Head(tasks) IN
    /\ c.cmd = "rename" => ~Exists(c.name) /\ Exists(c.to)
    /\ c.cmd = "chmod" => fs[c.name].mode = ModeGiven(c.mode)
    /\ c.cmd = "mkdir" => Exists(c.name)
    /\ c.cmd \in {"unlink", "rmdir"} => ~Exists(c.name) \/ ignored
    /\ c.cmd = "listDir" => list = {<<n, fs[n]>> : n \in Existing}
    /\ c.cmd = "stat" /\ ~overtaken => frame = "none" /\ stat = fs[c.name]

IInv ==
  /\ DirectoryOK /\ QueueOK /\ ArgsOK /\ ResultsOK
  /\ StatHeld
  /\ ReturnedDone
  /\ AttributesReachable

-----------------------------------------------------------------------------

\* What a command holds, by its kind.
LEMMA CommandFacts ==
  ASSUME NEW c \in Commands
  PROVE  /\ c.cmd \in Kinds
         /\ c.cmd \in {"stat", "unlink", "rmdir", "listDir", "rename", "mkdir", "chmod", "chown"}
         /\ c.name \in Names \cup {NoName} /\ c.to \in Names \cup {NoName}
         /\ c.cmd # "listDir" => c.name \in Names
         /\ c.cmd = "rename" => c.to \in Names
         /\ c.cmd \in {"mkdir", "chmod"} => c.mode \in GivenModes
         /\ c.cmd = "chown" => c.gid \in Ids
<1>1. c.cmd \in Kinds
  BY DEF Commands
<1>2. CASE c \in {Command(k, n, NoName, NoMode, SomeId, SomeId) :
                    k \in {"stat", "unlink", "rmdir"}, n \in Names}
  <2>1. PICK k \in {"stat", "unlink", "rmdir"}, n \in Names :
          c = Command(k, n, NoName, NoMode, SomeId, SomeId)
    BY <1>2
  <2>2. c.cmd = k /\ c.name = n /\ c.to = NoName
    BY <2>1 DEF Command
  <2> QED
    BY <1>1, <2>2
<1>3. CASE c = Command("listDir", NoName, NoName, NoMode, SomeId, SomeId)
  BY <1>1, <1>3 DEF Command
<1>4. CASE c \in {Command("rename", n, t, NoMode, SomeId, SomeId) : n \in Names, t \in Names}
  <2>1. PICK n \in Names, t \in Names : c = Command("rename", n, t, NoMode, SomeId, SomeId)
    BY <1>4
  <2>2. c.cmd = "rename" /\ c.name = n /\ c.to = t
    BY <2>1 DEF Command
  <2> QED
    BY <1>1, <2>2
<1>5. CASE c \in {Command(k, n, NoName, m, SomeId, SomeId) :
                    k \in {"mkdir", "chmod"}, n \in Names, m \in GivenModes}
  <2>1. PICK k \in {"mkdir", "chmod"}, n \in Names, m \in GivenModes :
          c = Command(k, n, NoName, m, SomeId, SomeId)
    BY <1>5
  <2>2. c.cmd = k /\ c.name = n /\ c.to = NoName /\ c.mode = m
    BY <2>1 DEF Command
  <2> QED
    BY <1>1, <2>2
<1>6. CASE c \in {Command("chown", n, NoName, NoMode, u, g) : n \in Names, u \in Ids, g \in Ids}
  <2>1. PICK n \in Names, u \in Ids, g \in Ids : c = Command("chown", n, NoName, NoMode, u, g)
    BY <1>6
  <2>2. c.cmd = "chown" /\ c.name = n /\ c.to = NoName /\ c.gid = g
    BY <2>1 DEF Command
  <2> QED
    BY <1>1, <2>2
<1> QED
  BY <1>2, <1>3, <1>4, <1>5, <1>6 DEF Commands

LEMMA ModeFacts ==
  ASSUME NEW m \in GivenModes
  PROVE  ModeGiven(m) \in Nat /\ ModeGiven(m) \in Modes
BY ModesAssumption DEF ModeGiven, Octal, Modes

\* The only modes that are not read as documented are strings of two digits.
LEMMA OnlyStringsMisread ==
  ASSUME NEW m \in GivenModes
  PROVE  ModeGiven(m) = Octal(m) \/ Misread(m)
BY ModesAssumption DEF ModeGiven, Octal, Misread

LEMMA SomeIdInIds == SomeId \in Ids
BY IdsAssumption DEF SomeId

LEMMA EntryExists ==
  ASSUME DirectoryOK, NEW n \in Names
  PROVE  /\ fs[n] \in Entries \cup {NoEntry}
         /\ Exists(n) <=> fs[n] \in Entries
         /\ NoEntry \notin Entries
BY DEF DirectoryOK, Exists, Entries, NoEntry

LEMMA InitIInv == Init => IInv
<1> SUFFICES ASSUME Init PROVE IInv
  OBVIOUS
<1>1. ASSUME NEW k \in {"file", "dir"}
      PROVE  [kind |-> k, mode |-> 0, uid |-> SomeId, gid |-> SomeId] \in Entries
  BY SomeIdInIds DEF Entries, Modes
<1>2. DirectoryOK
  BY <1>1 DEF Init, DirectoryOK
<1>3. QueueOK
  BY EmptySeq, BoundsAssumption DEF Init, QueueOK
<1>4. ArgsOK
  BY DEF Init, ArgsOK
<1>5. list = {} /\ IsFiniteSet(list) /\ Cardinality(list) = 0
  BY FS_EmptySet DEF Init
<1>6. ResultsOK /\ AttributesReachable
  <2>1. stat = NoEntry /\ allocs = 0 /\ Held = 0
    BY <1>5 DEF Init, Held
  <2>2. error \in BOOLEAN /\ ignored \in BOOLEAN /\ overtaken \in BOOLEAN
    BY DEF Init
  <2>3. AttributesReachable
    BY <2>1 DEF AttributesReachable, Held
  <2> QED
    BY <1>5, <2>1, <2>2, <2>3 DEF ResultsOK
<1>7. StatHeld /\ ReturnedDone
  BY DEF Init, StatHeld, ReturnedDone
<1> QED
  BY <1>2, <1>3, <1>4, <1>6, <1>7 DEF IInv

-----------------------------------------------------------------------------
(* Starting an operation.                                                  *)

\* resetData frees what the listing holds and nothing else.
LEMMA StartNativeStep ==
  ASSUME IInv, NEW c \in Commands, StartNative(c)
  PROVE  /\ list' = {} /\ allocs' = allocs - Cardinality(list) /\ stat' = stat
         /\ IsFiniteSet(list') /\ allocs' \in Nat
         /\ Held' <= allocs' /\ (Held = allocs => Held' = allocs')
         /\ req' = "queued"
         /\ buf' = c.name /\ buf2' = c.to /\ int1' = IntStored(c)
         /\ IntStored(c)' = int1'
         /\ buf' \in Names \cup {NoName} /\ buf2' \in Names \cup {NoName}
         /\ int1' \in Nat /\ int2' \in Ids
         /\ error' = FALSE /\ ignored' = FALSE
<1>1. /\ list' = {} /\ allocs' = allocs - Cardinality(list) /\ stat' = stat
      /\ req' = "queued" /\ error' = FALSE /\ ignored' = FALSE
      /\ buf' = c.name /\ buf2' = c.to /\ int1' = IntStored(c) /\ int2' = int2
  BY DEF StartNative, ResetList
<1>2. /\ IsFiniteSet(list) /\ Cardinality(list) \in Nat /\ allocs \in Nat /\ Held <= allocs
  BY FS_CardinalityType DEF IInv, ResultsOK
<1>3. IsFiniteSet(list') /\ Cardinality(list') = 0
  BY <1>1, FS_EmptySet
<1>4. /\ allocs' \in Nat /\ Held' <= allocs' /\ (Held = allocs => Held' = allocs')
  BY <1>1, <1>2, <1>3 DEF Held
<1>5. int1' \in Nat /\ IntStored(c)' = int1'
  <2>1. CASE c.cmd \in {"mkdir", "chmod"}
    BY <1>1, <2>1, CommandFacts, ModeFacts DEF IntStored
  <2>2. CASE c.cmd = "chown"
    BY <1>1, <2>2, CommandFacts, IdsAssumption DEF IntStored
  <2>3. CASE c.cmd \notin {"mkdir", "chmod", "chown"}
    BY <1>1, <2>3 DEF IntStored, IInv, ArgsOK
  <2> QED
    BY <2>1, <2>2, <2>3
<1>6. buf' \in Names \cup {NoName} /\ buf2' \in Names \cup {NoName}
  BY <1>1, CommandFacts
<1>7. int2' \in Ids
  BY <1>1 DEF IInv, ArgsOK
<1> QED
  BY <1>1, <1>3, <1>4, <1>5, <1>6, <1>7

\* The next command c is started: what holds of the queue and the directory is
\* shown by the caller.
LEMMA StartedStep ==
  ASSUME IInv, NEW c \in Commands, StartNative(c),
         tasks' # <<>>, Head(tasks') = c,
         DirectoryOK', QueueOK', overtaken' = overtaken,
         ~overtaken /\ stat # NoEntry => frame' = "onStat"
  PROVE  IInv'
<1>1. /\ list' = {} /\ stat' = stat
      /\ IsFiniteSet(list') /\ allocs' \in Nat
      /\ Held' <= allocs' /\ (Held = allocs => Held' = allocs')
      /\ req' = "queued"
      /\ buf' = c.name /\ buf2' = c.to /\ IntStored(c)' = int1'
      /\ buf' \in Names \cup {NoName} /\ buf2' \in Names \cup {NoName}
      /\ int1' \in Nat /\ int2' \in Ids
      /\ error' = FALSE /\ ignored' = FALSE
  BY StartNativeStep
<1>2. ArgsOK'
  BY <1>1 DEF ArgsOK
<1>3. ResultsOK'
  <2>1. error' \in BOOLEAN /\ ignored' \in BOOLEAN /\ overtaken' \in BOOLEAN
    BY <1>1 DEF IInv, ResultsOK
  <2>2. stat' \in Entries \cup {NoEntry}
    BY <1>1 DEF IInv, ResultsOK
  <2> QED
    BY <1>1, <2>1, <2>2 DEF ResultsOK
<1>4. StatHeld'
  BY <1>1 DEF StatHeld
<1>5. ReturnedDone'
  BY <1>1 DEF ReturnedDone
<1>6. AttributesReachable'
  <2>1. overtaken \/ Held = allocs
    BY DEF IInv, AttributesReachable, Held
  <2>2. overtaken' \/ Held' = allocs'
    BY <1>1, <2>1
  <2> QED
    BY <2>2 DEF AttributesReachable, Held
<1> QED
  BY <1>2, <1>3, <1>4, <1>5, <1>6 DEF IInv

LEMMA CallStep ==
  ASSUME IInv, NEW c \in Commands, Call(c)
  PROVE  IInv'
<1>1. /\ calls < MaxCalls /\ calls' = calls + 1
      /\ UNCHANGED <<fs, stats, frame, overtaken>>
  BY DEF Call
<1>2. /\ tasks \in Seq(Commands) /\ Len(tasks) \in Nat /\ calls \in 0..MaxCalls /\ answers \in Nat
      /\ answers + Len(tasks) <= calls /\ MaxCalls \in Nat
  BY BoundsAssumption DEF IInv, QueueOK
<1>3. DirectoryOK'
  BY <1>1 DEF IInv, DirectoryOK
<1>4. CASE AnswerFromCache(c)
  <2>1. /\ answers' = answers + 1
        /\ UNCHANGED <<tasks, req, buf, buf2, int1, int2, error, stat, list, allocs, ignored>>
    BY <1>4 DEF AnswerFromCache, args, results
  <2>2. QueueOK'
    BY <1>1, <1>2, <2>1 DEF IInv, QueueOK
  <2>3. ArgsOK' /\ ResultsOK' /\ StatHeld' /\ AttributesReachable'
    BY <1>1, <2>1 DEF IInv, ArgsOK, IntStored, ResultsOK, Held, StatHeld, AttributesReachable
  <2>4. ReturnedDone'
    BY <1>1, <2>1 DEF IInv, ReturnedDone, Exists, Existing
  <2> QED
    BY <1>3, <2>2, <2>3, <2>4 DEF IInv
<1>5. CASE AddCommand(c)
  <2>1. /\ tasks' = Append(tasks, c) /\ answers' = answers
        /\ IF tasks = <<>> THEN ExecuteNext(tasks') ELSE UNCHANGED <<req, args, results>>
    BY <1>5 DEF AddCommand
  <2>2. /\ tasks' \in Seq(Commands) /\ Len(tasks') = Len(tasks) + 1 /\ tasks' # <<>>
        /\ Head(tasks') = IF tasks = <<>> THEN c ELSE Head(tasks)
    BY <1>2, <2>1
  <2>3. CASE tasks = <<>>
    <3>1. StartNative(c)
      BY <2>1, <2>2, <2>3 DEF ExecuteNext
    <3>2. req' = "queued"
      BY <3>1 DEF StartNative
    <3>3. QueueOK'
      BY <1>1, <1>2, <2>1, <2>2, <3>2 DEF IInv, QueueOK
    <3>4. ~overtaken /\ stat # NoEntry => frame' = "onStat"
      BY <1>1, <2>3 DEF IInv, QueueOK, StatHeld
    <3> QED
      BY <1>1, <1>3, <2>2, <2>3, <3>1, <3>3, <3>4, StartedStep
  <2>4. CASE tasks # <<>>
    <3>1. /\ UNCHANGED <<req, buf, buf2, int1, int2, error, stat, list, allocs, ignored>>
          /\ Head(tasks') = Head(tasks)
      BY <2>1, <2>2, <2>4 DEF args, results
    <3>2. QueueOK'
      BY <1>1, <1>2, <2>1, <2>2, <2>4, <3>1 DEF IInv, QueueOK
    <3>3. ArgsOK' /\ ResultsOK' /\ StatHeld' /\ AttributesReachable'
      BY <1>1, <3>1 DEF IInv, ArgsOK, IntStored, ResultsOK, Held, StatHeld, AttributesReachable
    <3>4. ReturnedDone'
      BY <1>1, <3>1 DEF IInv, ReturnedDone, Exists, Existing
    <3> QED
      BY <1>3, <3>2, <3>3, <3>4 DEF IInv
  <2> QED
    BY <2>3, <2>4
<1> QED
  BY <1>4, <1>5 DEF Call

LEMMA CallbackStep ==
  ASSUME IInv, Callback
  PROVE  IInv'
<1>1. /\ req = "returned" /\ frame = "none" /\ answers' = answers + 1
      /\ tasks' = Tail(tasks) /\ ExecuteNext(tasks')
      /\ stats' = IF Head(tasks).cmd = "listDir" THEN CacheAfterList ELSE stats
      /\ frame' = IF Head(tasks).cmd = "stat" THEN "onStat" ELSE "none"
      /\ UNCHANGED <<fs, calls, overtaken>>
  BY DEF Callback
<1>2. /\ tasks \in Seq(Commands) /\ tasks # <<>> /\ Len(tasks) \in Nat
      /\ calls \in 0..MaxCalls /\ answers \in Nat /\ answers + Len(tasks) <= calls
  BY <1>1 DEF IInv, QueueOK
<1>3. /\ tasks' \in Seq(Commands) /\ Len(tasks') = Len(tasks) - 1
      /\ tasks' # <<>> => Head(tasks') \in Commands
  BY <1>1, <1>2
<1>4. DirectoryOK'
  <2>1. ASSUME NEW n \in Names, \E e \in list : e[1] = n
        PROVE  (CHOOSE e \in list : e[1] = n)[2] \in Entries
    BY <2>1 DEF IInv, ResultsOK
  <2>2. CacheAfterList \in [Names -> Entries \cup {NoEntry}]
    BY <2>1 DEF CacheAfterList, IInv, DirectoryOK
  <2> QED
    BY <1>1, <2>2 DEF IInv, DirectoryOK
<1>5. ~overtaken /\ stat # NoEntry => frame' = "onStat"
  BY <1>1 DEF IInv, StatHeld
<1>6. CASE tasks' = <<>>
  <2>1. /\ req' = "none"
        /\ UNCHANGED <<buf, buf2, int1, int2, error, stat, list, allocs, ignored>>
    BY <1>1, <1>6 DEF ExecuteNext, args, results
  <2>2. QueueOK'
    BY <1>1, <1>2, <1>3, <1>6, <2>1 DEF IInv, QueueOK
  <2>3. ArgsOK' /\ ResultsOK' /\ StatHeld' /\ AttributesReachable'
    BY <1>1, <1>5, <2>1 DEF IInv, ArgsOK, ResultsOK, Held, StatHeld, AttributesReachable
  <2>4. ReturnedDone'
    BY <2>1 DEF ReturnedDone
  <2> QED
    BY <1>4, <2>2, <2>3, <2>4 DEF IInv
<1>7. CASE tasks' # <<>>
  <2>1. PICK c \in Commands : c = Head(tasks')
    BY <1>3, <1>7
  <2>2. StartNative(c)
    BY <1>1, <1>7, <2>1 DEF ExecuteNext
  <2>3. req' = "queued"
    BY <2>2 DEF StartNative
  <2>4. QueueOK'
    BY <1>1, <1>2, <1>3, <1>7, <2>3 DEF QueueOK
  <2> QED
    BY <1>1, <1>4, <1>5, <1>7, <2>1, <2>2, <2>4, StartedStep
<1> QED
  BY <1>6, <1>7

LEMMA OnStatReturnsStep ==
  ASSUME IInv, OnStatReturns
  PROVE  IInv'
<1>1. /\ frame = "onStat" /\ frame' = "none" /\ stat' = NoEntry
      /\ allocs' = IF stat = NoEntry THEN allocs ELSE allocs - 1
      /\ UNCHANGED <<fs, tasks, stats, req, buf, buf2, int1, int2, error, list, ignored, calls,
                     answers, overtaken>>
  BY DEF OnStatReturns, FreeStat, args
<1>2. DirectoryOK' /\ QueueOK'
  BY <1>1 DEF IInv, DirectoryOK, QueueOK
<1>3. ArgsOK'
  BY <1>1 DEF IInv, ArgsOK, IntStored
<1>4. Cardinality(list) \in Nat /\ allocs \in Nat /\ Held <= allocs
  BY FS_CardinalityType DEF IInv, ResultsOK
<1>5. allocs' \in Nat /\ Held' <= allocs' /\ (Held = allocs => Held' = allocs')
  BY <1>1, <1>4 DEF Held
<1>6. ResultsOK'
  BY <1>1, <1>5 DEF IInv, ResultsOK
<1>7. AttributesReachable'
  <2>1. overtaken \/ Held = allocs
    BY DEF IInv, AttributesReachable, Held
  <2>2. overtaken' \/ Held' = allocs'
    BY <1>1, <1>5, <2>1
  <2> QED
    BY <2>2 DEF AttributesReachable, Held
<1>8. StatHeld'
  BY <1>1 DEF StatHeld
<1>9. ReturnedDone'
  BY <1>1 DEF IInv, ReturnedDone, Exists, Existing
<1> QED
  BY <1>2, <1>3, <1>6, <1>7, <1>8, <1>9 DEF IInv

-----------------------------------------------------------------------------
(* The worker.                                                             *)

\* What a worker finds, and what it leaves alone whatever it executes.
LEMMA WorkerFacts ==
  ASSUME IInv, Worker, NEW c \in Commands, c = Head(tasks)
  PROVE  /\ req = "queued" /\ req' = "returned" /\ Head(tasks') = c
         /\ UNCHANGED <<tasks, stats, frame, buf, buf2, int1, int2, calls, answers>>
         /\ buf = c.name /\ buf2 = c.to /\ int1 = IntStored(c)
         /\ list = {} /\ Cardinality(list) = 0
         /\ overtaken' \in BOOLEAN
         /\ overtaken' <=> overtaken \/ (frame = "onStat" /\ c.cmd = "stat")
         /\ CASE c.cmd = "stat" -> Stat [] c.cmd = "listDir" -> ListDir [] OTHER -> Modify(c.cmd)
         /\ QueueOK' /\ ArgsOK'
<1>1. /\ req = "queued" /\ req' = "returned"
      /\ UNCHANGED <<tasks, stats, frame, buf, buf2, int1, int2, calls, answers>>
      /\ CASE c.cmd = "stat" -> Stat [] c.cmd = "listDir" -> ListDir [] OTHER -> Modify(c.cmd)
  BY DEF Worker, args
<1>2. overtaken' = (overtaken \/ (frame = "onStat" /\ c.cmd = "stat"))
  BY DEF Worker
<1>3. overtaken \in BOOLEAN /\ list = {}
  BY <1>1 DEF IInv, ResultsOK
<1>4. overtaken' \in BOOLEAN /\ (overtaken' <=> overtaken \/ (frame = "onStat" /\ c.cmd = "stat"))
  BY <1>2, <1>3
<1>5. Cardinality(list) = 0
  BY <1>3, FS_EmptySet
<1>6. buf = c.name /\ buf2 = c.to /\ int1 = IntStored(c)
  BY <1>1 DEF IInv, ArgsOK
<1>7. QueueOK'
  BY <1>1 DEF IInv, QueueOK
<1>8. ArgsOK'
  BY <1>1 DEF IInv, ArgsOK, IntStored
<1> QED
  BY <1>1, <1>3, <1>4, <1>5, <1>6, <1>7, <1>8

LEMMA StatStep ==
  ASSUME IInv, Worker, Head(tasks).cmd = "stat"
  PROVE  IInv'
<1>1. PICK c \in Commands : c = Head(tasks)
  BY DEF Worker, IInv, QueueOK
<1>2. /\ req = "queued" /\ req' = "returned" /\ Head(tasks') = c
      /\ UNCHANGED <<stats, frame>>
      /\ buf = c.name /\ list = {} /\ Cardinality(list) = 0
      /\ overtaken' \in BOOLEAN
      /\ overtaken' <=> overtaken \/ frame = "onStat"
      /\ Stat
      /\ QueueOK' /\ ArgsOK'
  BY <1>1, WorkerFacts
<1>3. c.cmd = "stat" /\ c.name \in Names
  BY <1>1, CommandFacts
<1>4. UNCHANGED <<fs, list, ignored>> /\ error' \in BOOLEAN
  BY <1>2 DEF Stat
<1>5. \/ Exists(buf) /\ stat' = fs[buf] /\ allocs' = allocs + 1
      \/ stat' = NoEntry /\ allocs' = allocs
  BY <1>2 DEF Stat
<1>6. ~error' => Exists(buf) /\ stat' = fs[buf]
  BY <1>2 DEF Stat
<1>7. fs[buf] \in Entries \cup {NoEntry}
  BY <1>2, <1>3, EntryExists DEF IInv
<1>8. DirectoryOK'
  BY <1>2, <1>4 DEF IInv, DirectoryOK
<1>9. allocs \in Nat /\ Held <= allocs /\ Cardinality(list') = 0
  BY <1>2, <1>4 DEF IInv, ResultsOK
<1>10. allocs' \in Nat /\ Held' <= allocs'
  BY <1>5, <1>9, <1>2 DEF Held
<1>11. stat' \in Entries \cup {NoEntry}
  BY <1>5, <1>7
<1>12. ResultsOK'
  BY <1>2, <1>4, <1>10, <1>11 DEF IInv, ResultsOK
<1>13. ~overtaken' => frame = "none" /\ stat = NoEntry /\ allocs = 0
  <2>1. frame \in {"none", "onStat"}
    BY DEF IInv, QueueOK
  <2>2. ~overtaken' => frame = "none" /\ stat = NoEntry
    BY <1>2, <2>1 DEF IInv, StatHeld
  <2> QED
    BY <1>2, <2>2 DEF IInv, AttributesReachable
<1>14. AttributesReachable'
  <2>1. fs[buf] # NoEntry <=> Exists(buf)
    BY DEF Exists
  <2>2. ~overtaken' => allocs' = IF stat' = NoEntry THEN 0 ELSE 1
    BY <1>5, <1>13, <2>1
  <2> QED
    BY <1>9, <2>2 DEF AttributesReachable
<1>15. StatHeld'
  BY <1>1, <1>2, <1>3 DEF StatHeld
<1>16. ReturnedDone'
  <2> SUFFICES ASSUME ~error', ~overtaken'
               PROVE  frame' = "none" /\ stat' = fs'[c.name]
    BY <1>2, <1>3 DEF ReturnedDone
  <2> QED
    BY <1>2, <1>4, <1>6, <1>13
<1> QED
  BY <1>2, <1>8, <1>12, <1>14, <1>15, <1>16 DEF IInv

\* libssh allocates attributes for each entry that it lists.
LEMMA EntriesListed ==
  ASSUME IInv, NEW ns \in SUBSET Names
  PROVE  LET T == {<<n, fs[n]>> : n \in ns} IN
         IsFiniteSet(T) /\ Cardinality(T) = Cardinality(ns) /\ Cardinality(ns) \in Nat
<1> DEFINE T == {<<n, fs[n]>> : n \in ns}
           f == [n \in ns |-> <<n, fs[n]>>]
<1>1. IsFiniteSet(ns) /\ Cardinality(ns) \in Nat
  BY NamesAssumption, FS_Subset, FS_CardinalityType
<1>2. f \in Bijection(ns, T)
  <2>1. f \in [ns -> T]
    OBVIOUS
  <2>2. \A a, b \in ns : f[a] = f[b] => a = b
    OBVIOUS
  <2>3. \A t \in T : \E a \in ns : f[a] = t
    OBVIOUS
  <2> QED
    BY <2>1, <2>2, <2>3 DEF Bijection, Injection, IsInjective, Surjection
<1>3. ExistsBijection(ns, T)
  BY <1>2 DEF ExistsBijection
<1> QED
  BY <1>1, <1>3, FS_Bijection

LEMMA ListDirStep ==
  ASSUME IInv, Worker, Head(tasks).cmd = "listDir"
  PROVE  IInv'
<1>1. PICK c \in Commands : c = Head(tasks)
  BY DEF Worker, IInv, QueueOK
<1>2. /\ req = "queued" /\ req' = "returned" /\ Head(tasks') = c
      /\ UNCHANGED <<stats, frame>>
      /\ list = {} /\ Cardinality(list) = 0
      /\ overtaken' \in BOOLEAN /\ (overtaken' <=> overtaken)
      /\ ListDir
      /\ QueueOK' /\ ArgsOK'
  BY <1>1, WorkerFacts
<1>3. UNCHANGED <<fs, stat, ignored>>
  BY <1>2 DEF ListDir
<1>4. PICK ns \in SUBSET Existing :
        /\ list' = list \cup {<<n, fs[n]>> : n \in ns}
        /\ allocs' = allocs + Cardinality(ns)
        /\ error' = TRUE \/ (ns = Existing /\ error' = FALSE)
  BY <1>2 DEF ListDir, Existing
<1>5. ns \in SUBSET Names /\ list' = {<<n, fs[n]>> : n \in ns}
  BY <1>2, <1>4 DEF Existing
<1>6. IsFiniteSet(list') /\ Cardinality(list') = Cardinality(ns) /\ Cardinality(ns) \in Nat
  BY <1>5, EntriesListed
<1>7. list' \subseteq Names \X Entries
  <2>1. \A n \in ns : n \in Names /\ fs[n] \in Entries
    BY <1>4, EntryExists DEF Existing, IInv
  <2> QED
    BY <1>5, <2>1
<1>8. DirectoryOK'
  BY <1>2, <1>3 DEF IInv, DirectoryOK
<1>9. allocs \in Nat /\ Held <= allocs /\ (overtaken \/ Held = allocs)
  BY DEF IInv, ResultsOK, AttributesReachable, Held
<1>10. allocs' \in Nat /\ Held' <= allocs' /\ (Held = allocs => Held' = allocs')
  BY <1>2, <1>3, <1>4, <1>6, <1>9 DEF Held
<1>11. error' \in BOOLEAN
  BY <1>4
<1>12. ResultsOK'
  BY <1>2, <1>3, <1>6, <1>7, <1>10, <1>11 DEF IInv, ResultsOK
<1>13. AttributesReachable'
  <2>1. overtaken' \/ Held' = allocs'
    BY <1>2, <1>9, <1>10
  <2> QED
    BY <2>1 DEF AttributesReachable, Held
<1>14. StatHeld'
  BY <1>2, <1>3 DEF IInv, StatHeld
<1>15. ReturnedDone'
  <2> SUFFICES ASSUME ~error'
               PROVE  list' = {<<n, fs'[n]>> : n \in Existing'}
    BY <1>1, <1>2 DEF ReturnedDone
  <2>1. ns = Existing
    BY <1>4
  <2>2. Existing' = Existing
    BY <1>3 DEF Existing, Exists
  <2> QED
    BY <1>3, <1>5, <2>1, <2>2
<1> QED
  BY <1>2, <1>8, <1>12, <1>13, <1>14, <1>15 DEF IInv

\* The directory after an operation that changes it.
LEMMA EffectTyped ==
  ASSUME IInv, NEW c \in Commands, c.cmd \notin {"stat", "listDir"}, Possible(c.cmd),
         buf = c.name, buf2 = c.to, int1 = IntStored(c)
  PROVE  Effect(c.cmd) \in [Names -> Entries \cup {NoEntry}]
<1>1. fs \in [Names -> Entries \cup {NoEntry}] /\ buf \in Names
  BY CommandFacts DEF IInv, DirectoryOK
<1>2. CASE c.cmd = "mkdir"
  <2>1. [kind |-> "dir", mode |-> RWXU, uid |-> SomeId, gid |-> SomeId] \in Entries
    BY SomeIdInIds DEF Entries, Modes
  <2> QED
    BY <1>1, <1>2, <2>1 DEF Effect
<1>3. CASE c.cmd = "rename"
  BY <1>1, <1>3 DEF Effect
<1>4. CASE c.cmd \in {"unlink", "rmdir"}
  BY <1>1, <1>4 DEF Effect
<1>5. CASE c.cmd = "chmod"
  <2>1. int1 \in Modes /\ fs[buf] \in Entries
    BY <1>1, <1>5, CommandFacts, ModeFacts, EntryExists DEF IntStored, Possible, IInv
  <2>2. [fs[buf] EXCEPT !.mode = int1] \in Entries
    BY <2>1 DEF Entries
  <2>3. Effect(c.cmd) = [fs EXCEPT ![buf] = [fs[buf] EXCEPT !.mode = int1]]
    BY <1>5 DEF Effect
  <2> QED
    BY <1>1, <2>2, <2>3
<1>6. CASE c.cmd = "chown"
  <2>1. int1 \in Ids /\ int2 \in Ids /\ fs[buf] \in Entries
    BY <1>1, <1>6, CommandFacts, EntryExists DEF IntStored, Possible, IInv, ArgsOK
  <2>2. [fs[buf] EXCEPT !.uid = int1, !.gid = int2] \in Entries
    BY <2>1 DEF Entries
  <2>3. Effect(c.cmd) = [fs EXCEPT ![buf] = [fs[buf] EXCEPT !.uid = int1, !.gid = int2]]
    BY <1>1, <1>6 DEF Effect
  <2> QED
    BY <1>1, <2>2, <2>3
<1> QED
  BY <1>2, <1>3, <1>4, <1>5, <1>6, CommandFacts

\* What the directory is after an operation that the server has executed.
LEMMA EffectDone ==
  ASSUME IInv, NEW c \in Commands, c.cmd \notin {"stat", "listDir"}, Possible(c.cmd),
         buf = c.name, buf2 = c.to, int1 = IntStored(c), fs' = Effect(c.cmd)
  PROVE  /\ c.cmd = "rename" => fs'[c.name] = NoEntry /\ fs'[c.to] # NoEntry
         /\ c.cmd = "chmod" => fs'[c.name].mode = ModeGiven(c.mode)
         /\ c.cmd = "mkdir" => fs'[c.name] # NoEntry
         /\ c.cmd \in {"unlink", "rmdir"} => fs'[c.name] = NoEntry
<1>1. fs \in [Names -> Entries \cup {NoEntry}] /\ buf \in Names
      /\ (c.cmd = "rename" => buf2 \in Names)
  BY CommandFacts DEF IInv, DirectoryOK
<1>2. CASE c.cmd = "mkdir"
  BY <1>1, <1>2 DEF Effect, NoEntry
<1>3. CASE c.cmd = "rename"
  BY <1>1, <1>3 DEF Effect, Possible, Exists
<1>4. CASE c.cmd \in {"unlink", "rmdir"}
  BY <1>1, <1>4 DEF Effect
<1>5. CASE c.cmd = "chmod"
  <2>1. fs[buf] \in Entries
    BY <1>1, <1>5, EntryExists DEF Possible, IInv
  <2>2. fs' = [fs EXCEPT ![buf] = [fs[buf] EXCEPT !.mode = int1]]
    BY <1>5 DEF Effect
  <2>3. fs'[buf].mode = int1
    BY <1>1, <2>1, <2>2 DEF Entries
  <2> QED
    BY <1>5, <2>3 DEF IntStored
<1>6. CASE c.cmd = "chown"
  BY <1>6
<1> QED
  BY <1>2, <1>3, <1>4, <1>5, <1>6, CommandFacts

LEMMA ModifyStep ==
  ASSUME IInv, Worker, Head(tasks).cmd \notin {"stat", "listDir"}
  PROVE  IInv'
<1>1. PICK c \in Commands : c = Head(tasks)
  BY DEF Worker, IInv, QueueOK
<1>2. /\ req = "queued" /\ req' = "returned" /\ Head(tasks') = c
      /\ UNCHANGED <<stats, frame>>
      /\ buf = c.name /\ buf2 = c.to /\ int1 = IntStored(c)
      /\ list = {} /\ overtaken' \in BOOLEAN /\ (overtaken' <=> overtaken)
      /\ Modify(c.cmd)
      /\ QueueOK' /\ ArgsOK'
  BY <1>1, WorkerFacts
<1>3. c.cmd \notin {"stat", "listDir"}
  BY <1>1
<1>4. /\ UNCHANGED <<stat, list, allocs>>
      /\ \/ Possible(c.cmd) /\ fs' = Effect(c.cmd)
         \/ fs' = fs
  BY <1>2 DEF Modify
<1>5. error' \in BOOLEAN /\ ignored' \in BOOLEAN
  <2>1. \/ error' \in BOOLEAN /\ ignored' = FALSE
        \/ error' = TRUE /\ ignored' = FALSE
        \/ ignored' = IgnoresExists(c.cmd) /\ error' = ~ignored'
    BY <1>2 DEF Modify
  <2>2. IgnoresExists(c.cmd) \in BOOLEAN
    BY DEF IgnoresExists
  <2>3. CASE error' \in BOOLEAN /\ ignored' = FALSE
    BY <2>3
  <2>4. CASE ignored' = IgnoresExists(c.cmd) /\ error' = ~ignored'
    BY <2>2, <2>4, Zenon
  <2> QED
    BY <2>1, <2>3, <2>4
<1>6. DirectoryOK'
  BY <1>2, <1>3, <1>4, EffectTyped DEF IInv, DirectoryOK
<1>7. ResultsOK'
  BY <1>2, <1>4, <1>5 DEF IInv, ResultsOK, Held
<1>8. StatHeld' /\ AttributesReachable'
  BY <1>2, <1>4 DEF IInv, StatHeld, AttributesReachable
<1>9. ReturnedDone'
  <2> SUFFICES ASSUME ~error'
               PROVE  /\ c.cmd = "rename" => fs'[c.name] = NoEntry /\ fs'[c.to] # NoEntry
                      /\ c.cmd = "chmod" => fs'[c.name].mode = ModeGiven(c.mode)
                      /\ c.cmd = "mkdir" => fs'[c.name] # NoEntry
                      /\ c.cmd \in {"unlink", "rmdir"} => fs'[c.name] = NoEntry \/ ignored'
    BY <1>2, <1>3 DEF ReturnedDone, Exists
  <2>1. CASE Possible(c.cmd) /\ fs' = Effect(c.cmd)
    BY <1>2, <1>3, <2>1, EffectDone
  <2>2. CASE /\ c.cmd = "mkdir" => Exists(buf)
             /\ fs' = fs /\ ignored' = IgnoresExists(c.cmd) /\ error' = ~ignored'
    <3>1. ignored' /\ c.cmd \in {"mkdir", "unlink", "rmdir"}
      BY <2>2 DEF IgnoresExists
    <3> QED
      BY <1>2, <2>2, <3>1 DEF Exists
  <2> QED
    BY <1>2, <2>1, <2>2 DEF Modify
<1> QED
  BY <1>2, <1>6, <1>7, <1>8, <1>9 DEF IInv

-----------------------------------------------------------------------------

LEMMA NextIInv == IInv /\ [Next]_vars => IInv'
<1> SUFFICES ASSUME IInv, [Next]_vars PROVE IInv'
  OBVIOUS
<1>1. CASE UNCHANGED vars \/ Done
  <2>1. UNCHANGED <<fs, tasks, stats, req, frame, buf, buf2, int1, int2, error, stat, list,
                    allocs, ignored, calls, answers, overtaken>>
    BY <1>1 DEF Done, vars, args, results
  <2>2. DirectoryOK' /\ QueueOK' /\ ArgsOK' /\ ResultsOK'
    BY <2>1 DEF IInv, DirectoryOK, QueueOK, ArgsOK, IntStored, ResultsOK, Held
  <2>3. StatHeld' /\ ReturnedDone' /\ AttributesReachable'
    BY <2>1 DEF IInv, StatHeld, ReturnedDone, Exists, Existing, AttributesReachable
  <2> QED
    BY <2>2, <2>3 DEF IInv
<1>2. ASSUME NEW c \in Commands, Call(c) PROVE IInv'
  BY <1>2, CallStep
<1>3. CASE Worker
  BY <1>3, StatStep, ListDirStep, ModifyStep
<1>4. CASE Callback
  BY <1>4, CallbackStep
<1>5. CASE OnStatReturns
  BY <1>5, OnStatReturnsStep
<1> QED
  BY <1>1, <1>2, <1>3, <1>4, <1>5 DEF Next

\* What is emitted to a callback that gets no error.
LEMMA Emitted ==
  ASSUME IInv, [Next]_vars, NEW k, k \in {"rename", "chmod", "mkdir", "unlink", "rmdir", "listDir"},
         NoError(k)
  PROVE  /\ Callback /\ req = "returned" /\ ~error
         /\ answer'.to = Head(tasks) /\ Head(tasks).cmd = k
<1>1. answers' # answers /\ answer'.to.cmd = k /\ ~answer'.error
  BY DEF NoError, Answered
<1>2. ~UNCHANGED vars /\ ~Worker /\ ~OnStatReturns /\ ~Done
  BY <1>1 DEF vars, Worker, OnStatReturns, Done
<1>3. ASSUME NEW c \in Commands, Call(c) PROVE FALSE
  <2>1. AnswerFromCache(c) /\ c.cmd = "stat"
    BY <1>1, <1>3 DEF Call, AddCommand
  <2>2. answer'.to = c
    BY <2>1 DEF AnswerFromCache
  <2> QED
    BY <1>1, <2>1, <2>2
<1>4. Callback
  BY <1>2, <1>3 DEF Next
<1>5. req = "returned" /\ answer'.to = Head(tasks) /\ answer'.error = error
  BY <1>4 DEF Callback
<1> QED
  BY <1>1, <1>4, <1>5

-----------------------------------------------------------------------------

\* The inductive invariant holds in every state of every behaviour: what has
\* returned without an error is done, and the attributes are accounted for.
THEOREM Invariance == Spec => []IInv
<1>1. Init => IInv
  BY InitIInv
<1>2. IInv /\ [Next]_vars => IInv'
  BY NextIInv
<1> QED
  BY <1>1, <1>2, PTL DEF Spec

\* The variables keep their types; in particular no more callbacks come than
\* calls were made, and the attributes freed were allocated.
THEOREM TypeCorrect == Spec => []TypeOK
<1>1. IInv => TypeOK
  <2> SUFFICES ASSUME IInv PROVE TypeOK
    OBVIOUS
  <2>1. answers \in 0..calls /\ calls \in 0..MaxCalls
    BY DEF IInv, QueueOK
  <2>2. {error, ignored, overtaken} \subseteq BOOLEAN
    BY DEF IInv, ResultsOK
  <2> QED
    BY <2>1, <2>2 DEF IInv, DirectoryOK, QueueOK, ArgsOK, ResultsOK, TypeOK
<1> QED
  BY <1>1, Invariance, PTL

\* No attributes are lost or freed twice, until a worker overtakes onStat; for
\* any directory and any number of calls.
THEOREM AttributesKept == Spec => []AttributesReachable
<1>1. IInv => AttributesReachable
  BY DEF IInv
<1> QED
  BY <1>1, Invariance, PTL

\* A callback without an error of a rename, chmod, mkdir, unlink or rmdir means
\* that the server has done it, with the octal mode that chmod was given; but for
\* an unlink or rmdir refused with FILE_ALREADY_EXISTS, and a chmod with a string
\* of more than one octal digit.
THEOREM NoErrorMeansDone == Spec => ToldMeansDone
<1> DEFINE A == /\ NoError("rename") => ~Exists(Told.name) /\ Exists(Told.to)
                /\ NoError("chmod") => fs[Told.name].mode = Octal(Told.mode) \/ Misread(Told.mode)
                /\ NoError("mkdir") => Exists(Told.name)
                /\ NoError("unlink") => ~Exists(Told.name) \/ ignored
                /\ NoError("rmdir") => ~Exists(Told.name) \/ ignored
<1>1. IInv /\ [Next]_vars => [A]_vars
  <2> SUFFICES ASSUME IInv, [Next]_vars PROVE A
    OBVIOUS
  <2>1. ASSUME NEW k \in {"rename", "chmod", "mkdir", "unlink", "rmdir"}, NoError(k)
        PROVE  req = "returned" /\ ~error /\ Told = Head(tasks) /\ Head(tasks).cmd = k
    BY <2>1, Emitted DEF Told
  <2>2. ASSUME NoError("chmod")
        PROVE  fs[Told.name].mode = Octal(Told.mode) \/ Misread(Told.mode)
    <3>1. /\ req = "returned" /\ ~error /\ Told = Head(tasks)
          /\ Head(tasks).cmd = "chmod"
      BY <2>1, <2>2
    <3>2. fs[Told.name].mode = ModeGiven(Told.mode)
      BY <3>1 DEF IInv, ReturnedDone
    <3>3. tasks \in Seq(Commands) /\ tasks # <<>>
      BY <3>1 DEF IInv, QueueOK
    <3>4. Told \in Commands
      BY <3>1, <3>3
    <3>5. Told.mode \in GivenModes
      BY <3>1, <3>4, CommandFacts
    <3> QED
      BY <3>2, <3>5, OnlyStringsMisread
  <2>3. /\ NoError("rename") => ~Exists(Told.name) /\ Exists(Told.to)
        /\ NoError("mkdir") => Exists(Told.name)
        /\ NoError("unlink") => ~Exists(Told.name) \/ ignored
        /\ NoError("rmdir") => ~Exists(Told.name) \/ ignored
    BY <2>1 DEF IInv, ReturnedDone
  <2> QED
    BY <2>2, <2>3
<1> QED
  BY <1>1, Invariance, PTL DEF Spec, ToldMeansDone

\* A listing without an error is the directory, and fills the cache with it.
THEOREM ListingTrue == Spec => ListingIsTheDirectory
<1> DEFINE A == NoError("listDir") =>
                  LET there == {n \in Names : Exists(n)} IN
                  /\ answer'.list = {<<n, fs[n]>> : n \in there}
                  /\ \A n \in there : stats'[n] = fs[n]
<1>1. IInv /\ [Next]_vars => [A]_vars
  <2> SUFFICES ASSUME IInv, [Next]_vars, NoError("listDir")
               PROVE  /\ answer'.list = {<<n, fs[n]>> : n \in Existing}
                      /\ \A n \in Existing : stats'[n] = fs[n]
    BY DEF Existing
  <2>1. Callback /\ req = "returned" /\ ~error /\ Head(tasks).cmd = "listDir"
    BY Emitted
  <2>2. list = {<<n, fs[n]>> : n \in Existing}
    BY <2>1 DEF IInv, ReturnedDone
  <2>3. answer'.list = list /\ stats' = CacheAfterList
    BY <2>1 DEF Callback
  <2>4. ASSUME NEW n \in Existing PROVE stats'[n] = fs[n]
    <3>1. <<n, fs[n]>> \in list /\ n \in Names
      BY <2>2 DEF Existing
    <3>2. \A e \in list : e[1] = n => e[2] = fs[n]
      BY <2>2
    <3>3. (CHOOSE e \in list : e[1] = n)[2] = fs[n]
      BY <3>1, <3>2
    <3> QED
      BY <2>3, <3>1, <3>3 DEF CacheAfterList
  <2> QED
    BY <2>2, <2>3, <2>4
<1> QED
  BY <1>1, Invariance, PTL DEF Spec, ListingIsTheDirectory

\* A stat that went to the server gives what the server has, until a worker
\* overtakes onStat.
THEOREM StatTrue == Spec => StatIsTheServers
<1> DEFINE A == NoError("stat") /\ ~answer'.sync /\ ~overtaken => answer'.stat = fs[Told.name]
<1>1. IInv /\ [Next]_vars => [A]_vars
  <2> SUFFICES ASSUME IInv, [Next]_vars, NoError("stat"), ~answer'.sync, ~overtaken
               PROVE  answer'.stat = fs[Told.name]
    OBVIOUS
  <2>1. answers' # answers /\ answer'.to.cmd = "stat" /\ ~answer'.error
    BY DEF NoError, Answered
  <2>2. ~UNCHANGED vars /\ ~Worker /\ ~OnStatReturns /\ ~Done
    BY <2>1 DEF vars, Worker, OnStatReturns, Done
  <2>3. ASSUME NEW c \in Commands, Call(c) PROVE FALSE
    <3>1. AnswerFromCache(c)
      BY <2>1, <2>3 DEF Call, AddCommand
    <3> QED
      BY <3>1 DEF AnswerFromCache
  <2>4. Callback
    BY <2>2, <2>3 DEF Next
  <2>5. req = "returned" /\ answer'.to = Head(tasks) /\ answer'.error = error
        /\ (Head(tasks).cmd = "stat" => answer'.stat = stat)
    BY <2>4 DEF Callback, StatEmitted
  <2>6. Head(tasks).cmd = "stat" /\ ~error /\ Told = Head(tasks)
    BY <2>1, <2>5 DEF Told
  <2> QED
    BY <2>5, <2>6 DEF IInv, ReturnedDone
<1> QED
  BY <1>1, Invariance, PTL DEF Spec, StatIsTheServers
\* A stat that has returned without an error has left its result in m_stat, for
\* onStat to emit, and no earlier onStat is there to free it.
ResultWaits ==
  req = "returned" /\ ~error /\ Head(tasks).cmd = "stat" /\ ~overtaken
    => stat # NoEntry /\ frame = "none"

LEMMA ResultWaitsStep ==
  ASSUME IInv, ResultWaits, [Next]_vars
  PROVE  ResultWaits'
<1>1. CASE UNCHANGED vars \/ Done
  BY <1>1 DEF vars, results, Done, ResultWaits
<1>2. ASSUME NEW c \in Commands, Call(c) PROVE ResultWaits'
  <2>1. CASE UNCHANGED <<tasks, req, args, results>>
    BY <1>2, <2>1 DEF Call, results, ResultWaits
  <2>2. CASE AddCommand(c) /\ tasks = <<>>
    <3>1. req' = "queued"
      BY <2>2 DEF AddCommand, ExecuteNext, StartNative
    <3> QED
      BY <3>1 DEF ResultWaits
  <2>3. CASE AddCommand(c) /\ tasks # <<>>
    <3>1. /\ UNCHANGED <<req, error, stat, frame, overtaken>>
          /\ tasks \in Seq(Commands) /\ tasks' = Append(tasks, c)
      BY <1>2, <2>3 DEF Call, AddCommand, results, IInv, QueueOK
    <3>2. Head(tasks') = Head(tasks)
      BY <2>3, <3>1
    <3> QED
      BY <3>1, <3>2 DEF ResultWaits
  <2> QED
    BY <1>2, <2>1, <2>2, <2>3 DEF Call, AnswerFromCache
<1>3. CASE Worker
  <2> SUFFICES ASSUME error' = FALSE, Head(tasks').cmd = "stat", overtaken' = FALSE
               PROVE  stat' # NoEntry /\ frame' = "none"
    <3>1. ResultsOK'
      BY <1>3, NextIInv DEF Next, IInv
    <3> QED
      BY <3>1 DEF ResultWaits, ResultsOK
  <2>1. PICK c \in Commands : c = Head(tasks)
    BY <1>3 DEF Worker, IInv, QueueOK
  <2>2. /\ UNCHANGED <<tasks, frame>> /\ buf = c.name
        /\ overtaken' <=> overtaken \/ (frame = "onStat" /\ c.cmd = "stat")
        /\ CASE c.cmd = "stat" -> Stat [] c.cmd = "listDir" -> ListDir [] OTHER -> Modify(c.cmd)
    BY <1>3, <2>1, WorkerFacts
  <2>3. c.cmd = "stat" /\ frame = "none"
    BY <2>1, <2>2 DEF IInv, QueueOK
  <2>4. stat' = fs[buf] /\ Exists(buf)
    BY <2>2, <2>3 DEF Stat
  <2> QED
    BY <2>2, <2>3, <2>4 DEF Exists
<1>4. CASE Callback
  <2>1. req' # "returned"
    BY <1>4 DEF Callback, ExecuteNext, StartNative
  <2> QED
    BY <2>1 DEF ResultWaits
<1>5. CASE OnStatReturns
  BY <1>5 DEF OnStatReturns, ResultWaits
<1> QED
  BY <1>1, <1>2, <1>3, <1>4, <1>5 DEF Next

\* While no worker overtakes onStat a stat without an error has a result: what
\* TLC finds against the comment of stat in index.js has no other cause, neither
\* the cache nor an error before it nor the order of the calls.
THEOREM OnlyOvertakingLosesAStat == Spec /\ []~overtaken => StatDelivered
<1> DEFINE A == NoError("stat") => answer'.stat # NoEntry
<1>1. Init => ResultWaits
  BY DEF Init, ResultWaits
<1>2. IInv /\ ResultWaits /\ [Next]_vars => ResultWaits'
  BY ResultWaitsStep
<1>3. IInv /\ ResultWaits /\ ~overtaken /\ [Next]_vars => [A]_vars
  <2> SUFFICES ASSUME IInv, ResultWaits, ~overtaken, [Next]_vars, NoError("stat")
               PROVE  answer'.stat # NoEntry
    OBVIOUS
  <2>1. answers' # answers /\ answer'.to.cmd = "stat" /\ ~answer'.error
    BY DEF NoError, Answered
  <2>2. ~UNCHANGED vars /\ ~Worker /\ ~OnStatReturns /\ ~Done
    BY <2>1 DEF vars, Worker, OnStatReturns, Done
  <2>3. ASSUME NEW c \in Commands, Call(c) PROVE answer'.stat # NoEntry
    <3>1. AnswerFromCache(c) /\ stats[c.name] # NoEntry
      BY <2>1, <2>3 DEF Call, AddCommand
    <3> QED
      BY <3>1 DEF AnswerFromCache
  <2>4. CASE Callback
    <3>1. /\ req = "returned" /\ answer'.to = Head(tasks) /\ answer'.error = error
          /\ Head(tasks).cmd = "stat" => answer'.stat = stat
      BY <2>4 DEF Callback, StatEmitted
    <3> QED
      BY <2>1, <3>1 DEF ResultWaits
  <2> QED
    BY <2>2, <2>3, <2>4 DEF Next
<1> QED
  BY <1>1, <1>2, <1>3, Invariance, PTL DEF Spec, StatDelivered

-----------------------------------------------------------------------------
(* The order in which operations are executed and answered.  History       *)
(* variables keep the commands that were queued and those that have left   *)
(* the queue, as they are, and what the workers asked the server for: the  *)
(* operation and the names that they found in m_buf and m_buf2.            *)

VARIABLES
  entered,   \* history: the commands queued, those that the cache answers not
  executed,  \* history: what the workers asked the server for
  settled    \* history: the commands whose callback was called

accounts == <<entered, executed, settled>>

Request(c) == [cmd |-> c.cmd, name |-> c.name, to |-> c.to]
Requests(s) == [i \in 1..Len(s) |-> Request(s[i])]

Enters(c) == entered' = Append(entered, c) /\ UNCHANGED <<executed, settled>>
Asks ==
  /\ executed' = Append(executed, [cmd |-> Head(tasks).cmd, name |-> buf, to |-> buf2])
  /\ UNCHANGED <<entered, settled>>
Leaves == settled' = Append(settled, Head(tasks)) /\ UNCHANGED <<entered, executed>>

HInit == Init /\ entered = <<>> /\ executed = <<>> /\ settled = <<>>
HNext ==
  \/ \E c \in Commands :
       /\ Call(c)
       /\ IF tasks' = tasks THEN UNCHANGED accounts ELSE Enters(c)
  \/ Worker /\ Asks
  \/ Callback /\ Leaves
  \/ (OnStatReturns \/ Done) /\ UNCHANGED accounts
HSpec == HInit /\ [][HNext]_<<vars, accounts>>

\* The commands that have been executed.
Worked == settled \o (IF req = "returned" THEN <<Head(tasks)>> ELSE <<>>)

\* What was queued and is not answered is the queue, in the order of the calls;
\* and each command that is answered was executed before, once, in that order and
\* with its own arguments.
OneByOne == entered = settled \o tasks /\ executed = Requests(Worked)

AccountsOK == entered \in Seq(Commands) /\ settled \in Seq(Commands) /\ OneByOne

LEMMA RequestsFacts ==
  ASSUME NEW S, NEW s \in Seq(S)
  PROVE  /\ Requests(s) \in Seq({Request(c) : c \in S}) /\ Len(Requests(s)) = Len(s)
         /\ \A i \in 1..Len(s) : Requests(s)[i] = Request(s[i])
<1>1. Len(s) \in Nat /\ \A i \in 1..Len(s) : s[i] \in S
  BY LenProperties
<1>2. Requests(s) \in [1..Len(s) -> {Request(c) : c \in S}]
  BY <1>1 DEF Requests
<1> QED
  BY <1>1, <1>2 DEF Requests

LEMMA RequestsAppend ==
  ASSUME NEW S, NEW s \in Seq(S), NEW c \in S
  PROVE  Requests(Append(s, c)) = Append(Requests(s), Request(c))
<1> DEFINE R == {Request(d) : d \in S}
           t == Append(s, c)
           r == Append(Requests(s), Request(c))
<1>1. /\ Len(s) \in Nat /\ Len(t) = Len(s) + 1 /\ t \in Seq(S) /\ t[Len(s) + 1] = c
      /\ \A i \in 1..Len(s) : t[i] = s[i]
  BY AppendProperties, LenProperties
<1>2. /\ Requests(s) \in Seq(R) /\ Len(Requests(s)) = Len(s)
      /\ \A i \in 1..Len(s) : Requests(s)[i] = Request(s[i])
  BY RequestsFacts
<1>3. /\ Requests(t) \in Seq(R) /\ Len(Requests(t)) = Len(t)
      /\ \A i \in 1..Len(t) : Requests(t)[i] = Request(t[i])
  BY <1>1, RequestsFacts
<1>4. Request(c) \in R
  OBVIOUS
<1>5. /\ r \in Seq(R) /\ Len(r) = Len(s) + 1 /\ r[Len(s) + 1] = Request(c)
      /\ \A i \in 1..Len(s) : r[i] = Requests(s)[i]
  BY <1>2, <1>4, AppendProperties
<1>6. ASSUME NEW i \in 1..Len(t) PROVE Requests(t)[i] = r[i]
  <2>1. CASE i = Len(s) + 1
    BY <1>1, <1>3, <1>5, <2>1
  <2>2. CASE i # Len(s) + 1
    <3>1. i \in 1..Len(s)
      BY <1>1, <2>2
    <3> QED
      BY <1>1, <1>2, <1>3, <1>5, <3>1
  <2> QED
    BY <2>1, <2>2
<1> QED
  BY <1>1, <1>3, <1>5, <1>6, SeqEqual

LEMMA EntersInOrder ==
  ASSUME IInv, AccountsOK, NEW c \in Commands, AddCommand(c), Enters(c)
  PROVE  AccountsOK'
<1>1. tasks \in Seq(Commands) /\ tasks' = Append(tasks, c)
  BY DEF IInv, QueueOK, AddCommand
<1>2. entered' = Append(entered, c) /\ executed' = executed /\ settled' = settled
  BY DEF Enters
<1>3. entered' = settled \o tasks'
  <2>1. entered' = (settled \o tasks) \o <<c>> /\ tasks' = tasks \o <<c>>
    BY <1>1, <1>2, AppendIsConcat DEF AccountsOK, OneByOne
  <2>2. <<c>> \in Seq(Commands) /\ settled \in Seq(Commands)
    BY DEF AccountsOK
  <2> QED
    BY <1>1, <2>1, <2>2, ConcatAssociative
<1>4. Worked' = Worked
  <2>1. CASE tasks = <<>>
    BY <1>1, <1>2, <2>1 DEF AddCommand, ExecuteNext, StartNative, Worked, IInv, QueueOK
  <2>2. CASE tasks # <<>>
    BY <1>1, <1>2, <2>2, HeadTailAppend DEF AddCommand, Worked
  <2> QED
    BY <2>1, <2>2
<1>5. entered' \in Seq(Commands)
  BY <1>2 DEF AccountsOK
<1> QED
  BY <1>2, <1>3, <1>4, <1>5 DEF AccountsOK, OneByOne

LEMMA AsksInOrder ==
  ASSUME IInv, AccountsOK, Worker, Asks
  PROVE  AccountsOK'
<1>1. req = "queued" /\ req' = "returned" /\ tasks' = tasks
  BY DEF Worker
<1>2. Head(tasks) \in Commands
  BY <1>1 DEF IInv, QueueOK
<1>3. settled' = settled /\ entered' = entered
  BY DEF Asks
<1>4. Worked = settled /\ Worked' = Append(settled, Head(tasks))
  <2>1. settled \in Seq(Commands)
    BY DEF AccountsOK
  <2>2. Worked = settled \o <<>> /\ Worked' = settled \o <<Head(tasks)>>
    BY <1>1, <1>3 DEF Worked
  <2> QED
    BY <1>2, <2>1, <2>2, ConcatEmptySeq, AppendIsConcat
<1>5. executed' = Append(executed, Request(Head(tasks)))
  BY <1>1 DEF Asks, Request, IInv, ArgsOK
<1>6. executed' = Requests(Worked')
  BY <1>2, <1>4, <1>5, RequestsAppend DEF AccountsOK, OneByOne
<1> QED
  BY <1>1, <1>3, <1>6 DEF AccountsOK, OneByOne

LEMMA LeavesInOrder ==
  ASSUME IInv, AccountsOK, Callback, Leaves
  PROVE  AccountsOK'
<1>1. req = "returned" /\ tasks' = Tail(tasks) /\ req' \in {"none", "queued"}
  BY DEF Callback, ExecuteNext, StartNative
<1>2. /\ tasks \in Seq(Commands) /\ tasks # <<>>
      /\ Head(tasks) \in Commands /\ Tail(tasks) \in Seq(Commands)
  BY <1>1 DEF IInv, QueueOK
<1>3. settled' = Append(settled, Head(tasks)) /\ entered' = entered /\ executed' = executed
  BY DEF Leaves
<1>4. settled' = settled \o <<Head(tasks)>> /\ settled' \in Seq(Commands)
  BY <1>2, <1>3, AppendIsConcat DEF AccountsOK
<1>5. entered' = settled' \o tasks'
  <2>1. tasks = <<Head(tasks)>> \o Tail(tasks)
    BY <1>2, HeadTailProperties
  <2>2. <<Head(tasks)>> \in Seq(Commands) /\ settled \in Seq(Commands)
    BY <1>2 DEF AccountsOK
  <2>3. (settled \o <<Head(tasks)>>) \o Tail(tasks) = settled \o (<<Head(tasks)>> \o Tail(tasks))
    BY <1>2, <2>2, ConcatAssociative
  <2> QED
    BY <1>1, <1>3, <1>4, <2>1, <2>3 DEF AccountsOK, OneByOne
<1>6. Worked' = settled' \o <<>> /\ Worked = settled \o <<Head(tasks)>>
  BY <1>1 DEF Worked
<1>7. Worked' = Worked
  BY <1>4, <1>6, ConcatEmptySeq
<1> QED
  BY <1>3, <1>4, <1>5, <1>7 DEF AccountsOK, OneByOne

\* The operations that go to the server are executed one at a time and answered
\* in the order they were called, each after it was executed once and with its own
\* arguments, though the next one stores its arguments inside the emit of the one
\* before, while onStat has not returned.
THEOREM CommandsOneByOne == HSpec => []OneByOne
<1>1. HInit => AccountsOK
  <2> SUFFICES ASSUME HInit PROVE AccountsOK
    OBVIOUS
  <2>1. tasks = <<>> /\ entered = <<>> /\ executed = <<>> /\ settled = <<>> /\ req = "none"
    BY DEF HInit, Init
  <2>2. <<>> \in Seq(Commands) /\ <<>> \o <<>> = <<>>
    BY EmptySeq, ConcatEmptySeq
  <2>3. Requests(<<>>) = <<>>
    BY DEF Requests
  <2> QED
    BY <2>1, <2>2, <2>3 DEF AccountsOK, OneByOne, Worked
<1>2. HSpec => Spec
  <2>1. HInit => Init
    BY DEF HInit
  <2>2. [HNext]_<<vars, accounts>> => [Next]_vars
    BY DEF HNext, Next
  <2> QED
    BY <2>1, <2>2, PTL DEF HSpec, Spec
<1>3. IInv /\ AccountsOK /\ [HNext]_<<vars, accounts>> => AccountsOK'
  <2> SUFFICES ASSUME IInv, AccountsOK, [HNext]_<<vars, accounts>> PROVE AccountsOK'
    OBVIOUS
  <2>1. ASSUME NEW c \in Commands, Call(c),
               IF tasks' = tasks THEN UNCHANGED accounts ELSE Enters(c)
        PROVE  AccountsOK'
    <3>1. CASE AnswerFromCache(c)
      BY <2>1, <3>1 DEF AnswerFromCache, accounts, AccountsOK, OneByOne, Worked
    <3>2. CASE AddCommand(c)
      <4>1. tasks \in Seq(Commands) /\ tasks' = Append(tasks, c)
        BY <3>2 DEF IInv, QueueOK, AddCommand
      <4>2. tasks' # tasks
        BY <4>1
      <4> QED
        BY <2>1, <3>2, <4>2, EntersInOrder
    <3> QED
      BY <2>1, <3>1, <3>2 DEF Call
  <2>2. CASE Worker /\ Asks
    BY <2>2, AsksInOrder
  <2>3. CASE Callback /\ Leaves
    BY <2>3, LeavesInOrder
  <2>4. CASE (OnStatReturns \/ Done) /\ UNCHANGED accounts
    <3>1. tasks' = tasks /\ req' = req
      BY <2>4 DEF OnStatReturns, Done, vars
    <3> QED
      BY <2>4, <3>1 DEF accounts, AccountsOK, OneByOne, Worked
  <2>5. CASE UNCHANGED <<vars, accounts>>
    BY <2>5 DEF vars, accounts, AccountsOK, OneByOne, Worked
  <2> QED
    BY <2>1, <2>2, <2>3, <2>4, <2>5 DEF HNext
<1>4. AccountsOK => OneByOne
  BY DEF AccountsOK
<1> QED
  BY <1>1, <1>2, <1>3, <1>4, Invariance, PTL DEF HSpec
=============================================================================
