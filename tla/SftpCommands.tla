---------------------------- MODULE SftpCommands ----------------------------
(***************************************************************************)
(* The operations of the SFTP object that take one round: mkdir, rename,   *)
(* chmod, chown, stat, unlink, rmdir and listDir (src/sftp.cc), with the   *)
(* methods of index.js that queue them and its cache of stat results.      *)
(*                                                                         *)
(* An operation stores its arguments in the members of the object, a       *)
(* worker runs start*, and the main thread runs onDone, onStat or onList,  *)
(* which emits 'callback'.  The queue starts the next operation inside     *)
(* that emit, so a worker may run it while onStat has not returned.        *)
(*                                                                         *)
(* The names are those of one remote directory.  The server and libssh are *)
(* external: an operation succeeds only if it makes sense, may fail, and   *)
(* the reply of one that succeeded may be lost.  Timeouts are not here:    *)
(* they are the subject of TaskQueue.                                      *)
(***************************************************************************)
EXTENDS Integers, Sequences, FiniteSets

CONSTANTS
  Names,       \* the names in the remote directory
  NoName,      \* a NULL string
  Ids,         \* the user and group ids, and the garbage of m_int2
  GivenModes,  \* the modes given: strings or numbers, with two octal digits
  Kinds,       \* the operations called
  MaxCalls     \* bound on the number of calls

ASSUME NamesAssumption == IsFiniteSet(Names) /\ NoName \notin Names
ASSUME IdsAssumption == Ids \subseteq Nat /\ Ids # {}
ASSUME ModesAssumption == GivenModes \subseteq [string : BOOLEAN, high : 0..7, low : 0..7]
ASSUME BoundsAssumption == MaxCalls \in Nat

VARIABLES
  fs,        \* the remote directory
  tasks,     \* _tasks of index.js
  stats,     \* _stats of index.js
  req,       \* where the request of the head is
  frame,     \* onStat is on the stack, its emit done
  buf,       \* m_buf
  buf2,      \* m_buf2
  int1,      \* m_int
  int2,      \* m_int2, which nothing assigns
  error,     \* m_error is not empty
  stat,      \* m_stat
  list,      \* m_list: the names, with their attributes
  allocs,    \* the sftp_attributes allocated and not freed
  calls,     \* history: the number of calls
  answers,   \* history: the number of callbacks
  answer,    \* history: the last callback
  ignored,   \* history: the reply was FILE_ALREADY_EXISTS and no error
  overtaken  \* history: a worker has set m_stat before onStat freed it

args == <<buf, buf2, int1, int2>>
results == <<error, stat, list, allocs, ignored>>
vars == <<fs, tasks, stats, req, frame, args, results, calls, answers, answer,
          overtaken>>

NoEntry == [kind |-> "none", mode |-> 0, uid |-> 0, gid |-> 0]
RWXU == 448  \* S_IRWXU, 0700

\* The mode that two digits are documented to be, which are octal, and the number
\* that the methods make of them: those of a string are read as decimal.
NoMode == [string |-> FALSE, high |-> 0, low |-> 0]
Octal(m) == 8 * m.high + m.low
ModeGiven(m) == IF m.string THEN 10 * m.high + m.low ELSE Octal(m)

Modes == {RWXU, 0} \cup {ModeGiven(m) : m \in GivenModes}
Entries == [kind : {"file", "dir"}, mode : Modes, uid : Ids, gid : Ids]
SomeId == CHOOSE i \in Ids : TRUE

\* The calls a user may make.
Command(cmd, name, to, mode, uid, gid) ==
  [cmd |-> cmd, name |-> name, to |-> to, mode |-> mode, uid |-> uid, gid |-> gid]
Commands ==
  {c \in
    {Command(k, n, NoName, NoMode, SomeId, SomeId) :
       k \in {"stat", "unlink", "rmdir"}, n \in Names}
    \cup {Command("listDir", NoName, NoName, NoMode, SomeId, SomeId)}
    \cup {Command("rename", n, t, NoMode, SomeId, SomeId) : n \in Names, t \in Names}
    \cup {Command(k, n, NoName, m, SomeId, SomeId) :
            k \in {"mkdir", "chmod"}, n \in Names, m \in GivenModes}
    \cup {Command("chown", n, NoName, NoMode, u, g) : n \in Names, u \in Ids, g \in Ids} :
   c.cmd \in Kinds}

NoAnswer == [to |-> Command("none", NoName, NoName, NoMode, SomeId, SomeId),
             error |-> FALSE, stat |-> NoEntry, list |-> {}, sync |-> FALSE]

TypeOK ==
  /\ fs \in [Names -> Entries \cup {NoEntry}]
  /\ tasks \in Seq(Commands)
  /\ stats \in [Names -> Entries \cup {NoEntry}]
  /\ req \in {"none", "queued", "returned"} /\ (req = "none" <=> tasks = <<>>)
  /\ frame \in {"none", "onStat"}
  /\ buf \in Names \cup {NoName} /\ buf2 \in Names \cup {NoName}
  /\ int1 \in Nat /\ int2 \in Ids
  /\ {error, ignored, overtaken} \subseteq BOOLEAN
  /\ stat \in Entries \cup {NoEntry}
  /\ list \subseteq Names \X Entries
  /\ allocs \in Nat
  /\ calls \in 0..MaxCalls /\ answers \in 0..calls

Init ==
  /\ fs \in [Names -> {NoEntry} \cup
       {[kind |-> k, mode |-> 0, uid |-> SomeId, gid |-> SomeId] : k \in {"file", "dir"}}]
  /\ tasks = <<>> /\ stats = [n \in Names |-> NoEntry]
  /\ req = "none" /\ frame = "none"
  /\ buf = NoName /\ buf2 = NoName /\ int1 = 0 /\ int2 \in Ids
  /\ error = FALSE /\ stat = NoEntry /\ list = {} /\ allocs = 0 /\ ignored = FALSE
  /\ calls = 0 /\ answers = 0 /\ answer = NoAnswer /\ overtaken = FALSE

-----------------------------------------------------------------------------
(* Starting an operation.                                                  *)

\* m_int after the method: chown stores the uid and then the gid in it.
IntStored(c) ==
  CASE c.cmd \in {"mkdir", "chmod"} -> ModeGiven(c.mode)
    [] c.cmd = "chown" -> c.gid
    [] OTHER -> int1

\* resetData deletes the entries of the last listing, with their attributes.
KeepList == UNCHANGED <<list, allocs>>
ResetList == list' = {} /\ allocs' = allocs - Cardinality(list)

\* The method of the native object: resetData, the arguments, eio_custom.
StartNative(c) ==
  /\ ResetList
  /\ error' = FALSE /\ ignored' = FALSE
  /\ buf' = c.name /\ buf2' = c.to
  /\ int1' = IntStored(c)
  /\ req' = "queued"
  /\ UNCHANGED <<int2, stat>>

\* _executeNext on the queue s (its empty case, the keep-alive, is in
\* TaskQueue).
ExecuteNext(s) ==
  IF s = <<>> THEN req' = "none" /\ UNCHANGED <<args, results>>
              ELSE StartNative(Head(s))

\* _addCommand.  A call made inside a callback is started when the callback
\* has returned, with onStat still on the stack.
AddCommand(c) ==
  /\ tasks' = Append(tasks, c)
  /\ IF tasks = <<>> THEN ExecuteNext(tasks') ELSE UNCHANGED <<req, args, results>>
  /\ UNCHANGED <<answers, answer>>

\* stat: what the cache has is given to the callback before stat returns.
AnswerFromCache(c) ==
  /\ answers' = answers + 1
  /\ answer' = [to |-> c, error |-> FALSE, stat |-> stats[c.name],
                list |-> {}, sync |-> TRUE]
  /\ UNCHANGED <<tasks, req, args, results>>

Call(c) ==
  /\ calls < MaxCalls
  /\ calls' = calls + 1
  /\ IF c.cmd = "stat" /\ stats[c.name] # NoEntry
     THEN AnswerFromCache(c)
     ELSE AddCommand(c)
  /\ UNCHANGED <<fs, stats, frame, overtaken>>

-----------------------------------------------------------------------------
(* The worker.                                                             *)

Exists(n) == fs[n] # NoEntry

\* The operations that make sense to the server, and what they do.
Possible(cmd) ==
  CASE cmd = "mkdir" -> ~Exists(buf)
    [] cmd = "rename" -> Exists(buf) /\ ~Exists(buf2)
    [] cmd = "unlink" -> fs[buf].kind = "file"
    [] cmd = "rmdir" -> fs[buf].kind = "dir"
    [] cmd \in {"chmod", "chown"} -> Exists(buf)

\* What start* asks the server for.  startMkdir leaves m_int alone, startChown
\* passes m_int and m_int2.
Effect(cmd) ==
  CASE cmd = "mkdir" ->
         [fs EXCEPT ![buf] = [kind |-> "dir", mode |-> RWXU, uid |-> SomeId, gid |-> SomeId]]
    [] cmd = "rename" -> [fs EXCEPT ![buf2] = fs[buf], ![buf] = NoEntry]
    [] cmd \in {"unlink", "rmdir"} -> [fs EXCEPT ![buf] = NoEntry]
    [] cmd = "chmod" -> [fs EXCEPT ![buf].mode = int1]
    [] cmd = "chown" -> [fs EXCEPT ![buf].uid = int1, ![buf].gid = int2]

\* The operations for which FILE_ALREADY_EXISTS is no error.
IgnoresAll(cmd) == cmd \in Kinds
IgnoresExists(cmd) == cmd \in {"mkdir", "unlink", "rmdir"}

\* Outcomes of the request that changes the directory: done, done with the
\* reply lost, refused, or refused because the name exists.
Modify(cmd) ==
  /\ UNCHANGED <<stat, list, allocs>>
  /\ \/ Possible(cmd) /\ fs' = Effect(cmd) /\ error' \in BOOLEAN /\ ignored' = FALSE
     \/ fs' = fs /\ error' = TRUE /\ ignored' = FALSE
     \/ /\ cmd = "mkdir" => Exists(buf)
        /\ cmd = "rename" => Exists(buf2)
        /\ fs' = fs /\ ignored' = IgnoresExists(cmd) /\ error' = ~ignored'

\* startStat: libssh allocates the attributes it returns.
Stat ==
  /\ \/ Exists(buf) /\ stat' = fs[buf] /\ allocs' = allocs + 1 /\ error' = FALSE
     \/ stat' = NoEntry /\ allocs' = allocs /\ error' = TRUE
  /\ UNCHANGED <<fs, list, ignored>>

\* startListDir: the entries read are kept when a later readdir or the
\* closedir fails; an opendir that fails reads none.
ListDir ==
  /\ \E ns \in SUBSET {n \in Names : Exists(n)} :
       /\ list' = list \cup {<<n, fs[n]>> : n \in ns}
       /\ allocs' = allocs + Cardinality(ns)
       /\ error' = TRUE \/ (ns = {n \in Names : Exists(n)} /\ error' = FALSE)
  /\ UNCHANGED <<fs, stat, ignored>>

Worker ==
  /\ req = "queued" /\ req' = "returned"
  /\ LET cmd == Head(tasks).cmd IN
       CASE cmd = "stat" -> Stat [] cmd = "listDir" -> ListDir [] OTHER -> Modify(cmd)
  /\ overtaken' = (overtaken \/ (frame = "onStat" /\ Head(tasks).cmd = "stat"))
  /\ UNCHANGED <<tasks, stats, frame, args, calls, answers, answer>>

-----------------------------------------------------------------------------
(* The main thread.                                                        *)

\* The second argument that onStat emits.
StatFreed == NoEntry
StatEmitted == stat

\* readdir's callback stores the attributes of the entries in the cache.
CacheKept == stats
CacheAfterList ==
  [n \in Names |-> IF \E e \in list : e[1] = n
                   THEN (CHOOSE e \in list : e[1] = n)[2] ELSE stats[n]]

\* onDone, onStat or onList emits 'callback': the task leaves the queue, its
\* callback runs, the next task is started.
Callback ==
  /\ req = "returned" /\ frame = "none"
  /\ LET c == Head(tasks) IN
       /\ answers' = answers + 1
       /\ answer' = [to |-> c, error |-> error, sync |-> FALSE,
                     stat |-> IF c.cmd = "stat" THEN StatEmitted ELSE NoEntry,
                     list |-> IF c.cmd = "listDir" THEN list ELSE {}]
       /\ stats' = IF c.cmd = "listDir" THEN CacheAfterList ELSE stats
       /\ frame' = IF c.cmd = "stat" THEN "onStat" ELSE "none"
  /\ tasks' = Tail(tasks)
  /\ ExecuteNext(tasks')
  /\ UNCHANGED <<fs, calls, overtaken>>

\* The end of onStat, after its emit: m_stat is freed and nulled.
KeepStat == UNCHANGED <<stat, allocs>>
FreeUnchecked == allocs' = allocs - 1 /\ stat' = NoEntry
FreeStat ==
  /\ allocs' = IF stat = NoEntry THEN allocs ELSE allocs - 1
  /\ stat' = NoEntry

OnStatReturns ==
  /\ frame = "onStat" /\ frame' = "none"
  /\ FreeStat
  /\ UNCHANGED <<fs, tasks, stats, req, args, error, list, ignored, calls,
                 answers, answer, overtaken>>

Done ==
  /\ calls = MaxCalls /\ tasks = <<>> /\ frame = "none"
  /\ UNCHANGED vars

Next == (\E c \in Commands : Call(c)) \/ Worker \/ Callback \/ OnStatReturns \/ Done
Spec == Init /\ [][Next]_vars

-----------------------------------------------------------------------------
(* Properties.                                                             *)

\* The callback of a command comes: the task has left the queue, or the
\* cache answered.
Answered(cmd) == answers' # answers /\ answer'.to.cmd = cmd
NoError(cmd) == Answered(cmd) /\ ~answer'.error
Told == answer'.to

\* A string of more than one digit is not the mode that it is documented to be.
Misread(m) == m.string /\ m.high # 0

\* A callback without an error means that the server has done what was asked
\* for: the name moved, gone, there, or with the octal mode given, whatever was
\* queued before and whatever of it failed.  Two things are excepted: a refusal
\* with FILE_ALREADY_EXISTS, which is taken for a success of unlink and rmdir, and
\* a chmod with a mode that is misread.  Nothing is said of the mode that mkdir is
\* given and does not send, nor of chown, which sends wrong ids.
ToldMeansDone ==
  [][/\ NoError("rename") => ~Exists(Told.name) /\ Exists(Told.to)
     /\ NoError("chmod") => fs[Told.name].mode = Octal(Told.mode) \/ Misread(Told.mode)
     /\ NoError("mkdir") => Exists(Told.name)
     /\ NoError("unlink") => ~Exists(Told.name) \/ ignored
     /\ NoError("rmdir") => ~Exists(Told.name) \/ ignored]_vars

\* A listing without an error has every entry of the directory with its
\* attributes and no other, and a stat of any of them is answered with them
\* from the cache: entries left from an earlier listing do not get in.
ListingIsTheDirectory ==
  [][NoError("listDir") =>
       LET there == {n \in Names : Exists(n)} IN
       /\ answer'.list = {<<n, fs[n]>> : n \in there}
       /\ \A n \in there : stats'[n] = fs[n]]_vars

\* Every allocated sftp_attributes is reachable from m_stat or m_list: none
\* is lost between operations and none freed twice, until a worker that runs
\* the next stat is faster than onStat.
AttributesReachable ==
  overtaken \/ allocs = Cardinality(list) + (IF stat = NoEntry THEN 0 ELSE 1)

\* A stat that went to the server and has no error gives what the server has,
\* though the next operation is started before onStat frees m_stat, until a
\* worker that runs the next stat is faster than onStat.
StatIsTheServers ==
  [][NoError("stat") /\ ~answer'.sync /\ ~overtaken => answer'.stat = fs[Told.name]]_vars

-----------------------------------------------------------------------------
(* What comments of the repository say and the code does not do.           *)

\* "the callback gets two arguments, the error string and a stat object. On
\* error the stat object is undefined" (index.js, stat): without an error
\* there is a stat object.
StatDelivered == [][NoError("stat") => answer'.stat # NoEntry]_vars
=============================================================================
