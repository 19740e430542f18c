----------------------------- MODULE Connection -----------------------------
(***************************************************************************)
(* init, setPubKey, setPrvKey and connect of an sftp object: index.js,     *)
(* src/sshBase.cc and SFTP::startConnect.                                  *)
(*                                                                         *)
(* init works at once on the native object and then, if it is given keys,  *)
(* goes through four commands, each queued by the callback of the one      *)
(* before: write the public key into a file, set it, write the private     *)
(* key, set it.  setPubKey and setPrvKey are one half of that.  connect is *)
(* one command.  Several of these calls may be in the queue at the same    *)
(* time.  The queue is that of TaskQueue, without its timeouts.            *)
(*                                                                         *)
(* The i-th call of init, setPubKey or setPrvKey makes session i and has   *)
(* keys i.  libssh, the server and the local file system are external:     *)
(* each call may fail, and succeeds only where it makes sense.  An sftp    *)
(* session whose connection is gone gives any result.                      *)
(***************************************************************************)
EXTENDS Naturals, Sequences

CONSTANTS
  MaxCalls,     \* bound on the calls of init, setPubKey and setPrvKey
  MaxConnects   \* bound on the calls of connect

ASSUME BoundsAssumption == MaxCalls \in Nat /\ MaxConnects \in Nat

VARIABLES
  tasks,      \* _tasks
  step,       \* where the head of _tasks is
  error,      \* m_error, or the error of the file operation, is not empty
  session,    \* m_ssh_session, 0 for NULL
  conn,       \* what has become of its connection
  sftp,       \* m_sftp_session: its state, "none" for NULL
  sftpOf,     \* the session that m_sftp_session was created on
  pub,        \* m_pub_key, 0 for NULL
  prv,        \* m_prv_key, 0 for NULL
  calls,      \* history: how many calls of init and of set*Key there were
  keyed,      \* history: the ones with keys
  answered,   \* history: the ones whose callback was called
  given,      \* history: the calls that were given the last keys
  overtaken,  \* history: an older private key than the last one comes behind it
  connects,   \* history: how many calls of connect there were
  keyFailed,  \* history: a key could not be written or set
  racing      \* history: init has freed sessions that a command was using

queue == <<tasks, step>>
sessions == <<session, conn, sftp, sftpOf>>
keys == <<pub, prv, keyFailed>>
history == <<calls, keyed, answered, given, overtaken, connects, racing>>
vars == <<queue, error, sessions, keys, history>>

KeyCmd == {"writePub", "setPubKey", "writePrv", "setPrvKey"}
Keys == [pub : 0..MaxCalls, prv : 0..MaxCalls]
Task == [cmd : KeyCmd, call : 1..MaxCalls, init : BOOLEAN]
        \cup [cmd : {"connect"}, keys : Keys, ready : BOOLEAN]
Cmd == Head(tasks).cmd

TypeOK ==
  /\ tasks \in Seq(Task)
  /\ step \in {"none", "queued", "running", "returned"}
  /\ step = "none" <=> tasks = <<>>
  /\ error \in BOOLEAN
  /\ session \in 0..calls
  /\ conn \in {"closed", "connected", "authenticated"}
  /\ sftp \in {"none", "new", "ready", "stale"}
  /\ sftpOf \in 0..MaxCalls
  /\ pub \in 0..MaxCalls /\ prv \in 0..MaxCalls
  /\ calls \in 0..MaxCalls /\ connects \in 0..MaxConnects
  /\ keyed \subseteq 1..calls /\ answered \subseteq keyed
  /\ given \in Keys
  /\ {keyFailed, overtaken, racing} \subseteq BOOLEAN

Init ==
  /\ tasks = <<>> /\ step = "none" /\ error = FALSE
  /\ session = 0 /\ conn = "closed" /\ sftp = "none" /\ sftpOf = 0
  /\ pub = 0 /\ prv = 0
  /\ calls = 0 /\ keyed = {} /\ answered = {} /\ connects = 0
  /\ given = [pub |-> 0, prv |-> 0]
  /\ keyFailed = FALSE /\ overtaken = FALSE /\ racing = FALSE

-----------------------------------------------------------------------------
(* The pieces of the handlers, each preceded by what it would be with a    *)
(* plausible mistake; the mistaken forms are used by no definition.        *)

\* The head of the queue ts, when it is not being executed, is started.
StepAlways(ts) == "queued"
StepAfter(ts) == IF ts = <<>> THEN "none" ELSE "queued"

\* What a worker stores in m_pub_key or m_prv_key, old being there.
StoreOnce(old, new) == IF old = 0 THEN new ELSE old
Store(old, new) == new

\* freeSessions of the SFTP class, or of its base only.
FreeBase == UNCHANGED <<sftp, sftpOf>>
FreeSftp == sftp' = "none" /\ sftpOf' = 0

\* m_error after startConnect: what the base has set stays there.
LastError(base, new) == new
AnyError(base, new) == base \/ new

\* Whose callback is called when the call of t ends, with an error or without.
TellIfDone(t, err) == IF err THEN {} ELSE {t.call}
Tell(t, err) == {t.call}

-----------------------------------------------------------------------------
(* The calls.                                                              *)

\* _executeNext on the queue ts: resetData empties m_error, the request is made.
ExecuteNext(ts) == step' = StepAfter(ts) /\ error' = (error /\ ts = <<>>)

\* _addCommand
AddCommand(t) ==
  /\ tasks' = Append(tasks, t)
  /\ \/ tasks = <<>> /\ ExecuteNext(tasks')
     \/ tasks # <<>> /\ UNCHANGED <<step, error>>

\* A native command is running, or has run and is not answered.
InUse == step \in {"running", "returned"} /\ Cmd \notin {"writePub", "writePrv"}

\* SSHBase::init: the sessions are freed and a new one made (or not) at once.
NativeInit ==
  /\ session' \in {calls', 0} /\ conn' = "closed"
  /\ FreeSftp
  /\ racing' = (racing \/ InUse)

\* The first command of a call with keys.
QueueKeys(cmd, init) ==
  /\ keyed' = keyed \cup {calls'}
  /\ AddCommand([cmd |-> cmd, call |-> calls', init |-> init])

Counted == calls < MaxCalls /\ calls' = calls + 1 /\ UNCHANGED <<keys, answered, connects>>

\* init: the native init, and the first key is queued, if there are keys.
CallInit(withKeys) ==
  /\ Counted
  /\ NativeInit
  /\ \/ /\ withKeys
        /\ QueueKeys("writePub", TRUE)
        /\ given' = [pub |-> calls', prv |-> calls'] /\ overtaken' = FALSE
     \/ ~withKeys /\ UNCHANGED <<keyed, given, overtaken, queue, error>>

\* An init has not queued its private key: it does when its public key is set.
PrivateKeyToCome ==
  \E i \in 1..Len(tasks) : tasks[i].cmd \in {"writePub", "setPubKey"} /\ tasks[i].init

\* The user's own setPubKey and setPrvKey.
CallSetKey(cmd) ==
  /\ Counted
  /\ QueueKeys(cmd, FALSE)
  /\ given' = IF cmd = "writePub" THEN [given EXCEPT !.pub = calls']
                                  ELSE [given EXCEPT !.prv = calls']
  /\ overtaken' = IF cmd = "writePub" THEN overtaken ELSE PrivateKeyToCome
  /\ UNCHANGED <<sessions, racing>>

\* connect; the task remembers which keys were given last, and whether every
\* call before was done and left the last private key as the one that is set.
CallConnect ==
  /\ connects < MaxConnects
  /\ connects' = connects + 1
  /\ AddCommand([cmd |-> "connect", keys |-> given, ready |-> keyed = answered /\ ~overtaken])
  /\ UNCHANGED <<sessions, keys, calls, keyed, answered, given, overtaken, racing>>

-----------------------------------------------------------------------------
(* A worker thread, or the file system.                                    *)

Take ==
  /\ step = "queued" /\ step' = "running"
  /\ UNCHANGED <<tasks, error, sessions, keys, history>>

Return == step' = "returned" /\ UNCHANGED <<tasks, history>>

\* _writeTmpFile
WriteTmpFile ==
  /\ step = "running" /\ Cmd \in {"writePub", "writePrv"}
  /\ error' \in BOOLEAN
  /\ keyFailed' = (keyFailed \/ error')
  /\ Return
  /\ UNCHANGED <<sessions, pub, prv>>

\* What publickey_from_file and privatekey_from_file return.
KeyRead == IF error' THEN 0 ELSE Head(tasks).call

StartSetKey ==
  /\ step = "running" /\ Cmd \in {"setPubKey", "setPrvKey"}
  /\ error' \in BOOLEAN
  /\ keyFailed' = (keyFailed \/ error')
  /\ \/ Cmd = "setPubKey" /\ pub' = Store(pub, KeyRead) /\ UNCHANGED prv
     \/ Cmd = "setPrvKey" /\ prv' = Store(prv, KeyRead) /\ UNCHANGED pub
  /\ Return
  /\ UNCHANGED sessions

\* SSHBase::startConnect: a live connection is closed, a new one is opened and
\* authenticated, as far as that works.  It returns 1 or -1.
BaseConnect ==
  /\ conn' \in {"closed", "connected", "authenticated"}
  /\ session = 0 => conn' = "closed"
  /\ UNCHANGED session

\* SFTP::startConnect goes on whether the base returned 1 or -1, because it
\* tests for 0: an sftp session is created unless there is one, and then
\* initialised.
StartConnect ==
  /\ step = "running" /\ Cmd = "connect"
  /\ BaseConnect
  /\ LET failed == conn' # "authenticated" IN
     \/ /\ sftp = "none"  \* sftp_new fails
        /\ error' = AnyError(failed, TRUE)
        /\ UNCHANGED <<sftp, sftpOf>>
     \/ /\ sftp = "none" /\ ~failed  \* it succeeds
        /\ sftpOf' = session
        /\ \/ sftp' = "ready" /\ error' = AnyError(failed, FALSE)
           \/ sftp' = "new" /\ error' = AnyError(failed, TRUE)
     \/ /\ sftp # "none"  \* it is left from an earlier connection
        /\ sftp' = "stale"
        /\ \E e \in BOOLEAN : error' = AnyError(failed, e)
        /\ UNCHANGED sftpOf
  /\ Return
  /\ UNCHANGED keys

Worker == WriteTmpFile \/ StartSetKey \/ StartConnect

-----------------------------------------------------------------------------
(* The main thread: the 'callback' event of the head.                      *)

\* The command that follows c in init.
Following(c) ==
  CASE c = "writePub" -> "setPubKey"
    [] c = "setPubKey" -> "writePrv"
    [] c = "writePrv" -> "setPrvKey"

LastOfCall(t) == t.cmd = "setPrvKey" \/ (t.cmd = "setPubKey" /\ ~t.init)

\* The callback of the command queues the next step of the call, or calls the
\* call's callback; then the queue goes on.
Callback ==
  LET t == Head(tasks) IN
  /\ step = "returned"
  /\ \/ /\ Cmd \in KeyCmd /\ ~error /\ ~LastOfCall(t)
        /\ tasks' = Append(Tail(tasks), [t EXCEPT !.cmd = Following(Cmd)])
        /\ UNCHANGED answered
     \/ /\ Cmd \in KeyCmd /\ (error \/ LastOfCall(t))
        /\ tasks' = Tail(tasks)
        /\ answered' = answered \cup Tell(t, error)
     \/ /\ Cmd = "connect"
        /\ tasks' = Tail(tasks)
        /\ UNCHANGED answered
  /\ ExecuteNext(tasks')
  /\ UNCHANGED <<sessions, keys, calls, keyed, given, overtaken, connects, racing>>

Next ==
  \/ \E withKeys \in BOOLEAN : CallInit(withKeys)
  \/ \E cmd \in {"writePub", "writePrv"} : CallSetKey(cmd)
  \/ CallConnect
  \/ Take
  \/ Worker
  \/ Callback

Spec == Init /\ [][Next]_vars

\* Files are written and libssh's calls return; node serves their events.
FairSpec == Spec /\ WF_vars(Take) /\ WF_vars(Worker) /\ WF_vars(Callback)

-----------------------------------------------------------------------------
(* Properties.                                                             *)

\* A connect that is answered without an error has connected and authenticated
\* the session and initialised its sftp session, although startConnect goes on
\* after a failure of its base; unless the sftp session is one left from an
\* earlier connect, or init was called while a command was executed.
ConnectTold ==
  [][step = "returned" /\ Cmd = "connect" /\ step' # step /\ ~error /\ ~racing
       => conn = "authenticated" /\ sftp \in {"ready", "stale"}]_vars

\* The sftp session belongs to the session there is, whatever init is called
\* between and after connects.
SftpOfThisSession == sftp # "none" /\ ~racing => sftpOf = session

\* A connect called when every call that gives keys was done uses the last keys
\* that were given, though the commands of those calls have mixed in the queue and
\* later calls may have queued theirs in the meantime.  It does not if the last
\* setPrvKey was called before an older init had queued its private key, which is
\* then set behind it; nor is anything said when a key could not be written or set.
ConnectUsesLastKeys ==
  step = "running" /\ Cmd = "connect" /\ Head(tasks).ready /\ ~keyFailed
    => [pub |-> pub, prv |-> prv] = Head(tasks).keys

\* The callback of an init with keys, or of setPubKey or setPrvKey, is called,
\* whatever of it fails and whatever is queued in between.
KeysAnswered == \A i \in 1..MaxCalls : i \in keyed ~> i \in answered
=============================================================================
