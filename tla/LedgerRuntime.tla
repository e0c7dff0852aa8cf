---------------------------- MODULE LedgerRuntime ----------------------------
(***************************************************************************)
(* runtime/service.py: callers submit write commands through a queue to    *)
(* one writer thread and wait for a future, read under a lifecycle RWLock, *)
(* and close the runtime while others are in it.  Every wait has a timeout *)
(* that only ends the wait: a command that its caller gave up stays queued.*)
(*                                                                         *)
(* The store is reduced to what the runtime sees of it: open or closed, a  *)
(* writer lock, and writes that commit or raise (SqliteLedgerStore.tla).   *)
(***************************************************************************)
EXTENDS Naturals, Sequences, FiniteSets, SequencesExt

CONSTANTS Clients,    \* threads that use the runtime
          Commands,   \* write commands, each submitted at most once: the bound on writes
          Snapshots,  \* the commands that write a snapshot and commit nothing
          Calls,      \* per client, the kinds of calls it makes
          MaxBacklog, \* bound: a close() fails while the queue is no longer than this
          None

ASSUME RuntimeAssumption ==
  /\ Snapshots \subseteq Commands
  /\ Calls \in [Clients -> SUBSET {"write", "read", "pages", "start", "close"}]
  /\ MaxBacklog \in Nat
  /\ None \notin Clients \cup Commands

VARIABLES
  readers,     \* clients that hold the lifecycle lock for reading
  lockWriter,  \* the client that holds it for writing, or None
  queue,       \* commands, and None for the poison that wakes the writer thread
  stop,        \* the stop event
  started,     \* the _started flag
  store,       \* "open" or "closed"
  writer,      \* the next statement of the writer thread
  current,     \* the command it has taken, or None
  reply,       \* how the store answered the current command
  future,      \* per command, the state of its future
  committed,   \* commands in the order the store committed them
  pc,          \* per client, the next statement of its call
  cmd,         \* per client, the command it submits
  outcome,     \* per client, how its last call ended
  submitted,   \* history: commands in the order they were queued
  late,        \* history: commands queued after a close() had stopped the thread
  found        \* history: per client in a call, the state of the store when it got in

lock == <<readers, lockWriter>>
thread == <<writer, current, reply>>
vars == <<lock, queue, stop, started, store, thread, future, committed, pc, cmd, outcome,
          submitted, late, found>>

ClientSteps == {"idle", "gate for write", "gate for read", "submit", "wait", "read", "page",
                "gate for close", "set stop", "poison", "join", "close store"}
WriterSteps == {"test", "get", "dispatch", "execute", "resolve", "done"}
Replies == {"result", "exception", "closed"}
Outcomes == {"none", "ok", "raised"}

-----------------------------------------------------------------------------
Init ==
  /\ readers = {}
  /\ lockWriter = None
  /\ queue = <<>>
  /\ stop = FALSE
  /\ started = TRUE
  /\ store = "open"
  /\ writer = "test"
  /\ current = None
  /\ reply = "result"
  /\ future = [c \in Commands |-> "unused"]
  /\ committed = <<>>
  /\ pc = [t \in Clients |-> "idle"]
  /\ cmd = [t \in Clients |-> None]
  /\ outcome = [t \in Clients |-> "none"]
  /\ submitted = <<>>
  /\ late = {}
  /\ found = [t \in Clients |-> "open"]

Goto(t, step) == pc' = [pc EXCEPT ![t] = step]

End(t, result) ==
  /\ Goto(t, "idle")
  /\ outcome' = [outcome EXCEPT ![t] = result]
  /\ found' = [found EXCEPT ![t] = "open"]

-----------------------------------------------------------------------------
(* The writer thread.                                                      *)

LoopEnds_QueueIgnored == stop

LoopEnds == stop /\ queue = <<>>

TestLoop ==
  /\ writer = "test"
  /\ writer' = IF LoopEnds THEN "done" ELSE "get"
  /\ UNCHANGED <<lock, queue, stop, started, store, current, reply, future, committed, pc, cmd,
                 outcome, submitted, late, found>>

GetCommand_Newest ==
  /\ writer = "get"
  /\ queue # <<>>
  /\ queue' = Front(queue)
  /\ current' = Last(queue)
  /\ writer' = IF Last(queue) = None THEN "test" ELSE "dispatch"
  /\ UNCHANGED <<lock, stop, started, store, reply, future, committed, pc, cmd, outcome,
                 submitted, late, found>>

GetCommand_PoisonServed ==
  /\ writer = "get"
  /\ queue # <<>>
  /\ queue' = Tail(queue)
  /\ current' = Head(queue)
  /\ writer' = "dispatch"
  /\ UNCHANGED <<lock, stop, started, store, reply, future, committed, pc, cmd, outcome,
                 submitted, late, found>>

\* A poison is skipped.
GetCommand ==
  /\ writer = "get"
  /\ queue # <<>>
  /\ queue' = Tail(queue)
  /\ current' = Head(queue)
  /\ writer' = IF Head(queue) = None THEN "test" ELSE "dispatch"
  /\ UNCHANGED <<lock, stop, started, store, reply, future, committed, pc, cmd, outcome,
                 submitted, late, found>>

\* Nothing arrives for poll_interval seconds.
GetEmpty ==
  /\ writer = "get"
  /\ queue = <<>>
  /\ writer' = "test"
  /\ UNCHANGED <<lock, queue, stop, started, store, current, reply, future, committed, pc, cmd,
                 outcome, submitted, late, found>>

\* The store's _writer_lock is taken; a closed connection raises at once.
EnterStore ==
  /\ writer = "dispatch"
  /\ IF store = "open" THEN writer' = "execute" /\ UNCHANGED reply
                       ELSE writer' = "resolve" /\ reply' = "closed"
  /\ UNCHANGED <<lock, queue, stop, started, store, current, future, committed, pc, cmd,
                 outcome, submitted, late, found>>

Execute_ExceptionSwallowed ==
  /\ writer = "execute"
  /\ writer' = "resolve"
  /\ reply' = "result"
  /\ \/ committed' = IF current \in Snapshots THEN committed ELSE Append(committed, current)
     \/ UNCHANGED committed
  /\ UNCHANGED <<lock, queue, stop, started, store, current, future, pc, cmd, outcome,
                 submitted, late, found>>

\* The store commits the command or refuses it.  A write reads its receipt from
\* the connection after the COMMIT: it may also commit and then raise.
Execute ==
  /\ writer = "execute"
  /\ writer' = "resolve"
  /\ \/ /\ reply' \in {"result", "exception"}
        /\ committed' = IF current \in Snapshots THEN committed ELSE Append(committed, current)
     \/ /\ reply' = "exception"
        /\ UNCHANGED committed
  /\ UNCHANGED <<lock, queue, stop, started, store, current, future, pc, cmd, outcome,
                 submitted, late, found>>

Resolve_ExceptionKillsThread ==
  /\ writer = "resolve"
  /\ IF reply = "result"
     THEN future' = [future EXCEPT ![current] = reply] /\ writer' = "test"
     ELSE UNCHANGED future /\ writer' = "done"
  /\ current' = None
  /\ UNCHANGED <<lock, queue, stop, started, store, reply, committed, pc, cmd, outcome,
                 submitted, late, found>>

\* The future of the command is resolved, whether or not its caller still waits.
Resolve ==
  /\ writer = "resolve"
  /\ future' = [future EXCEPT ![current] = reply]
  /\ writer' = "test"
  /\ current' = None
  /\ UNCHANGED <<lock, queue, stop, started, store, reply, committed, pc, cmd, outcome,
                 submitted, late, found>>

WriterThread == \/ TestLoop
                \/ GetCommand
                \/ GetEmpty
                \/ EnterStore
                \/ Execute
                \/ Resolve

-----------------------------------------------------------------------------
(* The lifecycle lock (ftllexengine.runtime.RWLock).                       *)

\* Readers may be held back by a writer that waits, or may overtake it.
ReadLockBlocked == lockWriter # None \/ \E t \in Clients : pc[t] = "gate for close"

WriteLockBlocked_ReadersIgnored == lockWriter # None

WriteLockBlocked == lockWriter # None \/ readers # {}

EnterGate_Ungated(t, step) ==
  /\ found' = [found EXCEPT ![t] = store]
  /\ Goto(t, step)
  /\ UNCHANGED lock

\* "with self._lock.read(timeout=...)"
EnterGate(t, step) ==
  /\ lockWriter = None
  /\ readers' = readers \cup {t}
  /\ found' = [found EXCEPT ![t] = store]
  /\ Goto(t, step)
  /\ UNCHANGED lockWriter

\* The end of the with block, by return or by exception.
LeaveGate(t) == readers' = readers \ {t} /\ UNCHANGED lockWriter

-----------------------------------------------------------------------------
(* Writes: create_book, append_transaction, append_legislative_result,     *)
(* create_reversal and create_snapshot.                                    *)

CallWrite(t, c) ==
  /\ pc[t] = "idle"
  /\ future[c] = "unused"
  /\ \A u \in Clients : cmd[u] # c
  /\ cmd' = [cmd EXCEPT ![t] = c]
  /\ outcome' = [outcome EXCEPT ![t] = "none"]
  /\ Goto(t, "gate for write")
  /\ UNCHANGED <<lock, queue, stop, started, store, thread, future, committed, submitted, late,
                 found>>

GateForWrite(t) ==
  /\ pc[t] = "gate for write"
  /\ EnterGate(t, "submit")
  /\ UNCHANGED <<queue, stop, started, store, thread, future, committed, cmd, outcome,
                 submitted, late>>

GateTimeout(t) ==
  /\ pc[t] \in {"gate for write", "gate for read"}
  /\ ReadLockBlocked
  /\ End(t, "raised")
  /\ UNCHANGED <<lock, queue, stop, started, store, thread, future, committed, cmd, submitted,
                 late>>

\* The queue is unbounded: put never waits.
Submit(t) ==
  /\ pc[t] = "submit"
  /\ queue' = Append(queue, cmd[t])
  /\ future' = [future EXCEPT ![cmd[t]] = "pending"]
  /\ submitted' = Append(submitted, cmd[t])
  /\ late' = IF stop THEN late \cup {cmd[t]} ELSE late
  /\ Goto(t, "wait")
  /\ UNCHANGED <<lock, stop, started, store, thread, committed, cmd, outcome, found>>

Answer(t) ==
  /\ pc[t] = "wait"
  /\ future[cmd[t]] \in Replies
  /\ End(t, IF future[cmd[t]] = "result" THEN "ok" ELSE "raised")
  /\ LeaveGate(t)
  /\ UNCHANGED <<queue, stop, started, store, thread, future, committed, cmd, submitted, late>>

AnswerTimeout_Never(t) == FALSE

\* The caller gives up after queue_timeout + poll_interval; the command does not.
AnswerTimeout(t) ==
  /\ pc[t] = "wait"
  /\ future[cmd[t]] = "pending"
  /\ End(t, "raised")
  /\ LeaveGate(t)
  /\ UNCHANGED <<queue, stop, started, store, thread, future, committed, cmd, submitted, late>>

-----------------------------------------------------------------------------
(* Reads: get_book_snapshot, list_book_codes, iter_audit_log and           *)
(* debug_snapshot hold the lock; iter_audit_log_pages does not.            *)

CallRead(t) ==
  /\ pc[t] = "idle"
  /\ outcome' = [outcome EXCEPT ![t] = "none"]
  /\ Goto(t, "gate for read")
  /\ UNCHANGED <<lock, queue, stop, started, store, thread, future, committed, cmd, submitted,
                 late, found>>

GateForRead(t) ==
  /\ pc[t] = "gate for read"
  /\ EnterGate(t, "read")
  /\ UNCHANGED <<queue, stop, started, store, thread, future, committed, cmd, outcome,
                 submitted, late>>

Read(t) ==
  /\ pc[t] = "read"
  /\ End(t, IF store = "open" THEN "ok" ELSE "raised")
  /\ LeaveGate(t)
  /\ UNCHANGED <<queue, stop, started, store, thread, future, committed, cmd, submitted, late>>

CallPages(t) ==
  /\ pc[t] = "idle"
  /\ outcome' = [outcome EXCEPT ![t] = "none"]
  /\ Goto(t, "page")
  /\ UNCHANGED <<lock, queue, stop, started, store, thread, future, committed, cmd, submitted,
                 late, found>>

\* The last page of the iteration; the earlier ones change nothing here.
LastPage(t) ==
  /\ pc[t] = "page"
  /\ End(t, IF store = "open" THEN "ok" ELSE "raised")
  /\ UNCHANGED <<lock, queue, stop, started, store, thread, future, committed, cmd, submitted,
                 late>>

-----------------------------------------------------------------------------
(* start and close.                                                        *)

\* A thread object cannot be started a second time.
Start(t) ==
  /\ pc[t] = "idle"
  /\ outcome' = [outcome EXCEPT ![t] = IF started THEN "ok" ELSE "raised"]
  /\ UNCHANGED <<lock, queue, stop, started, store, thread, future, committed, pc, cmd,
                 submitted, late, found>>

CallClose(t) ==
  /\ pc[t] = "idle"
  /\ outcome' = [outcome EXCEPT ![t] = "none"]
  /\ Goto(t, IF started THEN "gate for close" ELSE "close store")
  /\ UNCHANGED <<lock, queue, stop, started, store, thread, future, committed, cmd, submitted,
                 late, found>>

GateForClose(t) ==
  /\ pc[t] = "gate for close"
  /\ ~WriteLockBlocked
  /\ lockWriter' = t
  /\ Goto(t, "set stop")
  /\ UNCHANGED <<readers, queue, stop, started, store, thread, future, committed, cmd, outcome,
                 submitted, late, found>>

CloseTimeout(t) ==
  /\ pc[t] = "gate for close"
  /\ WriteLockBlocked
  /\ End(t, "raised")
  /\ UNCHANGED <<lock, queue, stop, started, store, thread, future, committed, cmd, submitted,
                 late>>

SetStop(t) ==
  /\ pc[t] = "set stop"
  /\ stop' = TRUE
  /\ Goto(t, "poison")
  /\ UNCHANGED <<lock, queue, started, store, thread, future, committed, cmd, outcome,
                 submitted, late, found>>

PutPoison(t) ==
  /\ pc[t] = "poison"
  /\ queue' = Append(queue, None)
  /\ Goto(t, "join")
  /\ UNCHANGED <<lock, stop, started, store, thread, future, committed, cmd, outcome, submitted,
                 late, found>>

\* Thread.join(timeout) returns when the thread has ended and when it has not.
Join(t) ==
  /\ pc[t] = "join"
  /\ Goto(t, "close store")
  /\ UNCHANGED <<lock, queue, stop, started, store, thread, future, committed, cmd, outcome,
                 submitted, late, found>>

CloseStore_LockIgnored(t) ==
  /\ pc[t] = "close store"
  /\ store' = "closed"
  /\ End(t, IF store = "open" THEN "ok" ELSE "raised")
  /\ started' = IF store = "open" THEN FALSE ELSE started
  /\ lockWriter' = IF lockWriter = t THEN None ELSE lockWriter
  /\ UNCHANGED <<readers, queue, stop, thread, future, committed, cmd, submitted, late>>

\* SqliteLedgerStore.close waits for the store's writer lock, and raises on
\* connections that are closed already.
CloseStore(t) ==
  /\ pc[t] = "close store"
  /\ writer # "execute"
  /\ store' = "closed"
  /\ End(t, IF store = "open" THEN "ok" ELSE "raised")
  /\ started' = IF store = "open" THEN FALSE ELSE started
  /\ lockWriter' = IF lockWriter = t THEN None ELSE lockWriter
  /\ UNCHANGED <<readers, queue, stop, thread, future, committed, cmd, submitted, late>>

\* "pragma optimize" raises: the thread is stopped, but the store stays open.
CloseStoreFails(t) ==
  /\ pc[t] = "close store"
  /\ writer # "execute"
  /\ store = "open"
  /\ Len(queue) <= MaxBacklog
  /\ End(t, "raised")
  /\ lockWriter' = IF lockWriter = t THEN None ELSE lockWriter
  /\ UNCHANGED <<readers, queue, stop, started, store, thread, future, committed, cmd,
                 submitted, late>>

-----------------------------------------------------------------------------
Invoke(t) == \/ "write" \in Calls[t] /\ \E c \in Commands : CallWrite(t, c)
             \/ "read" \in Calls[t] /\ CallRead(t)
             \/ "pages" \in Calls[t] /\ CallPages(t)
             \/ "start" \in Calls[t] /\ Start(t)
             \/ "close" \in Calls[t] /\ CallClose(t)

Continue(t) == \/ GateForWrite(t)
               \/ GateTimeout(t)
               \/ Submit(t)
               \/ Answer(t)
               \/ AnswerTimeout(t)
               \/ GateForRead(t)
               \/ Read(t)
               \/ LastPage(t)
               \/ GateForClose(t)
               \/ CloseTimeout(t)
               \/ SetStop(t)
               \/ PutPoison(t)
               \/ Join(t)
               \/ CloseStore(t)
               \/ CloseStoreFails(t)

Next == WriterThread \/ \E t \in Clients : Invoke(t) \/ Continue(t)

Spec == Init /\ [][Next]_vars

\* The writer thread runs, and so does every caller inside the runtime: each of
\* its waits is bounded by a timeout.
FairSpec == Spec /\ WF_vars(WriterThread) /\ \A t \in Clients : WF_vars(Continue(t))

-----------------------------------------------------------------------------
(* Properties.                                                             *)

TypeOK ==
  /\ readers \subseteq Clients
  /\ lockWriter \in Clients \cup {None}
  /\ queue \in Seq(Commands \cup {None})
  /\ stop \in BOOLEAN /\ started \in BOOLEAN
  /\ store \in {"open", "closed"}
  /\ writer \in WriterSteps
  /\ current \in Commands \cup {None}
  /\ reply \in Replies
  /\ future \in [Commands -> Replies \cup {"unused", "pending"}]
  /\ committed \in Seq(Commands)
  /\ pc \in [Clients -> ClientSteps]
  /\ cmd \in [Clients -> Commands \cup {None}]
  /\ outcome \in [Clients -> Outcomes]
  /\ submitted \in Seq(Commands)
  /\ late \subseteq Commands
  /\ found \in [Clients -> {"open", "closed"}]

\* Writes take effect in the order they were submitted, each at most once, also
\* those whose callers gave up: what a client submits after a timeout cannot
\* overtake what timed out.
CommittedInOrder ==
  \A i, j \in DOMAIN committed : i < j =>
    \E k, l \in DOMAIN submitted : /\ k < l
                                   /\ submitted[k] = committed[i]
                                   /\ submitted[l] = committed[j]

\* What the future of a command tells its caller is true and final: a result only
\* for what was committed (or is a snapshot), a closed store only for what never
\* was, and whatever the answer, the command is neither queued nor being written any
\* more, so nothing takes effect after its caller was answered.  A plain exception
\* does not tell whether the command was committed: the receipt is read afterwards.
AnswersAreTrue ==
  \A c \in Commands :
    /\ future[c] = "result" => c \in Range(committed) \cup Snapshots
    /\ future[c] = "closed" => c \notin Range(committed)
    /\ future[c] \in Replies => c # current /\ c \notin Range(queue)

\* close() shuts nobody out who is in: a call that found the store open when it
\* got through the lifecycle lock never meets a closed store, however long it takes,
\* and its command is not answered by one.
CloseWaitsForCalls ==
  \A t \in Clients : found[t] = "open" =>
    /\ pc[t] \in {"submit", "wait", "read"} => store = "open"
    /\ pc[t] = "wait" => future[cmd[t]] # "closed"

\* The writer thread ends only when it has served every command that was queued
\* before a close() stopped it: stopping strands no command.
NothingStranded ==
  writer = "done" => \A i \in DOMAIN queue : queue[i] \in late \cup {None}

\* Nothing is committed after a close() has closed the store.
ClosedIsFinal == [][store = "closed" => committed' = committed]_vars

\* Every command that was queued before a close() stopped the thread is answered in
\* the end, also when the thread outlives the close().
AcceptedIsAnswered ==
  \A c \in Commands : future[c] = "pending" /\ c \notin late ~> future[c] # "pending"

\* The promise MultiBookRuntime relies on: calls get in while nobody closes the
\* runtime, it closes when nobody is in, and it stays closed once it is closed.
Lifecycle == INSTANCE RuntimeLifecycle
               WITH users <- readers, closing <- lockWriter # None, open <- store = "open"

ImplementsLifecycle == Lifecycle!Spec

\* Every call returns, whoever holds the lock and whether or not it is answered.
CallsReturn == \A t \in Clients : pc[t] # "idle" ~> pc[t] = "idle"
=============================================================================
