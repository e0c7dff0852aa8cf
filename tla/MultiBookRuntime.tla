-------------------------- MODULE MultiBookRuntime ---------------------------
(***************************************************************************)
(* runtime/multi_book.py: a dictionary of open books, one LedgerRuntime    *)
(* and one database file for each.  The dictionary has an RWLock; books    *)
(* are created and opened inside it, and closed outside it, while other    *)
(* threads may still use the runtime they looked up before.                *)
(*                                                                         *)
(* A runtime is reduced to its lifecycle (RuntimeLifecycle.tla) and to one *)
(* fact about its file: whether the book is stored in it.                  *)
(***************************************************************************)
CONSTANTS Threads,
          Books,
          Runtimes,  \* the runtimes that may be constructed: the bound on them
          Calls,     \* per thread, the kinds of calls it makes
          None

Ops == {"create_book", "open_book", "close_book", "close", "route", "list", "debug"}

ASSUME MultiBookAssumption ==
  /\ Calls \in [Threads -> SUBSET Ops]
  /\ None \notin Threads /\ None \notin Books /\ None \notin Runtimes /\ None \notin Ops

VARIABLES
  readers,   \* threads that hold the dictionary's lock for reading
  writer,    \* the thread that holds it for writing, or None
  runtimes,  \* the dictionary: per book, its runtime or None
  file,      \* per book: "absent", "empty" (schema only) or "stored"
  bookOf,    \* per runtime, the book its file belongs to, or None before it is constructed
  users,     \* per runtime, the threads inside one of its calls
  closing,   \* per runtime, its lifecycle lock is held for writing
  live,      \* per runtime, its store is open
  queued,    \* runtimes whose create command was given up by its caller
  pc, op, book,
  runtime,   \* per thread, the runtime its call works on, or None
  todo,      \* per thread, the runtimes it has yet to close or to look at
  outcome,
  orphans    \* history: runtimes that a failed call left running outside the dictionary

lock == <<readers, writer>>
lives == <<users, closing, live>>
vars == <<lock, runtimes, file, bookOf, lives, queued, pc, op, book, runtime, todo, outcome,
          orphans>>

\* The steps of a call that has looked a runtime up, or made one.
OnRuntime == {"persist", "wait", "register", "runtime gate", "stop", "call gate", "served"}

-----------------------------------------------------------------------------
Init ==
  /\ readers = {} /\ writer = None
  /\ runtimes = [b \in Books |-> None]
  /\ file = [b \in Books |-> "absent"]
  /\ bookOf = [i \in Runtimes |-> None]
  /\ users = [i \in Runtimes |-> {}]
  /\ closing = [i \in Runtimes |-> FALSE]
  /\ live = [i \in Runtimes |-> TRUE]
  /\ queued = {}
  /\ pc = [t \in Threads |-> "idle"]
  /\ op = [t \in Threads |-> None]
  /\ book = [t \in Threads |-> None]
  /\ runtime = [t \in Threads |-> None]
  /\ todo = [t \in Threads |-> {}]
  /\ outcome = [t \in Threads |-> "none"]
  /\ orphans = {}

Goto(t, step) == pc' = [pc EXCEPT ![t] = step]

\* The call returns or raises, which also ends its "with" block.
Release(t) == readers' = readers \ {t} /\ writer' = IF writer = t THEN None ELSE writer

End(t, result) ==
  /\ Goto(t, "idle")
  /\ outcome' = [outcome EXCEPT ![t] = result]
  /\ runtime' = [runtime EXCEPT ![t] = None]
  /\ todo' = [todo EXCEPT ![t] = {}]
  /\ op' = [op EXCEPT ![t] = None]
  /\ book' = [book EXCEPT ![t] = None]
  /\ Release(t)

Enter(t, i) == users' = [users EXCEPT ![i] = @ \cup {t}]
Leave(t, i) == users' = [users EXCEPT ![i] = @ \ {t}]

Registered == {runtimes[b] : b \in Books} \ {None}
Constructed == {i \in Runtimes : bookOf[i] # None}

-----------------------------------------------------------------------------
(* The dictionary's lock (ftllexengine.runtime.RWLock).                    *)

ForWriting == {"create_book", "open_book", "close_book", "close"}

Body(o) ==
  CASE o = "create_book" -> "create"
    [] o = "open_book" -> "open"
    [] o = "close_book" -> "pop"
    [] o = "close" -> "drain"
    [] o = "route" -> "lookup"
    [] OTHER -> o

Call(t, o, b) ==
  /\ pc[t] = "idle"
  /\ op' = [op EXCEPT ![t] = o]
  /\ book' = [book EXCEPT ![t] = b]
  /\ outcome' = [outcome EXCEPT ![t] = "none"]
  /\ Goto(t, "gate")
  /\ UNCHANGED <<lock, runtimes, file, bookOf, lives, queued, runtime, todo, orphans>>

\* Readers may be held back by a writer that waits, or may overtake it.
WriterWaits == \E u \in Threads : pc[u] = "gate" /\ op[u] \in ForWriting

Gate(t) ==
  /\ pc[t] = "gate"
  /\ writer = None
  /\ IF op[t] \in ForWriting
     THEN readers = {} /\ writer' = t /\ UNCHANGED readers
     ELSE readers' = readers \cup {t} /\ UNCHANGED writer
  /\ Goto(t, Body(op[t]))
  /\ UNCHANGED <<runtimes, file, bookOf, lives, queued, op, book, runtime, todo, outcome, orphans>>

GateTimeout_Never(t) == FALSE

\* read_lock_timeout or write_lock_timeout has passed.
GateTimeout(t) ==
  /\ pc[t] = "gate"
  /\ \/ writer # None
     \/ IF op[t] \in ForWriting THEN readers # {} ELSE WriterWaits
  /\ End(t, "Timeout")
  /\ UNCHANGED <<runtimes, file, bookOf, lives, queued, orphans>>

-----------------------------------------------------------------------------
(* create_book and open_book.                                              *)

AlreadyOpen_Unchecked(b) == FALSE

AlreadyOpen(b) == runtimes[b] # None

NextRuntime == CHOOSE i \in Runtimes : i \notin Constructed

\* _runtime_config_for gives the book a file of its own; the store makes it and
\* installs the schema; the writer thread starts.  The bound on runtimes is here.
Construct(t, step) ==
  /\ Runtimes \ Constructed # {}
  /\ bookOf' = [bookOf EXCEPT ![NextRuntime] = book[t]]
  /\ file' = [file EXCEPT ![book[t]] = IF @ = "absent" THEN "empty" ELSE @]
  /\ runtime' = [runtime EXCEPT ![t] = NextRuntime]
  /\ Goto(t, step)
  /\ UNCHANGED <<lock, runtimes, lives, queued, op, book, todo, outcome, orphans>>

\* The constructor raises, before or after SQLite made the file.
ConstructFails(t) ==
  /\ \/ UNCHANGED file
     \/ file' = [file EXCEPT ![book[t]] = IF @ = "absent" THEN "empty" ELSE @]
  /\ End(t, "Error")
  /\ UNCHANGED <<runtimes, bookOf, lives, queued, orphans>>

Create(t) ==
  /\ pc[t] = "create"
  /\ IF AlreadyOpen(book[t])
     THEN /\ End(t, "ValueError")
          /\ UNCHANGED <<runtimes, file, bookOf, lives, queued, orphans>>
     ELSE Construct(t, "persist") \/ ConstructFails(t)

Open(t) ==
  /\ pc[t] = "open"
  /\ IF AlreadyOpen(book[t]) \/ file[book[t]] = "absent"
     THEN /\ End(t, IF AlreadyOpen(book[t]) THEN "ok" ELSE "KeyError")
          /\ UNCHANGED <<runtimes, file, bookOf, lives, queued, orphans>>
     ELSE Construct(t, "register") \/ ConstructFails(t)

\* runtime.create_book submits the command while the dictionary stays locked.
Persist(t) ==
  /\ pc[t] = "persist"
  /\ Enter(t, runtime[t])
  /\ Goto(t, "wait")
  /\ UNCHANGED <<lock, runtimes, file, bookOf, closing, live, queued, op, book, runtime, todo,
                 outcome, orphans>>

Persisted(t) ==
  /\ pc[t] = "wait"
  /\ file[bookOf[runtime[t]]] = "empty"
  /\ file' = [file EXCEPT ![bookOf[runtime[t]]] = "stored"]
  /\ Leave(t, runtime[t])
  /\ Goto(t, "register")
  /\ UNCHANGED <<lock, runtimes, bookOf, closing, live, queued, op, book, runtime, todo, outcome,
                 orphans>>

\* The store refuses the book, or the answer takes too long; in both cases the
\* new runtime is dropped without being closed.
NotPersisted(t) ==
  /\ pc[t] = "wait"
  /\ \/ End(t, "Error") /\ UNCHANGED queued
     \/ End(t, "Timeout") /\ queued' = queued \cup {runtime[t]}
  /\ Leave(t, runtime[t])
  /\ orphans' = orphans \cup {runtime[t]}
  /\ UNCHANGED <<runtimes, file, bookOf, closing, live>>

\* The writer thread of a runtime serves a create command nobody waits for.
ServeLate(i) ==
  /\ i \in queued
  /\ queued' = queued \ {i}
  /\ \/ UNCHANGED file
     \/ /\ file[bookOf[i]] = "empty"
        /\ file' = [file EXCEPT ![bookOf[i]] = "stored"]
  /\ UNCHANGED <<lock, runtimes, bookOf, lives, pc, op, book, runtime, todo, outcome, orphans>>

Register(t) ==
  /\ pc[t] = "register"
  /\ runtimes' = [runtimes EXCEPT ![book[t]] = runtime[t]]
  /\ End(t, "ok")
  /\ UNCHANGED <<file, bookOf, lives, queued, orphans>>

-----------------------------------------------------------------------------
(* close_book and close.                                                   *)

Pop_Get(t) ==
  /\ pc[t] = "pop"
  /\ todo' = [todo EXCEPT ![t] = {runtimes[book[t]]} \ {None}]
  /\ Release(t)
  /\ Goto(t, "next")
  /\ UNCHANGED <<runtimes, file, bookOf, lives, queued, op, book, runtime, outcome, orphans>>

Pop(t) ==
  /\ pc[t] = "pop"
  /\ todo' = [todo EXCEPT ![t] = {runtimes[book[t]]} \ {None}]
  /\ runtimes' = [runtimes EXCEPT ![book[t]] = None]
  /\ Release(t)
  /\ Goto(t, "next")
  /\ UNCHANGED <<file, bookOf, lives, queued, op, book, runtime, outcome, orphans>>

Drain(t) ==
  /\ pc[t] = "drain"
  /\ todo' = [todo EXCEPT ![t] = Registered]
  /\ runtimes' = [b \in Books |-> None]
  /\ Release(t)
  /\ Goto(t, "next")
  /\ UNCHANGED <<file, bookOf, lives, queued, op, book, runtime, outcome, orphans>>

\* The order of the runtimes is that of the dictionary, which is left open here.
CloseNext(t) ==
  /\ pc[t] = "next"
  /\ IF todo[t] = {}
     THEN /\ End(t, "ok")
          /\ UNCHANGED <<runtimes, file, bookOf, lives, queued, orphans>>
     ELSE \E i \in todo[t] :
            /\ runtime' = [runtime EXCEPT ![t] = i]
            /\ todo' = [todo EXCEPT ![t] = @ \ {i}]
            /\ Goto(t, "runtime gate")
            /\ UNCHANGED <<lock, runtimes, file, bookOf, lives, queued, op, book, outcome, orphans>>

RuntimeGate_UsersIgnored(t) ==
  /\ pc[t] = "runtime gate"
  /\ ~closing[runtime[t]]
  /\ closing' = [closing EXCEPT ![runtime[t]] = TRUE]
  /\ Goto(t, "stop")
  /\ UNCHANGED <<lock, runtimes, file, bookOf, users, live, queued, op, book, runtime, todo,
                 outcome, orphans>>

\* LedgerRuntime.close takes the runtime's lifecycle lock.
RuntimeGate(t) ==
  /\ pc[t] = "runtime gate"
  /\ ~closing[runtime[t]]
  /\ users[runtime[t]] = {}
  /\ closing' = [closing EXCEPT ![runtime[t]] = TRUE]
  /\ Goto(t, "stop")
  /\ UNCHANGED <<lock, runtimes, file, bookOf, users, live, queued, op, book, runtime, todo,
                 outcome, orphans>>

\* The lock is not free in time: the exception ends the loop of close() too.
RuntimeGateTimeout(t) ==
  /\ pc[t] = "runtime gate"
  /\ closing[runtime[t]] \/ users[runtime[t]] # {}
  /\ End(t, "Timeout")
  /\ orphans' = orphans \cup todo[t] \cup {runtime[t]}
  /\ UNCHANGED <<runtimes, file, bookOf, lives, queued>>

\* The store does not close: the runtime keeps its file open and is not started
\* again, and the loop of close() ends here.
StopFails(t) ==
  /\ pc[t] = "stop"
  /\ closing' = [closing EXCEPT ![runtime[t]] = FALSE]
  /\ End(t, "Error")
  /\ orphans' = orphans \cup todo[t] \cup {runtime[t]}
  /\ UNCHANGED <<runtimes, file, bookOf, users, live, queued>>

Stop(t) ==
  /\ pc[t] = "stop"
  /\ closing' = [closing EXCEPT ![runtime[t]] = FALSE]
  /\ live' = [live EXCEPT ![runtime[t]] = FALSE]
  /\ Goto(t, "next")
  /\ UNCHANGED <<lock, runtimes, file, bookOf, users, queued, op, book, runtime, todo, outcome,
                 orphans>>

-----------------------------------------------------------------------------
(* The routing methods: append_transaction, create_reversal,               *)
(* append_legislative_result, get_book, iter_audit_log, create_snapshot.   *)

\* _require_runtime; the dictionary's lock is given back before the runtime is used.
Lookup(t) ==
  /\ pc[t] = "lookup"
  /\ IF runtimes[book[t]] = None
     THEN End(t, "KeyError")
     ELSE /\ runtime' = [runtime EXCEPT ![t] = runtimes[book[t]]]
          /\ Release(t)
          /\ Goto(t, "call gate")
          /\ UNCHANGED <<op, book, todo, outcome>>
  /\ UNCHANGED <<runtimes, file, bookOf, lives, queued, orphans>>

CallGate(t) ==
  /\ pc[t] = "call gate"
  /\ ~closing[runtime[t]]
  /\ Enter(t, runtime[t])
  /\ Goto(t, "served")
  /\ UNCHANGED <<lock, runtimes, file, bookOf, closing, live, queued, op, book, runtime, todo,
                 outcome, orphans>>

\* A closer holds the runtime's lock, or waits for it.
CloserAt(i) == closing[i] \/ \E u \in Threads : pc[u] = "runtime gate" /\ runtime[u] = i

CallGateTimeout(t) ==
  /\ pc[t] = "call gate"
  /\ CloserAt(runtime[t])
  /\ End(t, "Timeout")
  /\ UNCHANGED <<runtimes, file, bookOf, lives, queued, orphans>>

\* Reads of a closed store raise; writes get no answer from the ended thread.
Served(t) ==
  /\ pc[t] = "served"
  /\ \E result \in IF live[runtime[t]] THEN {"ok", "Error", "Timeout"} ELSE {"Closed", "Timeout"} :
       End(t, result)
  /\ Leave(t, runtime[t])
  /\ UNCHANGED <<runtimes, file, bookOf, closing, live, queued, orphans>>

-----------------------------------------------------------------------------
(* list_book_codes and debug_snapshot.                                     *)

List(t) ==
  /\ pc[t] = "list"
  /\ End(t, "ok")
  /\ UNCHANGED <<runtimes, file, bookOf, lives, queued, orphans>>

Debug_Unlocked(t) ==
  /\ pc[t] = "debug"
  /\ todo' = [todo EXCEPT ![t] = Registered]
  /\ Release(t)
  /\ Goto(t, "look")
  /\ UNCHANGED <<runtimes, file, bookOf, lives, queued, op, book, runtime, outcome, orphans>>

Debug(t) ==
  /\ pc[t] = "debug"
  /\ todo' = [todo EXCEPT ![t] = Registered]
  /\ Goto(t, "look")
  /\ UNCHANGED <<lock, runtimes, file, bookOf, lives, queued, op, book, runtime, outcome, orphans>>

\* runtime.debug_snapshot of each open book, one after the other.  It raises when
\* the runtime's lock is not free in time, or when the store is closed.
Look(t) ==
  /\ pc[t] = "look"
  /\ IF todo[t] = {}
     THEN End(t, "ok")
     ELSE \E i \in todo[t] :
            IF CloserAt(i) \/ ~live[i]
            THEN End(t, "Unavailable")
            ELSE /\ todo' = [todo EXCEPT ![t] = @ \ {i}]
                 /\ UNCHANGED <<lock, pc, op, book, runtime, outcome>>
  /\ UNCHANGED <<runtimes, file, bookOf, lives, queued, orphans>>

\* The store of an open book does not answer, for one when all its readers are lent.
LookFails(t) ==
  /\ pc[t] = "look"
  /\ todo[t] # {}
  /\ End(t, "Error")
  /\ UNCHANGED <<runtimes, file, bookOf, lives, queued, orphans>>

-----------------------------------------------------------------------------
\* The bound on runtimes also ends the calls that construct them.
Invoke(t) ==
  \E o \in Calls[t] :
    /\ o \in {"create_book", "open_book"} => Constructed # Runtimes
    /\ \E b \in IF o \in {"close", "list", "debug"} THEN {None} ELSE Books : Call(t, o, b)

Continue(t) == \/ Gate(t)
               \/ GateTimeout(t)
               \/ Create(t)
               \/ Open(t)
               \/ Persist(t)
               \/ Persisted(t)
               \/ NotPersisted(t)
               \/ Register(t)
               \/ Pop(t)
               \/ Drain(t)
               \/ CloseNext(t)
               \/ RuntimeGate(t)
               \/ RuntimeGateTimeout(t)
               \/ Stop(t)
               \/ StopFails(t)
               \/ Lookup(t)
               \/ CallGate(t)
               \/ CallGateTimeout(t)
               \/ Served(t)
               \/ List(t)
               \/ Debug(t)
               \/ Look(t)
               \/ LookFails(t)

Next == (\E i \in Runtimes : ServeLate(i)) \/ \E t \in Threads : Invoke(t) \/ Continue(t)

Spec == Init /\ [][Next]_vars

\* A thread inside the runtime keeps running: each of its waits has a timeout.
FairSpec == Spec /\ \A t \in Threads : WF_vars(Continue(t))

-----------------------------------------------------------------------------
(* Properties.                                                             *)

\* A book in the dictionary has a runtime of its own, on its own file, which is
\* open and which nobody is closing: who looks a book up may use what is found.
RegisteredRuns ==
  \A b \in Books : runtimes[b] # None =>
    /\ bookOf[runtimes[b]] = b
    /\ live[runtimes[b]] /\ ~closing[runtimes[b]]
    /\ \A t \in Threads : pc[t] \in {"next", "runtime gate", "stop"} =>
         runtimes[b] \notin todo[t] /\ (pc[t] # "next" => runtimes[b] # runtime[t])

\* A thread holds a runtime that is not, or no more, in the dictionary.
InHand(i) ==
  \E t \in Threads : \/ pc[t] \in {"persist", "wait", "register", "runtime gate", "stop"}
                        /\ runtime[t] = i
                     \/ pc[t] \in {"next", "runtime gate", "stop"} /\ i \in todo[t]

\* No runtime is forgotten while calls succeed: one that runs is in the
\* dictionary, in the hands of a call, or was left by a call that failed.
NoneForgotten ==
  \A i \in Constructed : live[i] => i \in Registered \/ InHand(i) \/ i \in orphans

\* debug_snapshot, which takes each runtime's lock inside the dictionary's,
\* never meets a runtime that is closed or being closed, and never loses its
\* wait for a runtime's lock to a closer.
SnapshotsAnswer == \A t \in Threads : outcome[t] # "Unavailable"

L(i) == INSTANCE RuntimeLifecycle
          WITH Clients <- Threads, users <- users[i], closing <- closing[i], open <- live[i]

\* Every runtime is used as its lifecycle allows: it is closed once, and never
\* around a call that is inside, although it is looked up and used under
\* different locks.
UsesLifecycle ==
  /\ \A i \in Runtimes : L(i)!Init
  /\ [][\A i \in Runtimes : [L(i)!Next]_<<users[i], closing[i], live[i]>>]_lives

\* Every call returns, also those that wait for a lock across another call's I/O.
CallsReturn == \A t \in Threads : pc[t] # "idle" ~> pc[t] = "idle"
=============================================================================
