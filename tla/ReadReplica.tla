----------------------------- MODULE ReadReplica -----------------------------
(***************************************************************************)
(* persistence/replica.py and the AsyncLedgerReader of persistence/store.py*)
(* that it wraps.  The methods are coroutines of one event loop: a step    *)
(* runs from one await to the next, and other tasks run in between.  Every *)
(* SELECT of a read is such a step, on the connection the read began with; *)
(* a refresh opens a connection, makes it the current one and closes the   *)
(* one it found.  What the SELECTs see is StoreReads' subject.             *)
(***************************************************************************)
EXTENDS Naturals, FiniteSets

CONSTANTS Tasks,        \* asyncio tasks, and generators between two pages
          Connections,  \* bound: the connections that are ever opened
          None

ASSUME ReplicaAssumption == Connections # {} /\ None \notin Connections

VARIABLES
  reader,  \* the connection of _reader
  state,   \* per connection: unused, open or closed
  due,     \* the checkpoint interval has elapsed since _last_refresh
  closed,  \* history: close() was called
  lost,    \* history: connections that nobody will close
  broken,  \* history: reads that found their connection closed before close()
  pc,      \* per task, what it awaits
  goal,    \* per task, the method it called
  uses,    \* per task, the connection its read runs on
  old,     \* per task, the reader its refresh found
  fresh    \* per task, the connection its refresh has opened

vars == <<reader, state, due, closed, lost, broken, pc, goal, uses, old, fresh>>

Reads == {"list_book_codes", "load_book", "iter_audit_log", "iter_audit_log_pages"}

\* The SELECTs of _load_book_from_async_connection; entries are read once per
\* transaction.
LoadSteps == {"book", "accounts", "periods", "transactions", "entries"}

-----------------------------------------------------------------------------
\* ReadReplica.open has returned.
Init ==
  /\ reader \in Connections
  /\ state = [c \in Connections |-> IF c = reader THEN "open" ELSE "unused"]
  /\ due = FALSE
  /\ closed = FALSE
  /\ lost = {}
  /\ broken = {}
  /\ pc = [t \in Tasks |-> "idle"]
  /\ goal = [t \in Tasks |-> None]
  /\ uses = [t \in Tasks |-> None]
  /\ old = [t \in Tasks |-> None]
  /\ fresh = [t \in Tasks |-> None]

Goto(t, step) == pc' = [pc EXCEPT ![t] = step]

\* The call returns or raises.
Leave(t) ==
  /\ Goto(t, "idle")
  /\ goal' = [goal EXCEPT ![t] = None]
  /\ uses' = [uses EXCEPT ![t] = None]
  /\ old' = [old EXCEPT ![t] = None]
  /\ fresh' = [fresh EXCEPT ![t] = None]

Tick ==
  /\ ~due
  /\ due' = TRUE
  /\ UNCHANGED <<reader, state, closed, lost, broken, pc, goal, uses, old, fresh>>

-----------------------------------------------------------------------------
(* Calls.                                                                  *)

FirstSelect(method) == IF method = "load_book" THEN "book" ELSE "select"

BeginRefresh_CloseFirst(t, method) ==
  /\ goal' = [goal EXCEPT ![t] = method]
  /\ old' = [old EXCEPT ![t] = reader]
  /\ state' = [state EXCEPT ![reader] = "closed"]
  /\ Goto(t, "connect")
  /\ UNCHANGED <<reader, due, closed, lost, broken, uses, fresh>>

BeginRefresh(t, method) ==
  /\ goal' = [goal EXCEPT ![t] = method]
  /\ old' = [old EXCEPT ![t] = reader]
  /\ Goto(t, "connect")
  /\ UNCHANGED <<reader, state, due, closed, lost, broken, uses, fresh>>

\* A read refreshes first when the interval has elapsed.
CallRead(t, method) ==
  /\ pc[t] = "idle"
  /\ IF due THEN BeginRefresh(t, method)
     ELSE /\ goal' = [goal EXCEPT ![t] = method]
          /\ uses' = [uses EXCEPT ![t] = reader]
          /\ Goto(t, FirstSelect(method))
          /\ UNCHANGED <<reader, state, due, closed, lost, broken, old, fresh>>

CallRefresh(t) ==
  /\ pc[t] = "idle"
  /\ BeginRefresh(t, "refresh")

\* close() awaits nothing.
Close(t) ==
  /\ pc[t] = "idle"
  /\ state' = [state EXCEPT ![reader] = "closed"]
  /\ closed' = TRUE
  /\ UNCHANGED <<reader, due, lost, broken, pc, goal, uses, old, fresh>>

-----------------------------------------------------------------------------
(* AsyncLedgerReader.open: a connection, then awaits that configure and    *)
(* check it.                                                               *)

Connect(t) ==
  /\ pc[t] = "connect"
  /\ \E c \in Connections :
       /\ state[c] = "unused"
       /\ state' = [state EXCEPT ![c] = "open"]
       /\ fresh' = [fresh EXCEPT ![t] = c]
  /\ Goto(t, "check")
  /\ UNCHANGED <<reader, due, closed, lost, broken, goal, uses, old>>

\* The file cannot be opened, or the task is cancelled before it is.
ConnectFails(t) ==
  /\ pc[t] = "connect"
  /\ Leave(t)
  /\ UNCHANGED <<reader, state, due, closed, lost, broken>>

\* Not read-only, or other reserve bytes: the connection is closed.
CheckFails(t) ==
  /\ pc[t] = "check"
  /\ state' = [state EXCEPT ![fresh[t]] = "closed"]
  /\ Leave(t)
  /\ UNCHANGED <<reader, due, closed, lost, broken>>

\* An await in the middle raises or is cancelled: nobody has the connection.
OpenCut(t) ==
  /\ pc[t] = "check"
  /\ lost' = lost \cup {fresh[t]}
  /\ Leave(t)
  /\ UNCHANGED <<reader, state, due, closed, broken>>

Opened_OldKept(t) ==
  /\ pc[t] = "check"
  /\ reader' = fresh[t]
  /\ due' = FALSE
  /\ lost' = IF reader = old[t] THEN lost ELSE lost \cup {reader}
  /\ IF goal[t] = "refresh" THEN Leave(t)
     ELSE /\ uses' = [uses EXCEPT ![t] = fresh[t]]
          /\ old' = [old EXCEPT ![t] = None]
          /\ fresh' = [fresh EXCEPT ![t] = None]
          /\ Goto(t, FirstSelect(goal[t]))
          /\ UNCHANGED goal
  /\ UNCHANGED <<state, closed, broken>>

\* The new connection becomes current and the captured one is closed, although
\* another refresh may have replaced and closed that one meanwhile: the reader
\* which that refresh opened is then lost.  A read goes on at once.
Opened(t) ==
  /\ pc[t] = "check"
  /\ reader' = fresh[t]
  /\ due' = FALSE
  /\ state' = [state EXCEPT ![old[t]] = "closed"]
  /\ lost' = IF reader = old[t] THEN lost ELSE lost \cup {reader}
  /\ IF goal[t] = "refresh" THEN Leave(t)
     ELSE /\ uses' = [uses EXCEPT ![t] = fresh[t]]
          /\ old' = [old EXCEPT ![t] = None]
          /\ fresh' = [fresh EXCEPT ![t] = None]
          /\ Goto(t, FirstSelect(goal[t]))
          /\ UNCHANGED goal
  /\ UNCHANGED <<closed, broken>>

-----------------------------------------------------------------------------
(* Reads.                                                                  *)

Ready(t) == state[uses[t]] = "open"

\* The next SELECT of load_book; for the entries, of the next transaction.
LoadStep(t) ==
  /\ pc[t] \in LoadSteps
  /\ Ready(t)
  /\ \/ /\ pc[t] = "book" /\ Goto(t, "accounts")
     \/ /\ pc[t] = "accounts" /\ Goto(t, "periods")
     \/ /\ pc[t] = "periods" /\ Goto(t, "transactions")
     \/ /\ pc[t] \in {"transactions", "entries"} /\ Goto(t, "entries")
  /\ UNCHANGED <<reader, state, due, closed, lost, broken, goal, uses, old, fresh>>

\* The last SELECT: the book is built and checked, or there is no such book.
LoadDone(t) ==
  /\ pc[t] \in {"book", "transactions", "entries"}
  /\ Ready(t)
  /\ Leave(t)
  /\ UNCHANGED <<reader, state, due, closed, lost, broken>>

SelectDone(t) ==
  /\ pc[t] = "select"
  /\ goal[t] # "iter_audit_log_pages"
  /\ Ready(t)
  /\ Leave(t)
  /\ UNCHANGED <<reader, state, due, closed, lost, broken>>

\* A page is yielded, and the consumer comes back for the next or drops the
\* generator; no rows end it.
Page(t) ==
  /\ pc[t] = "select"
  /\ goal[t] = "iter_audit_log_pages"
  /\ Ready(t)
  /\ \/ /\ Goto(t, "yielded")
        /\ UNCHANGED <<goal, uses, old, fresh>>
     \/ Leave(t)
  /\ UNCHANGED <<reader, state, due, closed, lost, broken>>

NextPage(t) ==
  /\ pc[t] = "yielded"
  /\ \/ /\ Goto(t, "select")
        /\ UNCHANGED <<goal, uses, old, fresh>>
     \/ Leave(t)
  /\ UNCHANGED <<reader, state, due, closed, lost, broken>>

\* The connection was closed under the read.
ReadFails(t) ==
  /\ pc[t] \in LoadSteps \cup {"select"}
  /\ ~Ready(t)
  /\ broken' = IF closed THEN broken ELSE broken \cup {goal[t]}
  /\ Leave(t)
  /\ UNCHANGED <<reader, state, due, closed, lost>>

-----------------------------------------------------------------------------
Call(t) == \/ \E method \in Reads : CallRead(t, method)
           \/ CallRefresh(t)
           \/ Close(t)

Await(t) == \/ Connect(t) \/ ConnectFails(t)
            \/ CheckFails(t) \/ OpenCut(t) \/ Opened(t)
            \/ LoadStep(t) \/ LoadDone(t)
            \/ SelectDone(t) \/ Page(t) \/ NextPage(t)
            \/ ReadFails(t)

Next == \/ Tick
        \/ \E t \in Tasks : Call(t) \/ Await(t)

Spec == Init /\ [][Next]_vars

-----------------------------------------------------------------------------
(* Properties.                                                             *)

\* Before close() the replica always has an open connection, whatever refreshes
\* fail, are cancelled or overlap: the new one replaces the old one before that
\* is closed (refresh).
CurrentIsOpen == ~closed => state[reader] = "open"

\* A connection that is open is the current one, or one that a refresh in
\* progress holds; connections leak in two ways only: refreshes that overlap,
\* and an open that is cut short.
OnlyKnownLeaks ==
  \A c \in Connections :
    state[c] = "open" => c \in {reader} \cup lost \cup {fresh[t] : t \in Tasks}

\* A generator of pages is served to its end while nobody closes the replica,
\* as one of AsyncLedgerReader's own is.
PagesAreServed == "iter_audit_log_pages" \notin broken
=============================================================================
