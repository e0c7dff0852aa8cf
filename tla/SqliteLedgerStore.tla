-------------------------- MODULE SqliteLedgerStore --------------------------
(***************************************************************************)
(* The write side of persistence/store.py, statement by statement: threads *)
(* call the write methods of SqliteLedgerStore objects that may share one  *)
(* database file.  A store has one writer connection, a _writer_lock and   *)
(* an audit context that its SQL triggers read; the file has SQLite's one  *)
(* write lock, taken by BEGIN IMMEDIATE.  Statements outside a transaction *)
(* see the committed database, rows are inserted one by one into the open  *)
(* transaction, and an error or a crash rolls the transaction back.        *)
(*                                                                         *)
(* Each write is shown to be one atomic step of Ledger.tla.                *)
(***************************************************************************)
EXTENDS LedgerData, SequencesExt

CONSTANTS Threads,         \* callers of the write methods
          Stores,          \* SqliteLedgerStore objects on the one file
          StoreOf,         \* the store each thread calls
          Requests,        \* the write requests that callers make
          MaxLegislative   \* bound: the most legislative rows the audit log takes

ASSUME StoreAssumption ==
  /\ StoreOf \in [Threads -> Stores]
  /\ None \notin Threads \cup Stores
  /\ Requests \subseteq Request
  /\ MaxLegislative \in Nat

VARIABLES
  db,          \* the committed database
  work,        \* the database as the open transaction sees it; db when none is open
  dbLock,      \* the store whose connection holds SQLite's write lock, or None
  writerLock,  \* per store, the thread that holds _writer_lock, or None
  auditState,  \* per store, the actor that audit_actor() returns
  pc,          \* per thread, the next statement of its call
  req,         \* per thread, the request of its call
  journals,    \* per thread, transactions still to be inserted
  rows,        \* per thread, rows of the current transaction still to be inserted
  outcome,     \* per thread, how its last call ended
  receipts     \* history: requests that a receipt was returned for

vars == <<db, work, dbLock, writerLock, auditState, pc, req, journals, rows, outcome, receipts>>

Steps == {"idle", "lock", "accounts", "original", "reversed", "duplicate", "entries",
          "begin", "insert", "receipt"}
Outcomes == {"none", "ok", "KeyError", "ValueError", "ConstraintError", "BusyError", "IOError"}

-----------------------------------------------------------------------------
Init ==
  /\ db = EmptyDatabase
  /\ work = EmptyDatabase
  /\ dbLock = None
  /\ writerLock = [s \in Stores |-> None]
  /\ auditState = [s \in Stores |-> None]
  /\ pc = [t \in Threads |-> "idle"]
  /\ req = [t \in Threads |-> None]
  /\ journals = [t \in Threads |-> <<>>]
  /\ rows = [t \in Threads |-> <<>>]
  /\ outcome = [t \in Threads |-> "none"]
  /\ receipts = {}

Goto(t, step) == pc' = [pc EXCEPT ![t] = step]

Rollback_Missing == dbLock' = None /\ UNCHANGED work

\* Leaving "with self._writer_connection" with an exception.
Rollback == dbLock' = None /\ work' = db

Release_OnlyOnSuccess(t) ==
  /\ auditState' = [auditState EXCEPT ![StoreOf[t]] = None]
  /\ IF pc[t] = "receipt" THEN writerLock' = [writerLock EXCEPT ![StoreOf[t]] = None]
                           ELSE UNCHANGED writerLock

\* Leaving "with self._writer_lock, ..., self._audit_context(...)" in any way.
Release(t) ==
  /\ auditState' = [auditState EXCEPT ![StoreOf[t]] = None]
  /\ writerLock' = [writerLock EXCEPT ![StoreOf[t]] = None]

\* The call raises: an open transaction is rolled back, the previous audit
\* context is restored and the writer lock is released.
Raise(t, error) ==
  /\ outcome' = [outcome EXCEPT ![t] = error]
  /\ Goto(t, "idle")
  /\ Release(t)
  /\ IF pc[t] = "insert" THEN Rollback ELSE UNCHANGED <<dbLock, work>>
  /\ rows' = [rows EXCEPT ![t] = <<>>]
  /\ journals' = [journals EXCEPT ![t] = <<>>]
  /\ UNCHANGED <<db, req, receipts>>

-----------------------------------------------------------------------------
(* A call, up to the writer lock.                                          *)

LegislativeLoad ==
  Cardinality({i \in DOMAIN db.audit : db.audit[i].table = "legislative_validation"})
    + Cardinality({t \in Threads : pc[t] # "idle" /\ req[t].op = "append_legislative_result"})

\* append_transaction refuses a transaction that is not posted before it locks.
Call(t, r) ==
  /\ pc[t] = "idle"
  /\ Constructible(r)
  /\ r.op = "append_legislative_result" => LegislativeLoad < MaxLegislative
  /\ req' = [req EXCEPT ![t] = r]
  /\ IF r.op = "append_transaction" /\ r.tx.state # "posted"
       THEN outcome' = [outcome EXCEPT ![t] = "ValueError"] /\ UNCHANGED pc
       ELSE outcome' = [outcome EXCEPT ![t] = "none"] /\ Goto(t, "lock")
  /\ UNCHANGED <<db, work, dbLock, writerLock, auditState, journals, rows, receipts>>

FirstStatement(op) ==
  CASE op = "append_transaction" -> "accounts"
    [] op = "append_reversal" -> "original"
    [] op \in {"create_book", "append_legislative_result"} -> "begin"

LockFree_Always(t) == TRUE

LockFree(t) == writerLock[StoreOf[t]] = None

Acquire(t) ==
  /\ pc[t] = "lock"
  /\ LockFree(t)
  /\ writerLock' = [writerLock EXCEPT ![StoreOf[t]] = t]
  /\ Goto(t, FirstStatement(req[t].op))
  /\ UNCHANGED <<db, work, dbLock, auditState, req, journals, rows, outcome, receipts>>

-----------------------------------------------------------------------------
(* The reads that append_transaction and append_reversal make under the    *)
(* writer lock, each an autocommit SELECT on the writer connection.        *)

\* A read that finds fault raises; one that does not goes to the next statement.
Check(t, error, next) ==
  IF error # "none"
  THEN Raise(t, error)
  ELSE /\ Goto(t, next)
       /\ UNCHANGED <<db, work, dbLock, writerLock, auditState, req, journals, rows, outcome,
                      receipts>>

SelectAccounts(t) ==
  LET codes == {r.key[1] : r \in RowsOf(db, "accounts")}
      tx == req[t].tx
  IN /\ pc[t] = "accounts"
     /\ Check(t, IF codes = {} THEN "KeyError"
                 ELSE IF \E i \in DOMAIN tx.lines : tx.lines[i].account \notin codes
                      THEN "ValueError" ELSE "none",
              "begin")

SelectOriginal(t) ==
  /\ pc[t] = "original"
  /\ Check(t, IF HasTransaction(db, req[t].original) THEN "none"
              ELSE IF HasRow(db, "books", <<>>) THEN "ValueError" ELSE "KeyError",
           "reversed")

SelectReversal(t) ==
  /\ pc[t] = "reversed"
  /\ Check(t, IF IsReversed(db, req[t].original) THEN "ValueError" ELSE "none", "duplicate")

SelectDuplicate(t) ==
  /\ pc[t] = "duplicate"
  /\ Check(t, IF HasTransaction(db, req[t].reversal) THEN "ValueError" ELSE "none", "entries")

\* The entries are loaded and inverted and the reversal is constructed, which
\* validates it; the original's header, read three statements ago, is immutable.
SelectEntries(t) ==
  LET reversal == ReversalOf(db, req[t].original, req[t].reversal)
  IN /\ pc[t] = "entries"
     /\ IF reversal \in Journal /\ ValidJournal(reversal)
          THEN /\ journals' = [journals EXCEPT ![t] = <<reversal>>]
               /\ Goto(t, "begin")
               /\ UNCHANGED <<db, work, dbLock, writerLock, auditState, req, rows, outcome,
                              receipts>>
          ELSE Raise(t, "ValueError")

-----------------------------------------------------------------------------
(* The SQLite transaction.                                                 *)

\* What the body of the transaction inserts: rows first, then journals.
Masters(r) ==
  CASE r.op = "create_book" -> MasterRows(r.accounts, r.periods)
    [] r.op = "append_legislative_result" -> <<LegislativeRow(r.ref)>>
    [] r.op \in {"append_transaction", "append_reversal"} -> <<>>

\* A reversal was constructed before the transaction began.
Journals(r, constructed) ==
  CASE r.op = "create_book" -> r.transactions
    [] r.op = "append_legislative_result" -> <<>>
    [] r.op = "append_transaction" -> <<r.tx>>
    [] r.op = "append_reversal" -> constructed

Context_NotForReversals(r) == IF r.op = "append_reversal" THEN None ELSE r.actor

\* The actor that _audit_context exposes to the triggers for one call.
Context(r) == r.actor

Begin_NoWriteLock(t) ==
  /\ pc[t] = "begin"
  /\ dbLock' = StoreOf[t]
  /\ auditState' = [auditState EXCEPT ![StoreOf[t]] = Context(req[t])]
  /\ rows' = [rows EXCEPT ![t] = Masters(req[t])]
  /\ journals' = [journals EXCEPT ![t] = Journals(req[t], @)]
  /\ Goto(t, "insert")
  /\ UNCHANGED <<db, work, writerLock, req, outcome, receipts>>

\* The audit context is set and BEGIN IMMEDIATE takes the write lock.
Begin(t) ==
  /\ pc[t] = "begin"
  /\ dbLock = None
  /\ dbLock' = StoreOf[t]
  /\ auditState' = [auditState EXCEPT ![StoreOf[t]] = Context(req[t])]
  /\ rows' = [rows EXCEPT ![t] = Masters(req[t])]
  /\ journals' = [journals EXCEPT ![t] = Journals(req[t], @)]
  /\ Goto(t, "insert")
  /\ UNCHANGED <<db, work, writerLock, req, outcome, receipts>>

\* Another connection kept the write lock longer than the busy timeout.
BeginBusy(t) ==
  /\ pc[t] = "begin"
  /\ dbLock # None
  /\ Raise(t, "BusyError")

\* The primary key, foreign key and CHECK constraints of the schema.
Allowed(d, row) ==
  /\ row.table \in CoreTables => ~HasRow(d, row.table, row.key)
  /\ row.table \in {"accounts", "periods", "transactions"} => HasRow(d, "books", <<>>)
  /\ row.table = "entries" =>
       /\ row.data.amount # NegativeZero
       /\ HasTransaction(d, row.key[1])
       /\ HasRow(d, "accounts", <<row.data.account, 1>>)

Insert_OwnTable(d, row, actor) ==
  [rows |-> d.rows \cup {row}, audit |-> Append(d.audit, Signed(row, actor))]

\* The row goes into its table and the AFTER INSERT trigger signs it; a
\* legislative result is inserted into the audit log itself.
Insert(d, row, actor) ==
  [rows |-> IF row.table \in CoreTables THEN d.rows \cup {row} ELSE d.rows,
   audit |-> Append(d.audit, Signed(row, actor))]

InsertRow(t) ==
  /\ pc[t] = "insert"
  /\ rows[t] # <<>>
  /\ Allowed(work, Head(rows[t]))
  /\ work' = Insert(work, Head(rows[t]), auditState[StoreOf[t]])
  /\ rows' = [rows EXCEPT ![t] = Tail(@)]
  /\ UNCHANGED <<db, dbLock, writerLock, auditState, pc, req, journals, outcome, receipts>>

InsertRejected(t) ==
  /\ pc[t] = "insert"
  /\ rows[t] # <<>>
  /\ ~Allowed(work, Head(rows[t]))
  /\ Raise(t, "ConstraintError")

\* _insert_transaction_rows of the next transaction.
NextJournal(t) ==
  /\ pc[t] = "insert"
  /\ rows[t] = <<>>
  /\ journals[t] # <<>>
  /\ rows' = [rows EXCEPT ![t] = TransactionRows(Head(journals[t]))]
  /\ journals' = [journals EXCEPT ![t] = Tail(@)]
  /\ UNCHANGED <<db, work, dbLock, writerLock, auditState, pc, req, outcome, receipts>>

BodyDone_AfterOneJournal(t) == rows[t] = <<>>

BodyDone(t) == rows[t] = <<>> /\ journals[t] = <<>>

Commit(t) ==
  /\ pc[t] = "insert"
  /\ BodyDone(t)
  /\ db' = work
  /\ dbLock' = None
  /\ Goto(t, "receipt")
  /\ UNCHANGED <<work, writerLock, auditState, req, journals, rows, outcome, receipts>>

\* The disk is full or fails: any statement of the transaction may raise.
WriteFails(t) ==
  /\ pc[t] = "insert"
  /\ Raise(t, "IOError")

\* The receipt is built, the audit context restored, the writer lock released.
Return(t) ==
  /\ pc[t] = "receipt"
  /\ outcome' = [outcome EXCEPT ![t] = "ok"]
  /\ receipts' = receipts \cup {req[t]}
  /\ Goto(t, "idle")
  /\ Release(t)
  /\ UNCHANGED <<db, work, dbLock, req, journals, rows>>

\* The changeset, the patchset or the data_version cannot be read: the call
\* raises although its write is committed.
ReceiptFails(t) ==
  /\ pc[t] = "receipt"
  /\ Raise(t, "IOError")

-----------------------------------------------------------------------------
Crash_LosesWal ==
  /\ work' = EmptyDatabase
  /\ db' = EmptyDatabase
  /\ dbLock' = None
  /\ writerLock' = [s \in Stores |-> None]
  /\ auditState' = [s \in Stores |-> None]
  /\ pc' = [t \in Threads |-> "idle"]
  /\ req' = [t \in Threads |-> None]
  /\ journals' = [t \in Threads |-> <<>>]
  /\ rows' = [t \in Threads |-> <<>>]
  /\ outcome' = [t \in Threads |-> "none"]
  /\ UNCHANGED receipts

\* The process dies and is started again: only the committed database is left.
Crash ==
  /\ work' = db
  /\ dbLock' = None
  /\ writerLock' = [s \in Stores |-> None]
  /\ auditState' = [s \in Stores |-> None]
  /\ pc' = [t \in Threads |-> "idle"]
  /\ req' = [t \in Threads |-> None]
  /\ journals' = [t \in Threads |-> <<>>]
  /\ rows' = [t \in Threads |-> <<>>]
  /\ outcome' = [t \in Threads |-> "none"]
  /\ UNCHANGED <<db, receipts>>

Read(t) == \/ SelectAccounts(t)
           \/ SelectOriginal(t)
           \/ SelectReversal(t)
           \/ SelectDuplicate(t)
           \/ SelectEntries(t)

Write(t) == \/ Begin(t)
            \/ BeginBusy(t)
            \/ InsertRow(t)
            \/ InsertRejected(t)
            \/ NextJournal(t)
            \/ Commit(t)
            \/ WriteFails(t)

ThreadStep(t) == \/ \E r \in Requests : Call(t, r)
                 \/ Acquire(t)
                 \/ Read(t)
                 \/ Write(t)
                 \/ Return(t)
                 \/ ReceiptFails(t)

Next == \/ \E t \in Threads : ThreadStep(t)
        \/ Crash

Spec == Init /\ [][Next]_vars

\* A thread inside a call keeps executing: SQLite statements end, and waiting
\* for SQLite's write lock ends with the busy timeout.
Fairness == \A t \in Threads : WF_vars(Read(t) \/ Write(t) \/ Return(t) \/ ReceiptFails(t))

FairSpec == Spec /\ Fairness

-----------------------------------------------------------------------------
(* Properties.                                                             *)

TypeOK ==
  /\ db \in Database
  /\ work \in Database
  /\ dbLock \in Stores \cup {None}
  /\ writerLock \in [Stores -> Threads \cup {None}]
  /\ auditState \in [Stores -> Actors \cup {None}]
  /\ pc \in [Threads -> Steps]
  /\ req \in [Threads -> Requests \cup {None}]
  /\ journals \in [Threads -> Seq(Journal)]
  /\ rows \in [Threads -> Seq(Row)]
  /\ outcome \in [Threads -> Outcomes]
  /\ receipts \subseteq Requests

\* A store runs one write at a time, a file one transaction at a time, and
\* what a transaction has inserted is gone once it is not open any more.
OneWriter ==
  /\ \A t \in Threads : pc[t] \notin {"idle", "lock"} <=> writerLock[StoreOf[t]] = t
  /\ \A t \in Threads : pc[t] = "insert" => dbLock = StoreOf[t]
  /\ dbLock = None => work = db

\* The file only grows, through commits, rollbacks and crashes: no committed row
\* is lost and no audit row changes its place (the append-only triggers forbid
\* UPDATE and DELETE; this is about everything else).
FileOnlyGrows ==
  [][/\ db.rows \subseteq db'.rows
     /\ \A i \in DOMAIN db.audit : i \in DOMAIN db'.audit /\ db'.audit[i] = db.audit[i]]_vars

\* Every audit row a write adds names the actor of the call that wrote it,
\* although the triggers read it from state that all calls of a store share.
AttributedToCaller ==
  [][\A t \in Threads :
       pc[t] = "insert" /\ pc'[t] = "receipt" =>
         /\ Len(db.audit) < Len(db'.audit)
         /\ \A i \in DOMAIN db'.audit :
              i \in DOMAIN db.audit \/ db'.audit[i].actor = req[t].actor]_vars

\* Whatever a receipt was ever returned for is in the database, whole, and stays
\* there through the later calls, errors and crashes of all threads and stores.
AcknowledgedIsStored ==
  \A r \in receipts :
    LET Stored(tx) == /\ HeaderRow(tx) \in db.rows
                      /\ LinesOf(db, tx.ref) = tx.lines
    IN /\ r.op = "create_book" =>
            /\ Range(MasterRows(r.accounts, r.periods)) \subseteq db.rows
            /\ \A tx \in Range(r.transactions) : Stored(tx)
       /\ r.op = "append_transaction" => Stored(r.tx)
       /\ r.op = "append_reversal" => Stored(ReversalOf(db, r.original, r.reversal))
       /\ r.op = "append_legislative_result" =>
            Signed(LegislativeRow(r.ref), r.actor) \in Range(db.audit)

\* append_reversal reverses a transaction at most once.
ReversedOnce ==
  \A h1, h2 \in RowsOf(db, "transactions") :
    /\ h1.data.note = "reversal"
    /\ h2.data.note = "reversal"
    /\ h1.data.of = h2.data.of
    => h1 = h2

\* No path through a write leaves the writer lock of a store held.
LockIsReleased == \A s \in Stores : writerLock[s] # None ~> writerLock[s] = None

\* Whatever the interleaving, every write is one step of the abstract ledger
\* or none at all: readers of the file never see a part of one.
Abstract == INSTANCE Ledger WITH ledger <- db
ImplementsLedger == Abstract!Spec
=============================================================================
