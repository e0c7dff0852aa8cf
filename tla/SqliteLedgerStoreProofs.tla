----------------------- MODULE SqliteLedgerStoreProofs -----------------------
(***************************************************************************)
(* Proofs about the write path of SqliteLedgerStore.tla, for any number of *)
(* threads, stores, references and requests.                               *)
(***************************************************************************)
EXTENDS SqliteLedgerStore, LedgerDataProofs, FiniteSetTheorems

-----------------------------------------------------------------------------
(* Types of what requests turn into.                                       *)

LEMMA InsertType ==
  ASSUME NEW d \in Database, NEW row \in Row, NEW actor \in Actors \cup {None}
  PROVE  Insert(d, row, actor) \in Database
<1>1. Signed(row, actor) \in AuditRow
  BY DEF Signed, AuditRow, Row, CoreTables
<1>2. d.audit \in Seq(AuditRow) /\ d.rows \subseteq {r \in Row : r.table \in CoreTables}
  BY DEF Database
<1>3. Append(d.audit, Signed(row, actor)) \in Seq(AuditRow)
  BY <1>1, <1>2
<1> QED
  BY <1>2, <1>3 DEF Insert, Database

\* What a request gives the body of its transaction to insert.
LEMMA RequestType ==
  ASSUME NEW r \in Request
  PROVE  /\ r.actor \in Actors
         /\ Masters(r) \in Seq(Row)
         /\ \A js \in Seq(Journal) : Journals(r, js) \in Seq(Journal)
<1>0. CallerJournal \subseteq Journal
  BY DEF CallerJournal
<1>1. CASE r \in CreateBookRequest
  <2>1. /\ r.op = "create_book" /\ r.actor \in Actors
        /\ r.accounts \in Seq(Accounts) /\ r.periods \in Seq(Periods)
        /\ r.transactions \in Seq(Journal)
    BY <1>0, <1>1 DEF CreateBookRequest
  <2> QED
    BY <2>1, MasterRowsType DEF Masters, Journals
<1>2. CASE r \in AppendRequest
  <2>1. r.op = "append_transaction" /\ r.actor \in Actors /\ r.tx \in Journal
    BY <1>0, <1>2 DEF AppendRequest
  <2> QED
    BY <2>1 DEF Masters, Journals
<1>3. CASE r \in ReversalRequest
  BY <1>3 DEF ReversalRequest, Masters, Journals
<1>4. CASE r \in LegislativeRequest
  <2>1. r.op = "append_legislative_result" /\ r.actor \in Actors /\ r.ref \in Refs
    BY <1>4 DEF LegislativeRequest
  <2>2. LegislativeRow(r.ref) \in Row
    BY <2>1 DEF LegislativeRow, Row
  <2> QED
    BY <2>1, <2>2 DEF Masters, Journals
<1> QED
  BY <1>1, <1>2, <1>3, <1>4 DEF Request

-----------------------------------------------------------------------------
(* Type correctness.                                                       *)

\* A thread that left "idle" has a request: without it the type of what Begin
\* and InsertRow write would not be known.
InCall == \A t \in Threads : pc[t] # "idle" => req[t] \in Requests

TypeInv == TypeOK /\ InCall

LEMMA RaiseType ==
  ASSUME TypeInv, NEW t \in Threads, NEW error \in Outcomes, Raise(t, error)
  PROVE  TypeInv'
<1> USE StoreAssumption DEF TypeInv, TypeOK, Raise
<1>1. StoreOf[t] \in Stores
  OBVIOUS
<1>2. dbLock' \in Stores \cup {None} /\ work' \in Database /\ db' \in Database
  BY DEF Rollback
<1>3. /\ writerLock' \in [Stores -> Threads \cup {None}]
      /\ auditState' \in [Stores -> Actors \cup {None}]
  BY DEF Release
<1>4. pc' \in [Threads -> Steps]
  BY DEF Goto, Steps
<1>5. /\ outcome' \in [Threads -> Outcomes] /\ req' \in [Threads -> Requests \cup {None}]
      /\ receipts' \subseteq Requests
  OBVIOUS
<1>6. rows' \in [Threads -> Seq(Row)] /\ journals' \in [Threads -> Seq(Journal)]
  OBVIOUS
<1>7. InCall'
  BY DEF InCall, Goto
<1> QED
  BY <1>2, <1>3, <1>4, <1>5, <1>6, <1>7

LEMMA CheckType ==
  ASSUME TypeInv, NEW t \in Threads, pc[t] # "idle",
         NEW error \in Outcomes, NEW next \in Steps, Check(t, error, next)
  PROVE  TypeInv'
<1>1. CASE error # "none"
  BY <1>1, RaiseType DEF Check
<1>2. CASE error = "none"
  BY <1>2 DEF Check, Goto, TypeInv, TypeOK, InCall
<1> QED
  BY <1>1, <1>2

LEMMA TypeInvariance == TypeInv /\ [Next]_vars => TypeInv'
<1> SUFFICES ASSUME TypeInv, [Next]_vars
             PROVE  TypeInv'
  OBVIOUS
<1> USE StoreAssumption
<1>1. ASSUME NEW t \in Threads, NEW r \in Requests, Call(t, r)
      PROVE  TypeInv'
  BY <1>1 DEF Call, Goto, TypeInv, TypeOK, InCall, Steps, Outcomes
<1>2. ASSUME NEW t \in Threads, Acquire(t)
      PROVE  TypeInv'
  <2>1. req[t] \in Request /\ pc[t] = "lock"
    BY <1>2 DEF Acquire, TypeInv, InCall
  <2>2. FirstStatement(req[t].op) \in Steps
    BY <2>1 DEF FirstStatement, Steps, Request, CreateBookRequest, AppendRequest,
                ReversalRequest, LegislativeRequest
  <2> QED
    BY <1>2, <2>1, <2>2 DEF Acquire, Goto, TypeInv, TypeOK, InCall
<1>3. ASSUME NEW t \in Threads, Read(t)
      PROVE  TypeInv'
  <2>1. CASE SelectAccounts(t)
    BY <2>1, CheckType DEF SelectAccounts, Outcomes, Steps
  <2>2. CASE SelectOriginal(t)
    BY <2>2, CheckType DEF SelectOriginal, Outcomes, Steps
  <2>3. CASE SelectReversal(t)
    BY <2>3, CheckType DEF SelectReversal, Outcomes, Steps
  <2>4. CASE SelectDuplicate(t)
    BY <2>4, CheckType DEF SelectDuplicate, Outcomes, Steps
  <2>5. CASE SelectEntries(t)
    <3> DEFINE reversal == ReversalOf(db, req[t].original, req[t].reversal)
    <3>1. CASE reversal \in Journal /\ ValidJournal(reversal)
      <4> HIDE DEF reversal
      <4>1. /\ journals' = [journals EXCEPT ![t] = <<reversal>>]
            /\ Goto(t, "begin")
            /\ pc[t] = "entries"
            /\ UNCHANGED <<db, work, dbLock, writerLock, auditState, req, rows, outcome, receipts>>
        BY <2>5, <3>1 DEF SelectEntries, reversal
      <4>2. journals' \in [Threads -> Seq(Journal)]
        BY <3>1, <4>1 DEF TypeInv, TypeOK
      <4> QED
        BY <4>1, <4>2 DEF Goto, TypeInv, TypeOK, InCall, Steps
    <3>2. CASE ~(reversal \in Journal /\ ValidJournal(reversal))
      BY <2>5, <3>2, RaiseType DEF SelectEntries, Outcomes
    <3> QED
      BY <3>1, <3>2
  <2> QED
    BY <1>3, <2>1, <2>2, <2>3, <2>4, <2>5 DEF Read
<1>4. ASSUME NEW t \in Threads, Begin(t)
      PROVE  TypeInv'
  <2>1. req[t] \in Request
    BY <1>4 DEF Begin, TypeInv, InCall
  <2>2. /\ req[t].actor \in Actors
        /\ Masters(req[t]) \in Seq(Row)
        /\ Journals(req[t], journals[t]) \in Seq(Journal)
    BY <2>1, RequestType DEF TypeInv, TypeOK
  <2> QED
    BY <1>4, <2>2 DEF Begin, Context, Goto, TypeInv, TypeOK, InCall, Steps
<1>5. ASSUME NEW t \in Threads, BeginBusy(t)
      PROVE  TypeInv'
  BY <1>5, RaiseType DEF BeginBusy, Outcomes
<1>6. ASSUME NEW t \in Threads, InsertRow(t)
      PROVE  TypeInv'
  <2>1. rows[t] \in Seq(Row) /\ rows[t] # <<>> /\ auditState[StoreOf[t]] \in Actors \cup {None}
    BY <1>6 DEF InsertRow, TypeInv, TypeOK
  <2>2. Head(rows[t]) \in Row /\ Tail(rows[t]) \in Seq(Row)
    BY <2>1
  <2>3. work' \in Database
    BY <1>6, <2>1, <2>2, InsertType DEF InsertRow, TypeInv, TypeOK
  <2> QED
    BY <1>6, <2>2, <2>3 DEF InsertRow, TypeInv, TypeOK, InCall
<1>7. ASSUME NEW t \in Threads, InsertRejected(t)
      PROVE  TypeInv'
  BY <1>7, RaiseType DEF InsertRejected, Outcomes
<1>8. ASSUME NEW t \in Threads, NextJournal(t)
      PROVE  TypeInv'
  <2>1. journals[t] \in Seq(Journal) /\ journals[t] # <<>>
    BY <1>8 DEF NextJournal, TypeInv, TypeOK
  <2>2. Head(journals[t]) \in Journal /\ Tail(journals[t]) \in Seq(Journal)
    BY <2>1
  <2>3. TransactionRows(Head(journals[t])) \in Seq(Row)
    BY <2>2, TransactionRowsType
  <2> QED
    BY <1>8, <2>2, <2>3 DEF NextJournal, TypeInv, TypeOK, InCall
<1>9. ASSUME NEW t \in Threads, Commit(t)
      PROVE  TypeInv'
  BY <1>9 DEF Commit, Goto, TypeInv, TypeOK, InCall, Steps
<1>10. ASSUME NEW t \in Threads, WriteFails(t)
       PROVE  TypeInv'
  BY <1>10, RaiseType DEF WriteFails, Outcomes
<1>11. ASSUME NEW t \in Threads, Return(t)
       PROVE  TypeInv'
  BY <1>11 DEF Return, Release, Goto, TypeInv, TypeOK, InCall, Steps, Outcomes
<1>12. ASSUME NEW t \in Threads, ReceiptFails(t)
       PROVE  TypeInv'
  BY <1>12, RaiseType DEF ReceiptFails, Outcomes
<1>13. CASE Crash
  BY <1>13 DEF Crash, TypeInv, TypeOK, InCall, Steps, Outcomes
<1>14. CASE UNCHANGED vars
  BY <1>14 DEF vars, TypeInv, TypeOK, InCall
<1> QED
  BY <1>1, <1>2, <1>3, <1>4, <1>5, <1>6, <1>7, <1>8, <1>9, <1>10, <1>11, <1>12, <1>13,
     <1>14 DEF Next, ThreadStep, Write

LEMMA TypeInit == Init => TypeInv
  BY StoreAssumption
     DEF Init, TypeInv, TypeOK, InCall, EmptyDatabase, Database, Steps, Outcomes

\* Every variable keeps its type: in particular every row that reaches the
\* database is a row the schema describes, for any requests.
THEOREM TypeCorrect == Spec => []TypeOK
<1>1. TypeInv => TypeOK
  BY DEF TypeInv
<1> QED
  BY <1>1, TypeInit, TypeInvariance, PTL DEF Spec

-----------------------------------------------------------------------------
(* The writer locks and SQLite's write lock.                               *)

\* At most one thread of a store is past its writer lock, and at most one
\* thread of all inserts.
LEMMA Exclusion ==
  ASSUME TypeOK, OneWriter, NEW t \in Threads, NEW u \in Threads
  PROVE  /\ /\ pc[t] \notin {"idle", "lock"}
            /\ pc[u] \notin {"idle", "lock"}
            /\ StoreOf[t] = StoreOf[u]
            => t = u
         /\ pc[t] = "insert" /\ pc[u] = "insert" => t = u
  BY DEF OneWriter

\* The end of a call frees the writer lock for the threads of its store alone.
LEMMA EndOfCall ==
  ASSUME TypeOK, OneWriter, NEW t \in Threads, pc[t] \notin {"idle", "lock"},
         Goto(t, "idle"), Release(t), NEW u \in Threads
  PROVE  pc'[u] \notin {"idle", "lock"} <=> writerLock'[StoreOf[u]] = u
<1> USE StoreAssumption DEF TypeOK, OneWriter
<1>1. CASE StoreOf[u] = StoreOf[t]
  <2>1. writerLock'[StoreOf[u]] = None /\ u # None
    BY <1>1 DEF Release
  <2>2. u # t => pc[u] \in {"idle", "lock"}
    BY <1>1, Exclusion
  <2>3. pc'[u] \in {"idle", "lock"}
    BY <2>2 DEF Goto
  <2> QED
    BY <2>1, <2>3
<1>2. CASE StoreOf[u] # StoreOf[t]
  <2>1. writerLock'[StoreOf[u]] = writerLock[StoreOf[u]] /\ u # t
    BY <1>2 DEF Release
  <2>2. pc'[u] = pc[u]
    BY <2>1 DEF Goto
  <2> QED
    BY <2>1, <2>2
<1> QED
  BY <1>1, <1>2

LEMMA RaiseOneWriter ==
  ASSUME TypeOK, OneWriter, NEW t \in Threads, NEW error, Raise(t, error),
         pc[t] \notin {"idle", "lock"}
  PROVE  OneWriter'
<1> USE StoreAssumption DEF TypeOK, OneWriter, Raise
<1>1. \A u \in Threads : pc'[u] \notin {"idle", "lock"} <=> writerLock'[StoreOf[u]] = u
  BY EndOfCall
<1>2. \A u \in Threads : pc'[u] = "insert" => dbLock' = StoreOf[u]
  BY Exclusion DEF Goto, Rollback
<1>3. dbLock' = None => work' = db'
  BY DEF Rollback
<1> QED
  BY <1>1, <1>2, <1>3

\* A step that only moves t on inside its call, neither into the transaction
\* nor out of it, leaves the locks as they are.
LEMMA MoveOneWriter ==
  ASSUME TypeOK, OneWriter, NEW t \in Threads, NEW step,
         step \notin {"idle", "lock", "insert"}, Goto(t, step),
         pc[t] \notin {"idle", "lock"},
         UNCHANGED <<db, work, dbLock, writerLock>>
  PROVE  OneWriter'
  BY StoreAssumption DEF TypeOK, OneWriter, Goto

LEMMA CheckOneWriter ==
  ASSUME TypeOK, OneWriter, NEW t \in Threads, pc[t] \notin {"idle", "lock"},
         NEW error, NEW next, next \notin {"idle", "lock", "insert"}, Check(t, error, next)
  PROVE  OneWriter'
  BY RaiseOneWriter, MoveOneWriter DEF Check

LEMMA OneWriterInvariance == TypeInv /\ OneWriter /\ [Next]_vars => OneWriter'
<1> SUFFICES ASSUME TypeInv, OneWriter, [Next]_vars
             PROVE  OneWriter'
  OBVIOUS
<1> USE StoreAssumption
<1>0. TypeOK
  BY DEF TypeInv
<1>1. ASSUME NEW t \in Threads, NEW r \in Requests, Call(t, r)
      PROVE  OneWriter'
  BY <1>0, <1>1 DEF Call, Goto, OneWriter, TypeOK
<1>2. ASSUME NEW t \in Threads, Acquire(t)
      PROVE  OneWriter'
  <2>1. req[t] \in Request
    BY <1>2 DEF Acquire, TypeInv, InCall
  <2>2. FirstStatement(req[t].op) \notin {"idle", "lock", "insert"}
    BY <2>1 DEF FirstStatement, Request, CreateBookRequest, AppendRequest,
                ReversalRequest, LegislativeRequest
  <2> QED
    BY <1>0, <1>2, <2>2 DEF Acquire, LockFree, Goto, OneWriter, TypeOK
<1>3. ASSUME NEW t \in Threads, Read(t)
      PROVE  OneWriter'
  <2>1. CASE SelectAccounts(t)
    BY <1>0, <2>1, CheckOneWriter DEF SelectAccounts
  <2>2. CASE SelectOriginal(t)
    BY <1>0, <2>2, CheckOneWriter DEF SelectOriginal
  <2>3. CASE SelectReversal(t)
    BY <1>0, <2>3, CheckOneWriter DEF SelectReversal
  <2>4. CASE SelectDuplicate(t)
    BY <1>0, <2>4, CheckOneWriter DEF SelectDuplicate
  <2>5. CASE SelectEntries(t)
    BY <1>0, <2>5, RaiseOneWriter, MoveOneWriter DEF SelectEntries
  <2> QED
    BY <1>3, <2>1, <2>2, <2>3, <2>4, <2>5 DEF Read
<1>4. ASSUME NEW t \in Threads, Begin(t)
      PROVE  OneWriter'
  <2>1. \A u \in Threads : pc[u] # "insert"
    BY <1>0, <1>4 DEF Begin, OneWriter, TypeOK
  <2> QED
    BY <1>0, <1>4, <2>1 DEF Begin, Goto, OneWriter, TypeOK
<1>5. ASSUME NEW t \in Threads, BeginBusy(t)
      PROVE  OneWriter'
  BY <1>0, <1>5, RaiseOneWriter DEF BeginBusy
<1>6. ASSUME NEW t \in Threads, InsertRow(t)
      PROVE  OneWriter'
  <2>1. dbLock # None
    BY <1>0, <1>6 DEF InsertRow, OneWriter, TypeOK
  <2> QED
    BY <1>6, <2>1 DEF InsertRow, OneWriter
<1>7. ASSUME NEW t \in Threads, InsertRejected(t)
      PROVE  OneWriter'
  BY <1>0, <1>7, RaiseOneWriter DEF InsertRejected
<1>8. ASSUME NEW t \in Threads, NextJournal(t)
      PROVE  OneWriter'
  BY <1>8 DEF NextJournal, OneWriter
<1>9. ASSUME NEW t \in Threads, Commit(t)
      PROVE  OneWriter'
  <2>1. \A u \in Threads : pc[u] = "insert" => u = t
    BY <1>0, <1>9, Exclusion DEF Commit
  <2> QED
    BY <1>0, <1>9, <2>1 DEF Commit, Goto, OneWriter, TypeOK
<1>10. ASSUME NEW t \in Threads, WriteFails(t)
       PROVE  OneWriter'
  BY <1>0, <1>10, RaiseOneWriter DEF WriteFails
<1>11. ASSUME NEW t \in Threads, Return(t)
       PROVE  OneWriter'
  <2>1. pc[t] = "receipt" /\ Goto(t, "idle") /\ Release(t) /\ UNCHANGED <<db, work, dbLock>>
    BY <1>11 DEF Return
  <2>2. \A u \in Threads : pc'[u] \notin {"idle", "lock"} <=> writerLock'[StoreOf[u]] = u
    BY <1>0, <2>1, EndOfCall
  <2>3. \A u \in Threads : pc'[u] = "insert" => pc[u] = "insert"
    BY <1>0, <2>1 DEF Goto, TypeOK
  <2> QED
    BY <2>1, <2>2, <2>3 DEF OneWriter
<1>12. ASSUME NEW t \in Threads, ReceiptFails(t)
       PROVE  OneWriter'
  BY <1>0, <1>12, RaiseOneWriter DEF ReceiptFails
<1>13. CASE Crash
  BY <1>13 DEF Crash, OneWriter
<1>14. CASE UNCHANGED vars
  BY <1>14 DEF vars, OneWriter
<1> QED
  BY <1>1, <1>2, <1>3, <1>4, <1>5, <1>6, <1>7, <1>8, <1>9, <1>10, <1>11, <1>12, <1>13,
     <1>14 DEF Next, ThreadStep, Write

LEMMA OneWriterInit == Init => OneWriter
  BY StoreAssumption DEF Init, OneWriter

\* One write per store and one transaction per file at a time, and an open
\* transaction that ends without a commit leaves nothing behind.
THEOREM OneWriterHolds == Spec => []OneWriter
  BY TypeInit, TypeInvariance, OneWriterInit, OneWriterInvariance, PTL DEF Spec

-----------------------------------------------------------------------------
(* What a step of one thread leaves alone.                                 *)

LEMMA Locality ==
  ASSUME TypeInv, NEW t \in Threads, NEW u \in Threads, u # t, ThreadStep(t)
  PROVE  /\ pc'[u] = pc[u]
         /\ req'[u] = req[u]
         /\ journals'[u] = journals[u]
         /\ rows'[u] = rows[u]
<1> USE DEF TypeInv, TypeOK, Goto, Raise, Check
<1>1. ASSUME NEW r \in Requests, Call(t, r)
      PROVE  UNCHANGED <<pc[u], req[u], journals[u], rows[u]>>
  BY <1>1 DEF Call
<1>2. CASE Acquire(t)
  BY <1>2 DEF Acquire
<1>3. CASE Read(t)
  BY <1>3 DEF Read, SelectAccounts, SelectOriginal, SelectReversal, SelectDuplicate,
              SelectEntries
<1>4. CASE Write(t)
  BY <1>4 DEF Write, Begin, BeginBusy, InsertRow, InsertRejected, NextJournal, Commit,
              WriteFails
<1>5. CASE Return(t) \/ ReceiptFails(t)
  BY <1>5 DEF Return, ReceiptFails
<1> QED
  BY <1>1, <1>2, <1>3, <1>4, <1>5 DEF ThreadStep

\* An open transaction sees no step of another thread.
LEMMA Undisturbed ==
  ASSUME TypeInv, OneWriter, NEW t \in Threads, NEW u \in Threads, u # t, ThreadStep(t),
         pc[u] = "insert"
  PROVE  /\ db' = db /\ work' = work
         /\ auditState'[StoreOf[u]] = auditState[StoreOf[u]]
<1> USE StoreAssumption DEF TypeInv, TypeOK, Goto
<1>1. pc[t] # "insert" /\ dbLock # None
  BY Exclusion DEF OneWriter
<1>2. pc[t] \notin {"idle", "lock"} => StoreOf[t] # StoreOf[u]
  BY Exclusion
<1>3. ASSUME NEW error, Raise(t, error), pc[t] \notin {"idle", "lock"}
      PROVE  UNCHANGED <<db, work, auditState[StoreOf[u]]>>
  BY <1>1, <1>2, <1>3 DEF Raise, Release
<1>4. ASSUME NEW r \in Requests, Call(t, r)
      PROVE  UNCHANGED <<db, work, auditState[StoreOf[u]]>>
  BY <1>4 DEF Call
<1>5. CASE Acquire(t)
  BY <1>5 DEF Acquire
<1>6. CASE Read(t)
  BY <1>3, <1>6 DEF Read, Check, SelectAccounts, SelectOriginal, SelectReversal,
                    SelectDuplicate, SelectEntries
<1>7. CASE Write(t)
  BY <1>1, <1>3, <1>7 DEF Write, Begin, BeginBusy, InsertRow, InsertRejected, NextJournal,
                          Commit, WriteFails
<1>8. CASE Return(t) \/ ReceiptFails(t)
  BY <1>1, <1>2, <1>3, <1>8 DEF Return, ReceiptFails, Release
<1> QED
  BY <1>4, <1>5, <1>6, <1>7, <1>8 DEF ThreadStep

\* A thread past its writer lock sees no step of another thread of its store.
LEMMA Protected ==
  ASSUME TypeInv, OneWriter, NEW t \in Threads, NEW u \in Threads, u # t, ThreadStep(t),
         pc[u] \notin {"idle", "lock"}, StoreOf[t] = StoreOf[u]
  PROVE  db' = db /\ work' = work
<1>1. pc[t] \in {"idle", "lock"}
  BY Exclusion DEF TypeInv
<1> QED
  BY <1>1 DEF ThreadStep, Call, Acquire, Read, SelectAccounts, SelectOriginal,
              SelectReversal, SelectDuplicate, SelectEntries, Write, Begin, BeginBusy,
              InsertRow, InsertRejected, NextJournal, Commit, WriteFails, Return, ReceiptFails

-----------------------------------------------------------------------------
(* The audit trail.                                                        *)

\* What an open transaction of t has done to the database so far: it only
\* added, it signed what it added with the actor of the call, and if it has
\* added nothing yet it still has something to add.
OpenTransaction(t) ==
  /\ auditState[StoreOf[t]] = req[t].actor
  /\ db.rows \subseteq work.rows
  /\ \A i \in DOMAIN db.audit : i \in DOMAIN work.audit /\ work.audit[i] = db.audit[i]
  /\ \A i \in DOMAIN work.audit : i \in DOMAIN db.audit \/ work.audit[i].actor = req[t].actor
  /\ Len(db.audit) < Len(work.audit) \/ rows[t] # <<>> \/ journals[t] # <<>>

\* Each read belongs to one kind of request, and a reversal reaches "begin"
\* only when it has been constructed.
AuditInvOf(t) ==
  /\ pc[t] = "accounts" => req[t].op = "append_transaction"
  /\ pc[t] \in {"original", "reversed", "duplicate", "entries"} => req[t].op = "append_reversal"
  /\ pc[t] = "begin" /\ req[t].op = "append_reversal" => journals[t] # <<>>
  /\ pc[t] = "insert" => OpenTransaction(t)

AuditInv == \A t \in Threads : AuditInvOf(t)

LEMMA AuditAppend ==
  ASSUME NEW s \in Seq(AuditRow), NEW row
  PROVE  /\ DOMAIN Append(s, row) = DOMAIN s \cup {Len(s) + 1}
         /\ Len(Append(s, row)) = Len(s) + 1
         /\ \A i \in DOMAIN s : Append(s, row)[i] = s[i]
         /\ Append(s, row)[Len(s) + 1] = row
  OBVIOUS

LEMMA FirstStatementOf ==
  ASSUME NEW r \in Request
  PROVE  /\ FirstStatement(r.op) = "accounts" => r.op = "append_transaction"
         /\ FirstStatement(r.op) \in {"accounts", "original", "begin"}
         /\ FirstStatement(r.op) = "original" => r.op = "append_reversal"
         /\ FirstStatement(r.op) = "begin" =>
              r.op \in {"create_book", "append_legislative_result"}
  BY DEF FirstStatement, Request, CreateBookRequest, AppendRequest, ReversalRequest,
         LegislativeRequest

\* A transaction that begins has something to insert.
LEMMA NothingIsEmpty ==
  ASSUME NEW r \in Request, NEW js \in Seq(Journal), r.op = "append_reversal" => js # <<>>
  PROVE  Masters(r) # <<>> \/ Journals(r, js) # <<>>
<1>1. CASE r \in CreateBookRequest
  BY <1>1, MasterRowsType DEF CreateBookRequest, Masters
<1>2. CASE r \in AppendRequest
  BY <1>2 DEF AppendRequest, Journals
<1>3. CASE r \in ReversalRequest
  BY <1>3 DEF ReversalRequest, Journals
<1>4. CASE r \in LegislativeRequest
  BY <1>4 DEF LegislativeRequest, Masters
<1> QED
  BY <1>1, <1>2, <1>3, <1>4 DEF Request

LEMMA InsertGrows ==
  ASSUME TypeInv, NEW t \in Threads, InsertRow(t), OpenTransaction(t)
  PROVE  OpenTransaction(t)'
<1> DEFINE row == Signed(Head(rows[t]), auditState[StoreOf[t]])
<1>1. /\ db.audit \in Seq(AuditRow) /\ work.audit \in Seq(AuditRow)
  BY DEF TypeInv, TypeOK, Database
<1>2. /\ work'.audit = Append(work.audit, row)
      /\ work.rows \subseteq work'.rows
      /\ UNCHANGED <<db, auditState, req>>
  BY DEF InsertRow, Insert
<1>3. row.actor = req[t].actor
  BY DEF Signed, OpenTransaction
<1> HIDE DEF row
<1>4. Len(db.audit) <= Len(work.audit)
  BY <1>1 DEF OpenTransaction
<1>5. \A i \in DOMAIN work'.audit : i \in DOMAIN work.audit \/ work'.audit[i] = row
  BY <1>1, <1>2, AuditAppend
<1>6. \A i \in DOMAIN work.audit : i \in DOMAIN work'.audit /\ work'.audit[i] = work.audit[i]
  BY <1>1, <1>2, AuditAppend
<1>7. Len(work'.audit) = Len(work.audit) + 1
  BY <1>1, <1>2, AuditAppend
<1>8. Len(db.audit) < Len(work'.audit)
  BY <1>1, <1>4, <1>7
<1> QED
  BY <1>2, <1>3, <1>5, <1>6, <1>8 DEF OpenTransaction

\* A step of t keeps its own part of the invariant.
LEMMA AuditOwnStep ==
  ASSUME TypeInv, OneWriter, AuditInv, NEW t \in Threads, ThreadStep(t)
  PROVE  AuditInvOf(t)'
<1> USE StoreAssumption DEF Goto
<1>0. AuditInvOf(t) /\ pc \in [Threads -> Steps] /\ StoreOf[t] \in Stores
  BY DEF AuditInv, TypeInv, TypeOK
<1>1. ASSUME NEW error, Raise(t, error)
      PROVE  AuditInvOf(t)'
  BY <1>0, <1>1 DEF Raise, AuditInvOf
<1>2. ASSUME NEW r \in Requests, Call(t, r)
      PROVE  AuditInvOf(t)'
  BY <1>0, <1>2 DEF Call, AuditInvOf
<1>3. CASE Acquire(t)
  <2>1. req[t] \in Request
    BY <1>3 DEF Acquire, TypeInv, InCall
  <2>2. pc'[t] = FirstStatement(req[t].op) /\ req'[t] = req[t]
    BY <1>0, <1>3 DEF Acquire
  <2> QED
    BY <2>1, <2>2, FirstStatementOf DEF AuditInvOf
<1>4. CASE Read(t)
  <2>1. CASE SelectAccounts(t)
    BY <1>0, <1>1, <2>1 DEF SelectAccounts, Check, AuditInvOf
  <2>2. CASE SelectOriginal(t)
    BY <1>0, <1>1, <2>2 DEF SelectOriginal, Check, AuditInvOf
  <2>3. CASE SelectReversal(t)
    BY <1>0, <1>1, <2>3 DEF SelectReversal, Check, AuditInvOf
  <2>4. CASE SelectDuplicate(t)
    BY <1>0, <1>1, <2>4 DEF SelectDuplicate, Check, AuditInvOf
  <2>5. CASE SelectEntries(t)
    <3> DEFINE reversal == ReversalOf(db, req[t].original, req[t].reversal)
    <3> HIDE DEF reversal
    <3>1. \/ \E error : Raise(t, error)
          \/ /\ journals' = [journals EXCEPT ![t] = <<reversal>>]
             /\ pc' = [pc EXCEPT ![t] = "begin"]
      BY <2>5 DEF SelectEntries, reversal
    <3>2. CASE /\ journals' = [journals EXCEPT ![t] = <<reversal>>]
               /\ pc' = [pc EXCEPT ![t] = "begin"]
      <4>1. journals'[t] = <<reversal>> /\ pc'[t] = "begin"
        BY <1>0, <3>2 DEF TypeInv, TypeOK
      <4>2. journals'[t] # <<>>
        BY <4>1
      <4> QED
        BY <4>1, <4>2 DEF AuditInvOf
    <3> QED
      BY <1>1, <3>1, <3>2
  <2> QED
    BY <1>4, <2>1, <2>2, <2>3, <2>4, <2>5 DEF Read
<1>5. CASE Begin(t)
  <2>1. req[t] \in Request /\ pc[t] = "begin" /\ db = work
    BY <1>5 DEF Begin, TypeInv, InCall, OneWriter
  <2>2. /\ auditState'[StoreOf[t]] = req[t].actor
        /\ rows'[t] = Masters(req[t])
        /\ journals'[t] = Journals(req[t], journals[t])
        /\ pc'[t] = "insert"
        /\ UNCHANGED <<db, work, req>>
    BY <1>0, <1>5 DEF Begin, Context, TypeInv, TypeOK
  <2>3. journals[t] \in Seq(Journal)
    BY DEF TypeInv, TypeOK
  <2>4. Masters(req[t]) # <<>> \/ Journals(req[t], journals[t]) # <<>>
    BY <1>0, <2>1, <2>3, NothingIsEmpty DEF AuditInvOf
  <2> QED
    BY <2>1, <2>2, <2>4 DEF AuditInvOf, OpenTransaction
<1>6. CASE InsertRow(t)
  <2>1. pc[t] = "insert" /\ UNCHANGED pc
    BY <1>6 DEF InsertRow
  <2> QED
    BY <1>0, <1>6, <2>1, InsertGrows DEF AuditInvOf
<1>7. CASE NextJournal(t)
  <2>1. journals[t] \in Seq(Journal) /\ journals[t] # <<>>
    BY <1>7 DEF NextJournal, TypeInv, TypeOK
  <2>2. Head(journals[t]) \in Journal
    BY <2>1
  <2>3. rows'[t] # <<>>
    BY <1>7, <2>2, TransactionRowsType DEF NextJournal, TypeInv, TypeOK
  <2> QED
    BY <1>0, <1>7, <2>3 DEF NextJournal, AuditInvOf, OpenTransaction
<1>8. CASE Commit(t)
  BY <1>0, <1>8 DEF Commit, AuditInvOf
<1>9. CASE Return(t)
  BY <1>0, <1>9 DEF Return, AuditInvOf
<1> QED
  BY <1>1, <1>2, <1>3, <1>4, <1>5, <1>6, <1>7, <1>8, <1>9
     DEF ThreadStep, Write, BeginBusy, InsertRejected, WriteFails, ReceiptFails

LEMMA AuditInvariance ==
  TypeInv /\ OneWriter /\ AuditInv /\ [Next]_vars => AuditInv'
<1> SUFFICES ASSUME TypeInv, OneWriter, AuditInv, [Next]_vars
             PROVE  AuditInv'
  OBVIOUS
<1>1. ASSUME NEW t \in Threads, ThreadStep(t), NEW u \in Threads
      PROVE  AuditInvOf(u)'
  <2>1. CASE u = t
    BY <1>1, <2>1, AuditOwnStep
  <2>2. CASE u # t
    <3>1. /\ pc'[u] = pc[u] /\ req'[u] = req[u]
          /\ journals'[u] = journals[u] /\ rows'[u] = rows[u]
      BY <1>1, <2>2, Locality
    <3>2. pc[u] = "insert" =>
            /\ db' = db /\ work' = work
            /\ auditState'[StoreOf[u]] = auditState[StoreOf[u]]
      BY <1>1, <2>2, Undisturbed
    <3> QED
      BY <3>1, <3>2 DEF AuditInv, AuditInvOf, OpenTransaction
  <2> QED
    BY <2>1, <2>2
<1>2. CASE Crash
  BY <1>2 DEF Crash, AuditInv, AuditInvOf
<1>3. CASE UNCHANGED vars
  BY <1>3 DEF vars, AuditInv, AuditInvOf, OpenTransaction
<1> QED
  BY <1>1, <1>2, <1>3 DEF Next, AuditInv

LEMMA AuditInit == Init => AuditInv
  BY DEF Init, AuditInv, AuditInvOf

\* Only a commit changes the file.
LEMMA OnlyCommitWrites ==
  ASSUME [Next]_vars
  PROVE  db' = db \/ \E t \in Threads : Commit(t)
  BY DEF Next, vars, ThreadStep, Call, Acquire, Read, SelectAccounts, SelectOriginal,
         SelectReversal, SelectDuplicate, SelectEntries, Check, Write, Begin, BeginBusy,
         InsertRow, InsertRejected, NextJournal, WriteFails, Return, ReceiptFails, Crash, Raise

LEMMA CommitGrows ==
  ASSUME AuditInv, NEW t \in Threads, Commit(t)
  PROVE  /\ db' = work /\ OpenTransaction(t)
         /\ rows[t] = <<>> /\ journals[t] = <<>>
  BY DEF Commit, BodyDone, AuditInv, AuditInvOf

\* No commit, rollback, crash or failed write ever loses a committed row or
\* moves an audit row, for any number of threads and stores.
THEOREM FileOnlyGrowsHolds == Spec => FileOnlyGrows
<1>1. ASSUME AuditInv, [Next]_vars
      PROVE  /\ db.rows \subseteq db'.rows
             /\ \A i \in DOMAIN db.audit : i \in DOMAIN db'.audit /\ db'.audit[i] = db.audit[i]
  <2>1. CASE db' = db
    BY <2>1
  <2>2. ASSUME NEW t \in Threads, Commit(t)
        PROVE  /\ db.rows \subseteq db'.rows
               /\ \A i \in DOMAIN db.audit : i \in DOMAIN db'.audit /\ db'.audit[i] = db.audit[i]
    BY <1>1, <2>2, CommitGrows DEF OpenTransaction
  <2> QED
    BY <1>1, <2>1, <2>2, OnlyCommitWrites
<1> QED
  BY <1>1, TypeInit, TypeInvariance, OneWriterInit, OneWriterInvariance, AuditInit,
     AuditInvariance, PTL DEF Spec, FileOnlyGrows

\* Every write leaves at least one audit row, and all of its audit rows name its
\* own actor, although all calls of a store share the context the triggers read.
THEOREM AttributedToCallerHolds == Spec => AttributedToCaller
<1> DEFINE Attributed ==
      \A t \in Threads :
        pc[t] = "insert" /\ pc'[t] = "receipt" =>
          /\ Len(db.audit) < Len(db'.audit)
          /\ \A i \in DOMAIN db'.audit :
               i \in DOMAIN db.audit \/ db'.audit[i].actor = req[t].actor
<1>1. ASSUME TypeInv, OneWriter, AuditInv, [Next]_vars
      PROVE  Attributed
  <2> SUFFICES ASSUME NEW t \in Threads, pc[t] = "insert", pc'[t] = "receipt"
               PROVE  /\ Len(db.audit) < Len(db'.audit)
                      /\ \A i \in DOMAIN db'.audit :
                           i \in DOMAIN db.audit \/ db'.audit[i].actor = req[t].actor
    OBVIOUS
  <2>1. pc # pc' /\ ~Crash
    BY DEF Crash
  <2>2. PICK u \in Threads : ThreadStep(u)
    BY <1>1, <2>1 DEF Next, vars
  <2>3. u = t
    BY <1>1, <2>2, Locality
  <2>4. Commit(t)
    <3>1. pc \in [Threads -> Steps]
      BY <1>1 DEF TypeInv, TypeOK
    <3> QED
      BY <2>2, <2>3, <3>1
         DEF ThreadStep, Call, Acquire, Read, SelectAccounts, SelectOriginal,
             SelectReversal, SelectDuplicate, SelectEntries, Write, Begin, BeginBusy,
             InsertRow, InsertRejected, NextJournal, WriteFails, Return, ReceiptFails, Raise, Goto
  <2> QED
    BY <1>1, <2>4, CommitGrows DEF OpenTransaction
<1>2. Spec => [][Attributed]_vars
  BY <1>1, TypeInit, TypeInvariance, OneWriterInit, OneWriterInvariance, AuditInit,
     AuditInvariance, PTL DEF Spec
<1> QED
  BY <1>2 DEF AttributedToCaller

-----------------------------------------------------------------------------
(* Reversals, when one store has the file to itself.                       *)

OneStore == \A s1, s2 \in Stores : s1 = s2

IsReversal(row) == row.table = "transactions" /\ row.data.note = "reversal"

SingleReversals(d) ==
  \A r1, r2 \in d.rows :
    IsReversal(r1) /\ IsReversal(r2) /\ r1.data.of = r2.data.of => r1 = r2

\* What the checks of append_reversal found stays true until the reversal is
\* inserted: its header is the next row or the only transaction left, and the
\* original is not reversed in the database that the row goes into.
ReversalInvOf(t) ==
  /\ pc[t] \in {"duplicate", "entries"} => ~IsReversed(db, req[t].original)
  /\ pc[t] = "begin" /\ req[t].op = "append_reversal" =>
       Len(journals[t]) = 1 /\ ~IsReversed(db, journals[t][1].of)
  /\ pc[t] = "insert" =>
       /\ \A i \in DOMAIN journals[t] : journals[t][i].note = "reversal" =>
            Len(journals[t]) = 1 /\ rows[t] = <<>> /\ ~IsReversed(work, journals[t][i].of)
       /\ \A i \in DOMAIN rows[t] : IsReversal(rows[t][i]) =>
            i = 1 /\ ~IsReversed(work, rows[t][i].data.of)

ReversalInv ==
  /\ SingleReversals(db)
  /\ SingleReversals(work)
  /\ \A t \in Threads : ReversalInvOf(t)

LEMMA MastersAreNoReversals ==
  ASSUME NEW r \in Request, NEW i \in DOMAIN Masters(r)
  PROVE  ~IsReversal(Masters(r)[i])
<1>1. CASE r \in CreateBookRequest
  <2>1. r.accounts \in Seq(Accounts) /\ r.periods \in Seq(Periods) /\ r.op = "create_book"
    BY <1>1 DEF CreateBookRequest
  <2> DEFINE T == {row \in Row : row.table \in {"books", "accounts", "periods"}}
             ar == [j \in DOMAIN r.accounts |-> AccountRow(r.accounts[j])]
             pr == [j \in DOMAIN r.periods |-> PeriodRow(r.periods[j])]
  <2>2. BookRow \in T /\ \A a \in Accounts : AccountRow(a) \in T
    BY BookRowType, AccountRowType DEF BookRow, AccountRow
  <2>3. \A p \in Periods : PeriodRow(p) \in T
    BY PeriodRowType DEF PeriodRow
  <2>4. \A row \in T : ~IsReversal(row)
    BY DEF IsReversal
  <2> HIDE DEF T
  <2>5. ar \in Seq(T) /\ pr \in Seq(T) /\ <<BookRow>> \in Seq(T)
    BY <2>1, <2>2, <2>3
  <2>6. Masters(r) = <<BookRow>> \o ar \o pr
    BY <2>1 DEF Masters, MasterRows
  <2> HIDE DEF ar, pr
  <2>7. <<BookRow>> \o ar \o pr \in Seq(T)
    BY <2>5
  <2> QED
    BY <2>4, <2>6, <2>7
<1>2. CASE r \in AppendRequest \cup ReversalRequest
  BY <1>2 DEF AppendRequest, ReversalRequest, Masters
<1>3. CASE r \in LegislativeRequest
  <2>1. Masters(r) = <<LegislativeRow(r.ref)>>
    BY <1>3 DEF LegislativeRequest, Masters
  <2> QED
    BY <2>1 DEF LegislativeRow, IsReversal
<1> QED
  BY <1>1, <1>2, <1>3 DEF Request

LEMMA CallersDescribeNoReversals ==
  ASSUME NEW r \in Request, r.op # "append_reversal", NEW js, NEW i \in DOMAIN Journals(r, js)
  PROVE  Journals(r, js)[i].note # "reversal"
<1>1. CASE r \in CreateBookRequest
  <2>1. r.transactions \in Seq(CallerJournal) /\ Journals(r, js) = r.transactions
    BY <1>1 DEF CreateBookRequest, Journals
  <2> QED
    BY <2>1 DEF CallerJournal
<1>2. CASE r \in AppendRequest
  <2>1. r.tx \in CallerJournal /\ Journals(r, js) = <<r.tx>>
    BY <1>2 DEF AppendRequest, Journals
  <2> QED
    BY <2>1 DEF CallerJournal
<1>3. CASE r \in LegislativeRequest
  BY <1>3 DEF LegislativeRequest, Journals
<1> QED
  BY <1>1, <1>2, <1>3 DEF Request, ReversalRequest

\* Only the first row of a transaction is a header.
LEMMA HeaderComesFirst ==
  ASSUME NEW tx \in Journal, NEW i \in DOMAIN TransactionRows(tx),
         IsReversal(TransactionRows(tx)[i])
  PROVE  i = 1 /\ tx.note = "reversal" /\ TransactionRows(tx)[i].data.of = tx.of
<1>1. i = 1
  BY DEF IsReversal, TransactionRows, EntryRow
<1>2. TransactionRows(tx)[i] = HeaderRow(tx)
  BY <1>1 DEF TransactionRows
<1> QED
  BY <1>1, <1>2 DEF IsReversal, HeaderRow

LEMMA InsertKeepsReversals ==
  ASSUME TypeInv, ReversalInv, NEW t \in Threads, InsertRow(t)
  PROVE  SingleReversals(work') /\ ReversalInvOf(t)'
<1>1. rows[t] \in Seq(Row) /\ rows[t] # <<>> /\ pc[t] = "insert"
  BY DEF InsertRow, TypeInv, TypeOK
<1> DEFINE row == Head(rows[t])
<1>2. 1 \in DOMAIN rows[t] /\ row = rows[t][1]
  BY <1>1
<1>3. IsReversal(row) => ~IsReversed(work, row.data.of)
  BY <1>1, <1>2 DEF ReversalInv, ReversalInvOf
<1>4. \/ work'.rows = work.rows \cup {row}
      \/ work'.rows = work.rows
  BY DEF InsertRow, Insert
<1> HIDE DEF row
<1>5. SingleReversals(work')
  BY <1>3, <1>4 DEF ReversalInv, SingleReversals, IsReversal, IsReversed, RowsOf
<1>6. /\ rows'[t] = Tail(rows[t])
      /\ UNCHANGED <<pc, journals>>
  BY DEF InsertRow, TypeInv, TypeOK
<1>7. \A i \in DOMAIN rows'[t] : ~IsReversal(rows'[t][i])
  <2> TAKE i \in DOMAIN rows'[t]
  <2>1. i \in Nat \ {0} /\ i + 1 \in DOMAIN rows[t] /\ rows'[t][i] = rows[t][i + 1]
    BY <1>1, <1>6
  <2> QED
    BY <1>1, <2>1 DEF ReversalInv, ReversalInvOf
<1>8. \A i \in DOMAIN journals'[t] : journals'[t][i].note # "reversal"
  BY <1>1, <1>6 DEF ReversalInv, ReversalInvOf
<1> QED
  BY <1>1, <1>5, <1>6, <1>7, <1>8 DEF ReversalInvOf

LEMMA BeginKeepsReversals ==
  ASSUME TypeInv, OneWriter, ReversalInv, NEW t \in Threads, Begin(t)
  PROVE  ReversalInvOf(t)'
<1>1. req[t] \in Request /\ pc[t] = "begin" /\ work = db /\ journals[t] \in Seq(Journal)
  BY StoreAssumption DEF Begin, TypeInv, TypeOK, InCall, OneWriter
<1>2. /\ rows'[t] = Masters(req[t])
      /\ journals'[t] = Journals(req[t], journals[t])
      /\ pc'[t] = "insert"
      /\ UNCHANGED work
  BY DEF Begin, Goto, TypeInv, TypeOK
<1>3. \A i \in DOMAIN rows'[t] : ~IsReversal(rows'[t][i])
  BY <1>1, <1>2, MastersAreNoReversals
<1>4. CASE req[t].op = "append_reversal"
  <2>1. journals'[t] = journals[t] /\ rows'[t] = <<>>
    BY <1>2, <1>4 DEF Journals, Masters
  <2>2. Len(journals[t]) = 1 /\ ~IsReversed(work, journals[t][1].of)
    BY <1>1, <1>4 DEF ReversalInv, ReversalInvOf
  <2>3. DOMAIN journals[t] = {1}
    BY <1>1, <2>2
  <2> QED
    BY <1>2, <1>3, <2>1, <2>2, <2>3 DEF ReversalInvOf
<1>5. CASE req[t].op # "append_reversal"
  <2>1. \A i \in DOMAIN journals'[t] : journals'[t][i].note # "reversal"
    BY <1>1, <1>2, <1>5, CallersDescribeNoReversals
  <2> QED
    BY <1>2, <1>3, <2>1 DEF ReversalInvOf
<1> QED
  BY <1>4, <1>5

LEMMA NextJournalKeepsReversals ==
  ASSUME TypeInv, ReversalInv, NEW t \in Threads, NextJournal(t)
  PROVE  ReversalInvOf(t)'
<1>1. /\ journals[t] \in Seq(Journal) /\ journals[t] # <<>> /\ rows[t] = <<>>
      /\ pc[t] = "insert" /\ UNCHANGED <<pc, work>>
  BY DEF NextJournal, TypeInv, TypeOK
<1>2. /\ rows'[t] = TransactionRows(Head(journals[t]))
      /\ journals'[t] = Tail(journals[t])
  BY DEF NextJournal, TypeInv, TypeOK
<1>3. /\ Head(journals[t]) \in Journal /\ 1 \in DOMAIN journals[t]
      /\ Head(journals[t]) = journals[t][1]
  BY <1>1
<1>5. \A i \in DOMAIN rows'[t] : IsReversal(rows'[t][i]) =>
        i = 1 /\ ~IsReversed(work, rows'[t][i].data.of)
  BY <1>1, <1>2, <1>3, HeaderComesFirst DEF ReversalInv, ReversalInvOf
<1>4. \A i \in DOMAIN journals'[t] : journals'[t][i].note # "reversal"
  <2> TAKE i \in DOMAIN journals'[t]
  <2>1. /\ i + 1 \in DOMAIN journals[t] /\ journals'[t][i] = journals[t][i + 1]
        /\ Len(journals[t]) # 1
    BY <1>1, <1>2
  <2> QED
    BY <1>1, <2>1 DEF ReversalInv, ReversalInvOf
<1> QED
  BY <1>1, <1>4, <1>5 DEF ReversalInvOf

LEMMA EntriesKeepReversals ==
  ASSUME TypeInv, ReversalInv, NEW t \in Threads, SelectEntries(t), pc'[t] = "begin"
  PROVE  ReversalInvOf(t)'
<1> DEFINE reversal == ReversalOf(db, req[t].original, req[t].reversal)
<1>1. /\ pc[t] = "entries"
      /\ journals' = [journals EXCEPT ![t] = <<reversal>>]
      /\ UNCHANGED db
  BY DEF SelectEntries, Raise, Goto, TypeInv, TypeOK
<1>2. reversal.of = req[t].original
  BY DEF ReversalOf
<1> HIDE DEF reversal
<1>3. journals'[t] = <<reversal>>
  BY <1>1 DEF TypeInv, TypeOK
<1>4. ~IsReversed(db, reversal.of)
  BY <1>1, <1>2 DEF ReversalInv, ReversalInvOf
<1> QED
  BY <1>1, <1>3, <1>4 DEF ReversalInvOf

LEMMA ReversalOwnStep ==
  ASSUME TypeInv, OneWriter, AuditInv, ReversalInv, NEW t \in Threads, ThreadStep(t)
  PROVE  /\ ReversalInvOf(t)'
         /\ SingleReversals(db') /\ SingleReversals(work')
<1> USE DEF Goto
<1>0. /\ ReversalInvOf(t) /\ SingleReversals(db) /\ SingleReversals(work)
      /\ AuditInvOf(t) /\ pc \in [Threads -> Steps]
  BY DEF ReversalInv, AuditInv, TypeInv, TypeOK
<1> DEFINE Goal == ReversalInvOf(t)' /\ SingleReversals(db') /\ SingleReversals(work')
<1>1. ASSUME NEW error, Raise(t, error)
      PROVE  Goal
  BY <1>0, <1>1 DEF Raise, Rollback, ReversalInvOf
<1>2. ASSUME NEW r \in Requests, Call(t, r)
      PROVE  Goal
  BY <1>0, <1>2 DEF Call, ReversalInvOf
<1>3. CASE Acquire(t)
  <2>1. req[t] \in Request
    BY <1>3, StoreAssumption DEF Acquire, TypeInv, InCall
  <2>2. pc'[t] = FirstStatement(req[t].op) /\ UNCHANGED <<req, db, work>>
    BY <1>0, <1>3 DEF Acquire
  <2> QED
    BY <1>0, <2>1, <2>2, FirstStatementOf DEF ReversalInvOf
<1>4. CASE Read(t)
  <2>1. CASE SelectAccounts(t)
    BY <1>0, <1>1, <2>1 DEF SelectAccounts, Check, AuditInvOf, ReversalInvOf
  <2>2. CASE SelectOriginal(t)
    BY <1>0, <1>1, <2>2 DEF SelectOriginal, Check, ReversalInvOf
  <2>3. CASE SelectReversal(t)
    BY <1>0, <1>1, <2>3 DEF SelectReversal, Check, ReversalInvOf
  <2>4. CASE SelectDuplicate(t)
    BY <1>0, <1>1, <2>4 DEF SelectDuplicate, Check, ReversalInvOf
  <2>5. CASE SelectEntries(t)
    <3>1. (\E error : Raise(t, error)) \/ (pc'[t] = "begin" /\ UNCHANGED <<db, work>>)
      BY <1>0, <2>5 DEF SelectEntries
    <3> QED
      BY <1>0, <1>1, <2>5, <3>1, EntriesKeepReversals
  <2> QED
    BY <1>4, <2>1, <2>2, <2>3, <2>4, <2>5 DEF Read
<1>5. CASE Begin(t)
  BY <1>0, <1>5, BeginKeepsReversals DEF Begin
<1>6. CASE InsertRow(t)
  BY <1>0, <1>6, InsertKeepsReversals DEF InsertRow
<1>7. CASE NextJournal(t)
  BY <1>0, <1>7, NextJournalKeepsReversals DEF NextJournal
<1>8. CASE Commit(t)
  BY <1>0, <1>8 DEF Commit, ReversalInvOf
<1>9. CASE Return(t)
  BY <1>0, <1>9 DEF Return, ReversalInvOf
<1> QED
  BY <1>1, <1>2, <1>3, <1>4, <1>5, <1>6, <1>7, <1>8, <1>9
     DEF ThreadStep, Write, BeginBusy, InsertRejected, WriteFails, ReceiptFails

LEMMA ReversalInvariance ==
  ASSUME OneStore
  PROVE  TypeInv /\ OneWriter /\ AuditInv /\ ReversalInv /\ [Next]_vars => ReversalInv'
<1> SUFFICES ASSUME TypeInv, OneWriter, AuditInv, ReversalInv, [Next]_vars
             PROVE  ReversalInv'
  OBVIOUS
<1>1. ASSUME NEW t \in Threads, ThreadStep(t)
      PROVE  ReversalInv'
  <2>1. ASSUME NEW u \in Threads, u # t
        PROVE  ReversalInvOf(u)'
    <3>1. /\ pc'[u] = pc[u] /\ req'[u] = req[u]
          /\ journals'[u] = journals[u] /\ rows'[u] = rows[u]
      BY <1>1, <2>1, Locality
    <3>2. pc[u] \notin {"idle", "lock"} => db' = db /\ work' = work
      <4>1. StoreOf[t] = StoreOf[u]
        BY OneStore, StoreAssumption DEF OneStore
      <4> QED
        BY <1>1, <2>1, <4>1, Protected
    <3> QED
      BY <3>1, <3>2 DEF ReversalInv, ReversalInvOf
  <2> QED
    BY <1>1, <2>1, ReversalOwnStep DEF ReversalInv
<1>2. CASE Crash
  BY <1>2 DEF Crash, ReversalInv, ReversalInvOf
<1>3. CASE UNCHANGED vars
  BY <1>3 DEF vars, ReversalInv, ReversalInvOf
<1> QED
  BY <1>1, <1>2, <1>3 DEF Next

LEMMA ReversalInit == Init => ReversalInv
  BY DEF Init, ReversalInv, ReversalInvOf, SingleReversals, EmptyDatabase

\* With one store on the file append_reversal reverses a transaction at most
\* once, whatever the threads, although its check and its insert are separate
\* transactions.  With two stores it does not: see the run two_stores_reversal.
THEOREM ReversedOnceHolds ==
  ASSUME OneStore
  PROVE  Spec => []ReversedOnce
<1>1. ReversalInv => ReversedOnce
  BY DEF ReversalInv, SingleReversals, IsReversal, ReversedOnce, RowsOf
<1> QED
  BY <1>1, TypeInit, TypeInvariance, OneWriterInit, OneWriterInvariance, AuditInit,
     AuditInvariance, ReversalInit, ReversalInvariance, PTL DEF Spec

-----------------------------------------------------------------------------
(* What an open transaction has inserted, and what it has still to insert. *)

\* The journals of a request: append_reversal constructs its own from the stored
\* original.
Constructed(d, r) ==
  IF r.op = "append_reversal" THEN <<ReversalOf(d, r.original, r.reversal)>> ELSE <<>>
JournalsOf(d, r) == Journals(r, Constructed(d, r))

\* All the rows of a request, in the order they are inserted.
RequestRows(d, r) == Masters(r) \o RowsOfJournals(JournalsOf(d, r))

Pending(t) == rows[t] \o RowsOfJournals(journals[t])

\* The constraints that the rows of a sequence passed: new keys, no key twice,
\* and no amount that prints a minus.
Placed(d, rs) ==
  /\ \A i, j \in DOMAIN rs :
       /\ rs[i].table \in CoreTables
       /\ rs[i].table = rs[j].table
       /\ rs[i].key = rs[j].key
       => i = j
  /\ \A i \in DOMAIN rs :
       /\ rs[i].table \in CoreTables => ~HasRow(d, rs[i].table, rs[i].key)
       /\ rs[i].table = "entries" => rs[i].data.amount # NegativeZero

\* The transaction of t has inserted the first n rows of its request into db.
InsertedUpTo(t, all, n) ==
  /\ Pending(t) = SubSeq(all, n + 1, Len(all))
  /\ work = WithRows(db, SubSeq(all, 1, n), req[t].actor)
  /\ Placed(db, SubSeq(all, 1, n))

Inserting(t) ==
  /\ JournalsOf(db, req[t]) \in Seq(Journal)
  /\ \E n \in 0..Len(RequestRows(db, req[t])) :
       InsertedUpTo(t, RequestRows(db, req[t]), n)

LEMMA WithNoRows ==
  ASSUME NEW d \in Database, NEW actor
  PROVE  WithRows(d, <<>>, actor) = d
<1>1. d = [rows |-> d.rows, audit |-> d.audit] /\ d.audit \in Seq(AuditRow)
  BY DEF Database
<1>2. Range(<<>>) = {}
  BY DEF Range
<1>3. [i \in DOMAIN <<>> |-> Signed(<<>>[i], actor)] = <<>>
  OBVIOUS
<1>4. d.audit \o <<>> = d.audit
  BY <1>1
<1> QED
  BY <1>1, <1>2, <1>3, <1>4 DEF WithRows

LEMMA WithRowsAppend ==
  ASSUME NEW d \in Database, NEW rs \in Seq(Row), NEW row \in Row, NEW actor
  PROVE  Insert(WithRows(d, rs, actor), row, actor) = WithRows(d, Append(rs, row), actor)
<1> DEFINE signed == [i \in DOMAIN rs |-> Signed(rs[i], actor)]
           more   == [i \in DOMAIN Append(rs, row) |-> Signed(Append(rs, row)[i], actor)]
           more2  == Append(signed, Signed(row, actor))
           core(s) == {r \in Range(s) : r.table \in CoreTables}
<1>1. /\ DOMAIN rs = 1..Len(rs) /\ Len(rs) \in Nat
      /\ DOMAIN Append(rs, row) = 1..(Len(rs) + 1)
      /\ \A i \in 1..Len(rs) : Append(rs, row)[i] = rs[i]
      /\ Append(rs, row)[Len(rs) + 1] = row
  OBVIOUS
<1>2. more = more2
  <2>1. more \in Seq(Range(more)) /\ Len(more) = Len(rs) + 1
    BY <1>1 DEF Range
  <2>2. signed \in Seq(Range(signed)) /\ Len(signed) = Len(rs)
    BY <1>1 DEF Range
  <2>3. DOMAIN more2 = 1..(Len(rs) + 1) /\ more2[Len(rs) + 1] = Signed(row, actor)
        /\ \A i \in 1..Len(rs) : more2[i] = Signed(rs[i], actor)
    BY <1>1, <2>2
  <2>4. more2 = [i \in 1..(Len(rs) + 1) |-> more2[i]]
    BY <1>1, <2>2
  <2>5. \A i \in 1..(Len(rs) + 1) : more[i] = more2[i]
    BY <1>1, <2>3
  <2>6. more = [i \in 1..(Len(rs) + 1) |-> more[i]]
    BY <1>1
  <2> HIDE DEF more, more2
  <2> QED
    BY <2>4, <2>5, <2>6
<1>3. Range(Append(rs, row)) = Range(rs) \cup {row}
  <2>1. \A x \in Range(Append(rs, row)) : x \in Range(rs) \/ x = row
    BY <1>1 DEF Range
  <2>2. row \in Range(Append(rs, row)) /\ \A x \in Range(rs) : x \in Range(Append(rs, row))
    BY <1>1 DEF Range
  <2> QED
    BY <2>1, <2>2
<1>4. core(Append(rs, row)) = core(rs) \cup (IF row.table \in CoreTables THEN {row} ELSE {})
  BY <1>3
<1>5. Append(d.audit \o signed, Signed(row, actor)) = d.audit \o more
  <2>1. d.audit \in Seq(AuditRow)
    BY DEF Database
  <2> DEFINE T == AuditRow \cup Range(signed) \cup {Signed(row, actor)}
             x == Signed(row, actor)
             a == d.audit
  <2>0. AuditRow \subseteq T /\ x \in T
    OBVIOUS
  <2>2. a \in Seq(T) /\ x \in T
    <3> HIDE DEF T
    <3> QED
      BY <2>0, <2>1, SeqMonotonic
  <2>3. signed \in Seq(T)
    BY <1>1 DEF Range
  <2> HIDE DEF T, x, a, signed
  <2>4. Append(a \o signed, x) = a \o Append(signed, x)
    BY <2>2, <2>3
  <2> QED
    BY <1>2, <2>4 DEF x, a
<1>6. WithRows(d, Append(rs, row), actor) = [rows |-> d.rows \cup core(Append(rs, row)), audit |-> d.audit \o more]
  BY DEF WithRows
<1>7. WithRows(d, rs, actor) = [rows |-> d.rows \cup core(rs), audit |-> d.audit \o signed]
  BY DEF WithRows
<1> HIDE DEF core, more, signed
<1>8. /\ WithRows(d, rs, actor).rows = d.rows \cup core(rs)
      /\ WithRows(d, rs, actor).audit = d.audit \o signed
  BY <1>7
<1> QED
  BY <1>4, <1>5, <1>6, <1>8 DEF Insert

LEMMA PlacedAppend ==
  ASSUME NEW d, NEW rs \in Seq(Row), NEW row \in Row, NEW actor,
         Placed(d, rs), Allowed(WithRows(d, rs, actor), row)
  PROVE  Placed(d, Append(rs, row))
<1>1. /\ DOMAIN rs = 1..Len(rs) /\ Len(rs) \in Nat
      /\ DOMAIN Append(rs, row) = 1..(Len(rs) + 1)
      /\ \A i \in 1..Len(rs) : Append(rs, row)[i] = rs[i]
      /\ Append(rs, row)[Len(rs) + 1] = row
  OBVIOUS
<1>2. WithRows(d, rs, actor).rows = d.rows \cup {r \in Range(rs) : r.table \in CoreTables}
  BY DEF WithRows
<1>3. row.table \in CoreTables =>
        /\ ~HasRow(d, row.table, row.key)
        /\ \A i \in 1..Len(rs) : ~(rs[i].table = row.table /\ rs[i].key = row.key)
  <2> SUFFICES ASSUME row.table \in CoreTables
               PROVE  /\ ~HasRow(d, row.table, row.key)
                      /\ \A i \in 1..Len(rs) : ~(rs[i].table = row.table /\ rs[i].key = row.key)
    OBVIOUS
  <2>1. \A x \in WithRows(d, rs, actor).rows : ~(x.table = row.table /\ x.key = row.key)
    BY DEF Allowed, HasRow
  <2>2. ~HasRow(d, row.table, row.key)
    BY <1>2, <2>1 DEF HasRow
  <2>3. ASSUME NEW i \in 1..Len(rs), rs[i].table = row.table, rs[i].key = row.key
        PROVE  FALSE
    <3>1. rs[i] \in Range(rs)
      BY <1>1 DEF Range
    <3> QED
      BY <1>2, <2>1, <2>3, <3>1
  <2> QED
    BY <2>2, <2>3
<1>4. row.table = "entries" => row.data.amount # NegativeZero
  BY DEF Allowed
<1>5. /\ \A i, j \in 1..Len(rs) :
           /\ rs[i].table \in CoreTables /\ rs[i].table = rs[j].table /\ rs[i].key = rs[j].key
           => i = j
      /\ \A i \in 1..Len(rs) :
           /\ rs[i].table \in CoreTables => ~HasRow(d, rs[i].table, rs[i].key)
           /\ rs[i].table = "entries" => rs[i].data.amount # NegativeZero
  BY <1>1 DEF Placed
<1> DEFINE s == Append(rs, row)
<1>6. \A i \in 1..(Len(rs) + 1) : (i \in 1..Len(rs) /\ s[i] = rs[i]) \/ (i = Len(rs) + 1 /\ s[i] = row)
  BY <1>1
<1>7. DOMAIN s = 1..(Len(rs) + 1)
  BY <1>1
<1> HIDE DEF s
<1>8. ASSUME NEW i \in DOMAIN s, NEW j \in DOMAIN s,
             s[i].table \in CoreTables, s[i].table = s[j].table, s[i].key = s[j].key
      PROVE  i = j
  <2>1. CASE i \in 1..Len(rs) /\ j \in 1..Len(rs) /\ s[i] = rs[i] /\ s[j] = rs[j]
    BY <1>5, <1>8, <2>1
  <2>2. CASE i = Len(rs) + 1 /\ s[i] = row /\ j \in 1..Len(rs) /\ s[j] = rs[j]
    BY <1>3, <1>8, <2>2
  <2>3. CASE j = Len(rs) + 1 /\ s[j] = row /\ i \in 1..Len(rs) /\ s[i] = rs[i]
    BY <1>3, <1>8, <2>3
  <2> QED
    BY <1>6, <1>7, <2>1, <2>2, <2>3
<1>9. ASSUME NEW i \in DOMAIN s
      PROVE  /\ s[i].table \in CoreTables => ~HasRow(d, s[i].table, s[i].key)
             /\ s[i].table = "entries" => s[i].data.amount # NegativeZero
  BY <1>3, <1>4, <1>5, <1>6, <1>7
<1> QED
  BY <1>8, <1>9 DEF Placed, s

LEMMA RequestRowsType ==
  ASSUME NEW d, NEW r \in Request, JournalsOf(d, r) \in Seq(Journal)
  PROVE  RequestRows(d, r) \in Seq(Row) /\ Len(RequestRows(d, r)) \in Nat
<1>1. Masters(r) \in Seq(Row) /\ RowsOfJournals(JournalsOf(d, r)) \in Seq(Row)
  BY RequestType, RowsOfJournalsType
<1>2. RequestRows(d, r) \in Seq(Row)
  BY <1>1, ConcatProperties DEF RequestRows
<1> QED
  BY <1>2, LenProperties

LEMMA SplitAppend ==
  ASSUME NEW T, NEW all \in Seq(T), NEW n \in 0..Len(all), n < Len(all)
  PROVE  /\ all[n + 1] \in T /\ n + 1 \in 0..Len(all)
         /\ SubSeq(all, 1, n) \in Seq(T)
         /\ SubSeq(all, 1, n + 1) = Append(SubSeq(all, 1, n), all[n + 1])
         /\ SubSeq(all, n + 1, Len(all)) # <<>>
         /\ Head(SubSeq(all, n + 1, Len(all))) = all[n + 1]
         /\ Tail(SubSeq(all, n + 1, Len(all))) = SubSeq(all, n + 2, Len(all))
<1>1. /\ Len(all) \in Nat /\ n \in Nat /\ n + 1 \in 1..Len(all) /\ n + 1 \in 0..Len(all)
      /\ all[n + 1] \in T /\ (n + 1) + 1 = n + 2
      /\ 1 \in 1..Len(all) /\ n + 1 \in 1..Len(all) /\ (n + 1) - 1 = n
      /\ Len(all) \in (n + 1)..Len(all)
  OBVIOUS
<1>2. SubSeq(all, 1, n) \in Seq(T)
  <2>1. \A i \in 1..n : all[i] \in T
    BY <1>1
  <2> QED
    BY <1>1, <2>1, SubSeqProperties
<1>3. SubSeq(all, 1, n + 1) = SubSeq(all, 1, n) \o <<all[n + 1]>>
  BY <1>1, SubSeqRecursiveSecond
<1>4. SubSeq(all, 1, n + 1) = Append(SubSeq(all, 1, n), all[n + 1])
  BY <1>1, <1>2, <1>3, AppendIsConcat
<1>5. /\ Head(SubSeq(all, n + 1, Len(all))) = all[n + 1]
      /\ Tail(SubSeq(all, n + 1, Len(all))) = SubSeq(all, n + 2, Len(all))
  BY <1>1, HeadTailOfSubSeq
<1>6. Len(SubSeq(all, n + 1, Len(all))) = Len(all) - n
  <2>1. \A i \in (n + 1)..Len(all) : all[i] \in T
    BY <1>1
  <2>2. n + 1 \in Int /\ Len(all) \in Int /\ n + 1 <= Len(all)
    BY <1>1
  <2>3. Len(SubSeq(all, n + 1, Len(all))) = Len(all) - (n + 1) + 1
    BY <2>1, <2>2, SubSeqProperties
  <2> QED
    BY <1>1, <2>3
<1>7. SubSeq(all, n + 1, Len(all)) # <<>>
  <2> DEFINE s == SubSeq(all, n + 1, Len(all))
  <2>1. Len(s) = Len(all) - n
    BY <1>6
  <2>2. Len(all) - n # 0
    BY <1>1
  <2> HIDE DEF s
  <2>3. s # <<>>
    BY <2>1, <2>2
  <2> QED
    BY <2>3 DEF s
<1> QED
  BY <1>1, <1>2, <1>4, <1>5, <1>7

\* A row moves from what is pending to what is inserted.
LEMMA InsertRowInserts ==
  ASSUME TypeInv, NEW t \in Threads, InsertRow(t), Inserting(t),
         auditState[StoreOf[t]] = req[t].actor
  PROVE  Inserting(t)'
<1> DEFINE all == RequestRows(db, req[t])
           actor == req[t].actor
<1>0. /\ pc[t] = "insert" /\ req[t] \in Request /\ db \in Database
      /\ rows[t] \in Seq(Row) /\ rows[t] # <<>> /\ journals[t] \in Seq(Journal)
      /\ UNCHANGED <<db, req, journals>>
  BY StoreAssumption DEF InsertRow, TypeInv, TypeOK, InCall
<1>1. /\ rows'[t] = Tail(rows[t])
      /\ Allowed(work, Head(rows[t]))
      /\ work' = Insert(work, Head(rows[t]), actor)
  BY DEF InsertRow, TypeInv, TypeOK
<1>2. JournalsOf(db, req[t]) \in Seq(Journal) /\ all \in Seq(Row) /\ Len(all) \in Nat
  BY <1>0, RequestRowsType DEF Inserting
<1>3. PICK n \in 0..Len(all) : InsertedUpTo(t, all, n)
  BY DEF Inserting
<1> HIDE DEF all, actor
<1>4. /\ Pending(t) = SubSeq(all, n + 1, Len(all))
      /\ work = WithRows(db, SubSeq(all, 1, n), actor)
      /\ Placed(db, SubSeq(all, 1, n))
  BY <1>3 DEF InsertedUpTo, actor
<1>5. RowsOfJournals(journals[t]) \in Seq(Row)
  BY <1>0, RowsOfJournalsType
<1>6. /\ Pending(t) # <<>> /\ Head(Pending(t)) = Head(rows[t])
      /\ Tail(Pending(t)) = Tail(rows[t]) \o RowsOfJournals(journals[t])
  <2> DEFINE a == rows[t]
             b == RowsOfJournals(journals[t])
  <2>1. a \in Seq(Row) /\ b \in Seq(Row) /\ a # <<>>
    BY <1>0, <1>5
  <2> HIDE DEF a, b
  <2>2. a \o b # <<>> /\ Head(a \o b) = Head(a) /\ Tail(a \o b) = Tail(a) \o b
    BY <2>1
  <2> QED
    BY <2>2 DEF a, b, Pending
<1>7. n < Len(all)
  <2>1. n # Len(all)
    <3>1. n = Len(all) => SubSeq(all, n + 1, Len(all)) = <<>>
      BY <1>2, SubSeqEmpty
    <3> QED
      BY <1>4, <1>6, <3>1
  <2> QED
    BY <1>2, <2>1
<1>8. /\ all[n + 1] \in Row /\ n + 1 \in 0..Len(all)
      /\ SubSeq(all, 1, n) \in Seq(Row)
      /\ SubSeq(all, 1, n + 1) = Append(SubSeq(all, 1, n), all[n + 1])
      /\ Head(Pending(t)) = all[n + 1]
      /\ Tail(Pending(t)) = SubSeq(all, n + 2, Len(all))
  BY <1>2, <1>4, <1>7, SplitAppend
<1>9. Pending(t)' = SubSeq(all, (n + 1) + 1, Len(all))
  <2>1. Pending(t)' = Tail(rows[t]) \o RowsOfJournals(journals[t])
    BY <1>0, <1>1 DEF Pending
  <2>2. (n + 1) + 1 = n + 2
    OBVIOUS
  <2> QED
    BY <1>6, <1>8, <2>1, <2>2
<1>10. work' = WithRows(db, SubSeq(all, 1, n + 1), actor)
  <2> DEFINE done == SubSeq(all, 1, n)
             row == all[n + 1]
  <2>1. done \in Seq(Row) /\ row \in Row /\ db \in Database
    BY <1>0, <1>8
  <2>2. work' = Insert(WithRows(db, done, actor), row, actor)
    BY <1>1, <1>4, <1>6, <1>8
  <2> HIDE DEF done, row
  <2>3. work' = WithRows(db, Append(done, row), actor)
    BY <2>1, <2>2, WithRowsAppend
  <2> QED
    BY <1>8, <2>3 DEF done, row
<1>11. Placed(db, SubSeq(all, 1, n + 1))
  BY <1>0, <1>1, <1>4, <1>6, <1>8, PlacedAppend
<1>12. InsertedUpTo(t, all, n + 1)'
  <2>1. all' = all /\ actor' = actor
    BY <1>0 DEF all, actor
  <2> QED
    BY <1>0, <1>9, <1>10, <1>11, <2>1 DEF InsertedUpTo, actor
<1>13. JournalsOf(db', req'[t]) \in Seq(Journal) /\ RequestRows(db', req'[t]) = all
  BY <1>0, <1>2 DEF all
<1> QED
  BY <1>8, <1>12, <1>13 DEF Inserting, all

LEMMA NextJournalInserts ==
  ASSUME TypeInv, NEW t \in Threads, NextJournal(t), Inserting(t)
  PROVE  Inserting(t)'
<1>0. /\ rows[t] = <<>> /\ journals[t] \in Seq(Journal) /\ journals[t] # <<>>
      /\ UNCHANGED <<db, work, req>>
      /\ rows'[t] = TransactionRows(Head(journals[t]))
      /\ journals'[t] = Tail(journals[t])
  BY DEF NextJournal, TypeInv, TypeOK
<1>1. Pending(t)' = Pending(t)
  <2>1. RowsOfJournals(journals[t])
          = TransactionRows(Head(journals[t])) \o RowsOfJournals(Tail(journals[t]))
    BY <1>0, RowsOfFirstJournal
  <2>2. <<>> \o RowsOfJournals(journals[t]) = RowsOfJournals(journals[t])
    BY <1>0, RowsOfJournalsType, ConcatEmptySeq
  <2> QED
    BY <1>0, <2>1, <2>2 DEF Pending
<1> QED
  BY <1>0, <1>1 DEF Inserting, InsertedUpTo

\* What append_reversal carries from its reads to its transaction is what the
\* database would give it now.
LEMMA BeginInserts ==
  ASSUME TypeInv, OneWriter, NEW t \in Threads, Begin(t),
         req[t].op = "append_reversal" => journals[t] = Constructed(db, req[t])
  PROVE  Inserting(t)'
<1> DEFINE all == RequestRows(db, req[t])
<1>0. /\ pc[t] = "begin" /\ req[t] \in Request /\ db \in Database /\ work = db
      /\ journals[t] \in Seq(Journal)
      /\ UNCHANGED <<db, work, req>>
      /\ rows'[t] = Masters(req[t])
      /\ journals'[t] = Journals(req[t], journals[t])
  BY StoreAssumption DEF Begin, TypeInv, TypeOK, InCall, OneWriter
<1>1. Journals(req[t], journals[t]) = JournalsOf(db, req[t])
  <2>1. req[t].op \in {"create_book", "append_transaction", "append_reversal",
                       "append_legislative_result"}
    BY <1>0 DEF Request, CreateBookRequest, AppendRequest, ReversalRequest, LegislativeRequest
  <2>2. CASE req[t].op = "append_reversal"
    BY <2>2 DEF JournalsOf
  <2>3. CASE req[t].op # "append_reversal"
    BY <2>1, <2>3 DEF JournalsOf, Journals
  <2> QED
    BY <2>2, <2>3
<1>2. JournalsOf(db, req[t]) \in Seq(Journal)
  BY <1>0, <1>1, RequestType
<1>3. all \in Seq(Row) /\ Len(all) \in Nat
  BY <1>0, <1>2, RequestRowsType
<1>4. Pending(t)' = all
  BY <1>0, <1>1 DEF Pending, RequestRows
<1> HIDE DEF all
<1>5. SubSeq(all, 1, 0) = <<>> /\ SubSeq(all, 0 + 1, Len(all)) = all
  BY <1>3, SubSeqEmpty, SubSeqFull
<1>6. work' = WithRows(db, <<>>, req[t].actor)
  BY <1>0, WithNoRows
<1>7. Placed(db, <<>>)
  BY DEF Placed
<1>8. InsertedUpTo(t, all, 0)'
  <2>1. all' = all
    BY <1>0 DEF all
  <2> QED
    BY <1>0, <1>4, <1>5, <1>6, <1>7, <2>1 DEF InsertedUpTo
<1>9. 0 \in 0..Len(all)
  BY <1>3
<1> QED
  BY <1>0, <1>2, <1>8, <1>9 DEF Inserting, all

\* A commit makes exactly the rows of the request visible.
LEMMA CommitsAllRows ==
  ASSUME TypeInv, NEW t \in Threads, Commit(t), Inserting(t)
  PROVE  /\ JournalsOf(db, req[t]) \in Seq(Journal)
         /\ db' = WithRows(db, RequestRows(db, req[t]), req[t].actor)
         /\ Placed(db, RequestRows(db, req[t]))
<1> DEFINE all == RequestRows(db, req[t])
<1>0. /\ pc[t] = "insert" /\ req[t] \in Request
      /\ rows[t] = <<>> /\ journals[t] = <<>> /\ db' = work
  BY StoreAssumption DEF Commit, BodyDone, TypeInv, InCall
<1>1. JournalsOf(db, req[t]) \in Seq(Journal) /\ all \in Seq(Row) /\ Len(all) \in Nat
  BY <1>0, RequestRowsType DEF Inserting
<1>2. PICK n \in 0..Len(all) : InsertedUpTo(t, all, n)
  BY DEF Inserting
<1>3. Pending(t) = <<>>
  BY <1>0, RowsOfNoJournal DEF Pending
<1> HIDE DEF all
<1>4. n = Len(all)
  <2>1. n < Len(all) => SubSeq(all, n + 1, Len(all)) # <<>>
    BY <1>1, SplitAppend
  <2> QED
    BY <1>1, <1>2, <1>3, <2>1 DEF InsertedUpTo
<1>5. SubSeq(all, 1, n) = all
  BY <1>1, <1>4, SubSeqFull
<1> QED
  BY <1>0, <1>1, <1>2, <1>5 DEF InsertedUpTo, all

-----------------------------------------------------------------------------
(* A commit is a write that a sound database accepts.                      *)

\* Every transaction is on accounts of the book.
KnownAccounts(d, tx) ==
  /\ RowsOf(d, "accounts") # {}
  /\ \A i \in DOMAIN tx.lines : HasRow(d, "accounts", <<tx.lines[i].account, 1>>)

NoMinus(tx) == \A i \in DOMAIN tx.lines : tx.lines[i].amount # NegativeZero

\* What the checks of a call established about db and is still true of it when
\* the call has reached statement p.
Checked(d, p, r) ==
  /\ p # "idle" =>
       /\ Constructible(r)
       /\ r.op = "append_transaction" => r.tx.state = "posted"
  /\ p \in {"begin", "insert"} /\ r.op = "append_transaction" => KnownAccounts(d, r.tx)
  /\ p \in {"reversed", "duplicate", "entries", "begin", "insert"} /\ r.op = "append_reversal" =>
       HasTransaction(d, r.original)

LEMMA PlacedJournal ==
  ASSUME NEW d, NEW tx \in Journal, NEW all, Range(TransactionRows(tx)) \subseteq Range(all),
         Placed(d, all)
  PROVE  ~HasTransaction(d, tx.ref) /\ NoMinus(tx)
<1>1. \A row \in Range(all) : /\ row.table \in CoreTables => ~HasRow(d, row.table, row.key)
                              /\ row.table = "entries" => row.data.amount # NegativeZero
  BY DEF Placed, Range
<1>2. HeaderRow(tx) \in Range(all)
  BY TransactionRowsContents
<1>3. ~HasTransaction(d, tx.ref)
  BY <1>1, <1>2 DEF HeaderRow, CoreTables, HasTransaction
<1>4. ASSUME NEW i \in DOMAIN tx.lines
      PROVE  tx.lines[i].amount # NegativeZero
  <2>1. i \in 1..Len(tx.lines)
    BY DEF Journal
  <2>2. EntryRow(tx, i) \in Range(all)
    BY <2>1, TransactionRowsContents
  <2> QED
    BY <1>1, <2>2 DEF EntryRow
<1> QED
  BY <1>3, <1>4 DEF NoMinus

LEMMA PlacedBook ==
  ASSUME NEW d, NEW accounts \in Seq(Accounts), NEW periods \in Seq(Periods),
         NEW js \in Seq(Journal),
         Placed(d, MasterRows(accounts, periods) \o RowsOfJournals(js))
  PROVE  /\ ~HasRow(d, "books", <<>>)
         /\ \A i, j \in DOMAIN js : i # j => js[i].ref # js[j].ref
         /\ \A tx \in Range(js) : NoMinus(tx)
<1> DEFINE ms  == MasterRows(accounts, periods)
           rj  == RowsOfJournals(js)
           all == ms \o rj
<1>1. /\ ms \in Seq(Row) /\ rj \in Seq(Row)
      /\ BookRow \in Range(ms) /\ Range(rj) = JournalRows(Range(js))
  BY MasterRowsType, MasterRowsContents, RowsOfJournalsType, RangeOfJournals
<1> HIDE DEF ms, rj
<1>2. Range(all) = Range(ms) \cup Range(rj)
  BY <1>1, RangeConcatenation
<1>3. Placed(d, all)
  BY DEF ms, rj
<1>4. ~HasRow(d, "books", <<>>)
  <2>1. BookRow \in Range(all)
    BY <1>1, <1>2
  <2> HIDE DEF all
  <2>2. PICK i \in DOMAIN all : all[i] = BookRow
    BY <2>1 DEF Range
  <2> QED
    BY <1>3, <2>2 DEF Placed, BookRow, CoreTables
<1>5. ASSUME NEW i \in DOMAIN js, NEW j \in DOMAIN js, i # j, js[i].ref = js[j].ref
      PROVE  FALSE
  <2>1. i \in 1..Len(js) /\ j \in 1..Len(js)
    OBVIOUS
  <2>2. PICK m \in DOMAIN rj, n \in DOMAIN rj :
          m # n /\ rj[m].table = "transactions" /\ rj[n].table = "transactions"
          /\ rj[m].key = rj[n].key
    BY <1>5, <2>1, SharedReference DEF rj
  <2>3. /\ Len(ms) \in Nat /\ Len(rj) \in Nat /\ m \in 1..Len(rj) /\ n \in 1..Len(rj)
        /\ Len(all) = Len(ms) + Len(rj) /\ DOMAIN all = 1..Len(all)
        /\ \A k \in 1..(Len(ms) + Len(rj)) :
             all[k] = IF k <= Len(ms) THEN ms[k] ELSE rj[k - Len(ms)]
    BY <1>1, ConcatProperties
  <2> HIDE DEF all
  <2> DEFINE a == Len(ms) + m
             b == Len(ms) + n
  <2>4. /\ a \in 1..(Len(ms) + Len(rj)) /\ ~(a <= Len(ms)) /\ a - Len(ms) = m
        /\ b \in 1..(Len(ms) + Len(rj)) /\ ~(b <= Len(ms)) /\ b - Len(ms) = n
        /\ a # b
    BY <2>2, <2>3
  <2> HIDE DEF a, b
  <2>5. a \in DOMAIN all /\ b \in DOMAIN all /\ all[a] = rj[m] /\ all[b] = rj[n]
    BY <2>3, <2>4
  <2> QED
    BY <1>3, <2>2, <2>4, <2>5 DEF Placed, CoreTables
<1>6. ASSUME NEW tx \in Range(js)
      PROVE  NoMinus(tx)
  <2>1. tx \in Journal /\ Range(TransactionRows(tx)) \subseteq Range(all)
    BY <1>1, <1>2, RangeOfSeq DEF JournalRows
  <2> HIDE DEF all
  <2> QED
    BY <1>3, <2>1, PlacedJournal
<1> QED
  BY <1>4, <1>5, <1>6

LEMMA OpCases ==
  ASSUME NEW r \in Request
  PROVE  r.op \in {"create_book", "append_transaction", "append_reversal",
                   "append_legislative_result"}
  BY DEF Request, CreateBookRequest, AppendRequest, ReversalRequest, LegislativeRequest

\* The rows of a request, by operation.
LEMMA RowsByOperation ==
  ASSUME NEW d, NEW r \in Request, JournalsOf(d, r) \in Seq(Journal)
  PROVE  /\ r.op = "create_book" =>
              /\ JournalsOf(d, r) = r.transactions
              /\ RequestRows(d, r)
                   = MasterRows(r.accounts, r.periods) \o RowsOfJournals(r.transactions)
         /\ r.op = "append_transaction" =>
              JournalsOf(d, r) = <<r.tx>> /\ RequestRows(d, r) = TransactionRows(r.tx)
         /\ r.op = "append_reversal" =>
              LET tx == ReversalOf(d, r.original, r.reversal)
              IN JournalsOf(d, r) = <<tx>> /\ tx \in Journal
                 /\ RequestRows(d, r) = TransactionRows(tx)
         /\ r.op = "append_legislative_result" =>
              JournalsOf(d, r) = <<>> /\ RequestRows(d, r) = <<LegislativeRow(r.ref)>>
<1>1. ASSUME NEW tx, JournalsOf(d, r) = <<tx>>, Masters(r) = <<>>
      PROVE  tx \in Journal /\ RequestRows(d, r) = TransactionRows(tx)
  <2>1. tx \in Journal
    <3>1. <<tx>> \in Seq(Journal) /\ 1 \in 1..Len(<<tx>>) /\ <<tx>>[1] = tx
      BY <1>1
    <3> QED
      BY <3>1, ElementOfSeq
  <2>2. TransactionRows(tx) \in Seq(Row)
    BY <2>1, TransactionRowsType
  <2>3. RequestRows(d, r) = <<>> \o TransactionRows(tx)
    BY <1>1, <2>1, RowsOfOneJournal DEF RequestRows
  <2> QED
    BY <2>1, <2>2, <2>3, ConcatEmptySeq
<1>2. CASE r.op = "create_book"
  BY <1>2 DEF JournalsOf, Journals, RequestRows, Masters
<1>3. CASE r.op = "append_transaction"
  <2>1. JournalsOf(d, r) = <<r.tx>> /\ Masters(r) = <<>>
    BY <1>3 DEF JournalsOf, Journals, Masters
  <2> QED
    BY <1>1, <1>3, <2>1
<1>4. CASE r.op = "append_reversal"
  <2>1. JournalsOf(d, r) = <<ReversalOf(d, r.original, r.reversal)>> /\ Masters(r) = <<>>
    BY <1>4 DEF JournalsOf, Journals, Masters, Constructed
  <2> QED
    BY <1>1, <1>4, <2>1
<1>5. CASE r.op = "append_legislative_result"
  <2>1. JournalsOf(d, r) = <<>> /\ Masters(r) = <<LegislativeRow(r.ref)>>
    BY <1>5 DEF JournalsOf, Journals, Masters
  <2>2. RequestRows(d, r) = <<LegislativeRow(r.ref)>> \o <<>>
    BY <2>1, RowsOfNoJournal DEF RequestRows
  <2>3. <<LegislativeRow(r.ref)>> \o <<>> = <<LegislativeRow(r.ref)>>
    OBVIOUS
  <2> QED
    BY <1>5, <2>1, <2>2, <2>3
<1> QED
  BY <1>2, <1>3, <1>4, <1>5

\* The rows of a request that keeps to the constraints, on a sound database.
LEMMA RequestAccepted ==
  ASSUME NEW d \in Database, Sound(d), NEW r \in Request, r.op # "append_legislative_result",
         Checked(d, "insert", r), JournalsOf(d, r) \in Seq(Journal),
         Placed(d, RequestRows(d, r))
  PROVE  /\ Accepted(d, RequestRows(d, r), r.actor,
                     IF r.op = "create_book" THEN Range(MasterRows(r.accounts, r.periods)) ELSE {},
                     Range(JournalsOf(d, r)))
         /\ \A tx \in Range(JournalsOf(d, r)) : NoMinus(tx)
         /\ r.op = "create_book" =>
              /\ ~HasRow(d, "books", <<>>)
              /\ \A i, j \in DOMAIN r.transactions :
                   i # j => r.transactions[i].ref # r.transactions[j].ref
         /\ r.op # "create_book" => \A tx \in Range(JournalsOf(d, r)) : ~HasTransaction(d, tx.ref)
<1>0. r.actor \in Actors /\ \A tx : Range(<<tx>>) = {tx}
  BY RequestFields DEF Range
<1>1. CASE r.op = "create_book"
  <2>1. /\ r.accounts \in Seq(Accounts) /\ r.periods \in Seq(Periods)
        /\ r.transactions \in Seq(Journal)
        /\ ValidBook(r.accounts, r.periods, r.transactions)
    BY <1>1, RequestFields DEF Checked, Constructible
  <2>2. /\ JournalsOf(d, r) = r.transactions
        /\ RequestRows(d, r)
             = MasterRows(r.accounts, r.periods) \o RowsOfJournals(r.transactions)
    BY <1>1, RowsByOperation
  <2>3. /\ ~HasRow(d, "books", <<>>)
        /\ \A i, j \in DOMAIN r.transactions : i # j => r.transactions[i].ref # r.transactions[j].ref
        /\ \A tx \in Range(r.transactions) : NoMinus(tx)
    BY <2>1, <2>2, PlacedBook
  <2>4. Accepted(d, MasterRows(r.accounts, r.periods) \o RowsOfJournals(r.transactions), r.actor,
                 Range(MasterRows(r.accounts, r.periods)), Range(r.transactions))
    BY <1>0, <2>1, <2>3, BookAccepted
  <2> QED
    BY <1>1, <2>2, <2>3, <2>4
<1>2. ASSUME NEW tx \in Journal, JournalsOf(d, r) = <<tx>>, r.op # "create_book",
             RequestRows(d, r) = TransactionRows(tx),
             tx.state = "posted", Balanced(tx.lines), HasRow(d, "books", <<>>),
             \A i \in DOMAIN tx.lines : HasRow(d, "accounts", <<tx.lines[i].account, 1>>)
      PROVE  /\ Accepted(d, RequestRows(d, r), r.actor, {}, Range(JournalsOf(d, r)))
             /\ \A t \in Range(JournalsOf(d, r)) : NoMinus(t) /\ ~HasTransaction(d, t.ref)
  <2>1. ~HasTransaction(d, tx.ref) /\ NoMinus(tx)
    BY <1>2, PlacedJournal
  <2> QED
    BY <1>0, <1>2, <2>1, JournalAccepted
<1>3. CASE r.op = "append_transaction"
  <2>1. /\ r.tx \in Journal /\ r.tx.state = "posted" /\ ValidJournal(r.tx)
        /\ KnownAccounts(d, r.tx)
    BY <1>3, RequestFields DEF Checked, Constructible
  <2>2. JournalsOf(d, r) = <<r.tx>> /\ RequestRows(d, r) = TransactionRows(r.tx)
    BY <1>3, RowsByOperation
  <2>3. Balanced(r.tx.lines)
    BY <2>1 DEF ValidJournal
  <2>4. HasRow(d, "books", <<>>)
    BY <2>1 DEF KnownAccounts, RowsOf, Sound
  <2> QED
    BY <1>2, <1>3, <2>1, <2>2, <2>3, <2>4 DEF KnownAccounts
<1>4. CASE r.op = "append_reversal"
  <2> DEFINE tx == ReversalOf(d, r.original, r.reversal)
  <2>1. r.original \in Refs /\ r.reversal \in Refs /\ HasTransaction(d, r.original)
    BY <1>4, RequestFields DEF Checked
  <2>2. JournalsOf(d, r) = <<tx>> /\ tx \in Journal /\ RequestRows(d, r) = TransactionRows(tx)
    BY <1>4, RowsByOperation
  <2>3. tx.ref = r.reversal
    BY DEF ReversalOf
  <2>4. ~HasTransaction(d, r.reversal)
    <3> HIDE DEF tx
    <3> QED
      BY <2>2, <2>3, PlacedJournal
  <2>5. /\ tx.state = "posted" /\ Balanced(tx.lines) /\ HasRow(d, "books", <<>>)
        /\ \A i \in DOMAIN tx.lines : HasRow(d, "accounts", <<tx.lines[i].account, 1>>)
    BY <2>1, <2>4, ReversalIsValid
  <2> HIDE DEF tx
  <2> QED
    BY <1>2, <1>4, <2>2, <2>5
<1> QED
  BY <1>1, <1>3, <1>4, OpCases

-----------------------------------------------------------------------------
(* What the calls of all threads rely on, and what they leave behind.      *)

\* e is a later state of the file d: no row is gone, no journal has changed.
Grows(d, e) ==
  /\ d.rows \subseteq e.rows
  /\ \A ref : HasTransaction(d, ref) =>
       LinesOf(e, ref) = LinesOf(d, ref) /\ HeaderOf(e, ref) = HeaderOf(d, ref)
  /\ Range(d.audit) \subseteq Range(e.audit)

\* What a receipt for r acknowledges.
StoredRequest(d, r) ==
  /\ r \in Requests
  /\ r.op = "append_reversal" => HasTransaction(d, r.original)
  /\ r.op = "create_book" => Range(MasterRows(r.accounts, r.periods)) \subseteq d.rows
  /\ \A tx \in Range(JournalsOf(d, r)) :
       /\ HeaderRow(tx) \in d.rows /\ HasTransaction(d, tx.ref)
       /\ LinesOf(d, tx.ref) = tx.lines
  /\ r.op = "append_legislative_result" =>
       Signed(LegislativeRow(r.ref), r.actor) \in Range(d.audit)

CallInv(t) ==
  /\ Checked(db, pc[t], req[t])
  /\ pc[t] = "begin" /\ req[t].op = "append_reversal" => journals[t] = Constructed(db, req[t])
  /\ pc[t] = "insert" => Inserting(t)
  /\ pc[t] = "receipt" => StoredRequest(db, req[t])

StoreInv == /\ Sound(db)
            /\ Audited(db)
            /\ \A t \in Threads : CallInv(t)
            /\ \A r \in receipts : StoredRequest(db, r)

LEMMA GrowsKeepsRows ==
  ASSUME NEW d, NEW e, Grows(d, e)
  PROVE  /\ \A table, key : HasRow(d, table, key) => HasRow(e, table, key)
         /\ \A ref : HasTransaction(d, ref) => HasTransaction(e, ref)
         /\ \A table : RowsOf(d, table) \subseteq RowsOf(e, table)
  BY DEF Grows, HasRow, HasTransaction, RowsOf

LEMMA GrowsKeepsReversal ==
  ASSUME NEW d, NEW e, Grows(d, e), NEW r,
         r.op = "append_reversal" => HasTransaction(d, r.original)
  PROVE  Constructed(e, r) = Constructed(d, r) /\ JournalsOf(e, r) = JournalsOf(d, r)
<1>1. Constructed(e, r) = Constructed(d, r)
  BY DEF Grows, Constructed, ReversalOf
<1> QED
  BY <1>1 DEF JournalsOf

LEMMA GrowsKeepsCall ==
  ASSUME NEW d, NEW e, Grows(d, e), NEW p, NEW r, Checked(d, p, r)
  PROVE  Checked(e, p, r)
<1>1. r.op = "append_transaction" /\ KnownAccounts(d, r.tx) => KnownAccounts(e, r.tx)
  BY GrowsKeepsRows DEF KnownAccounts
<1> QED
  BY <1>1, GrowsKeepsRows DEF Checked

LEMMA GrowsKeepsStored ==
  ASSUME NEW d, NEW e, Grows(d, e), NEW r, StoredRequest(d, r)
  PROVE  StoredRequest(e, r)
<1>1. JournalsOf(e, r) = JournalsOf(d, r)
  BY GrowsKeepsReversal DEF StoredRequest
<1>2. \A tx \in Range(JournalsOf(d, r)) :
        /\ HeaderRow(tx) \in e.rows /\ HasTransaction(e, tx.ref)
        /\ LinesOf(e, tx.ref) = tx.lines
  BY GrowsKeepsRows DEF StoredRequest, Grows
<1> QED
  BY <1>1, <1>2, GrowsKeepsRows DEF StoredRequest, Grows

\* A commit adds to the audit log, a legislative result in particular.
LEMMA AuditOfCommit ==
  ASSUME NEW r \in Request, db \in Database, JournalsOf(db, r) \in Seq(Journal),
         NEW e, e = WithRows(db, RequestRows(db, r), r.actor)
  PROVE  /\ Range(db.audit) \subseteq Range(e.audit)
         /\ r.op = "append_legislative_result" =>
              Signed(LegislativeRow(r.ref), r.actor) \in Range(e.audit)
<1> DEFINE rs == RequestRows(db, r)
<1>1. rs \in Seq(Row) /\ r.actor \in Actors
  BY RequestRowsType, RequestType
<1> HIDE DEF rs
<1>2. /\ Len(db.audit) \in Nat /\ Len(rs) \in Nat
      /\ DOMAIN db.audit = 1..Len(db.audit)
      /\ DOMAIN e.audit = 1..(Len(db.audit) + Len(rs))
      /\ \A i \in 1..Len(db.audit) : e.audit[i] = db.audit[i]
      /\ \A i \in 1..Len(rs) : e.audit[Len(db.audit) + i] = Signed(rs[i], r.actor)
  BY <1>1, WithRowsAudit DEF rs
<1>3. Range(db.audit) \subseteq Range(e.audit)
  BY <1>2 DEF Range
<1>4. ASSUME r.op = "append_legislative_result"
      PROVE  Signed(LegislativeRow(r.ref), r.actor) \in Range(e.audit)
  <2>1. rs = <<LegislativeRow(r.ref)>>
    BY <1>4, RowsByOperation DEF rs
  <2>2. Len(rs) = 1 /\ rs[1] = LegislativeRow(r.ref)
    BY <2>1
  <2>3. /\ Len(db.audit) + 1 \in DOMAIN e.audit
        /\ e.audit[Len(db.audit) + 1] = Signed(LegislativeRow(r.ref), r.actor)
    BY <1>2, <2>2
  <2> QED
    BY <2>3 DEF Range
<1> QED
  BY <1>3, <1>4

\* A commit keeps the file sound, changes nothing that was stored, and stores
\* all of its request.
LEMMA CommitStores ==
  ASSUME TypeInv, StoreInv, NEW t \in Threads, Commit(t)
  PROVE  /\ Sound(db') /\ Audited(db') /\ Grows(db, db')
         /\ StoredRequest(db', req[t])
         /\ db' = WithRows(db, RequestRows(db, req[t]), req[t].actor)
         /\ JournalsOf(db, req[t]) \in Seq(Journal)
         /\ Placed(db, RequestRows(db, req[t]))
         /\ Checked(db, "insert", req[t])
<1> DEFINE r == req[t]
           e == db'
<1>0. /\ pc[t] = "insert" /\ r \in Request /\ r \in Requests /\ db \in Database
      /\ Sound(db) /\ Audited(db) /\ Inserting(t) /\ Checked(db, "insert", r)
  BY StoreAssumption DEF Commit, TypeInv, TypeOK, InCall, StoreInv, CallInv
<1>1. /\ JournalsOf(db, r) \in Seq(Journal)
      /\ e = WithRows(db, RequestRows(db, r), r.actor)
      /\ Placed(db, RequestRows(db, r))
  BY <1>0, CommitsAllRows
<1>9. /\ Range(db.audit) \subseteq Range(e.audit)
      /\ r.op = "append_legislative_result" =>
           Signed(LegislativeRow(r.ref), r.actor) \in Range(e.audit)
  BY <1>0, <1>1, AuditOfCommit
<1> HIDE DEF r, e
<1>2. CASE r.op = "append_legislative_result"
  <2>1. /\ JournalsOf(db, r) = <<>> /\ RequestRows(db, r) = <<LegislativeRow(r.ref)>>
        /\ r.ref \in Refs /\ r.actor \in Actors
    BY <1>0, <1>1, <1>2, RowsByOperation, RequestFields
  <2>2. e \in Database /\ e.rows = db.rows /\ Sound(e) /\ Audited(e)
    BY <1>0, <1>1, <2>1, LegislativeIsSound
  <2>3. Grows(db, e)
    BY <1>9, <2>2, SameRows DEF Grows
  <2>4. JournalsOf(e, r) = <<>>
    BY <1>2, <2>1, <2>3, GrowsKeepsReversal
  <2>5. StoredRequest(e, r)
    <3>1. ~\E tx : tx \in Range(JournalsOf(e, r))
      BY <2>4 DEF Range
    <3> QED
      BY <1>0, <1>2, <1>9, <3>1 DEF StoredRequest
  <2> QED
    BY <1>0, <1>1, <2>2, <2>3, <2>5 DEF r, e
<1>3. CASE r.op # "append_legislative_result"
  <2> DEFINE Ms == IF r.op = "create_book" THEN Range(MasterRows(r.accounts, r.periods)) ELSE {}
             Ts == Range(JournalsOf(db, r))
  <2>1. Accepted(db, RequestRows(db, r), r.actor, Ms, Ts)
    BY <1>0, <1>1, <1>3, RequestAccepted
  <2> HIDE DEF Ms, Ts
  <2>2. Sound(e) /\ Audited(e)
    BY <1>0, <1>1, <2>1, WriteIsSound
  <2>3. /\ e.rows = db.rows \cup Ms \cup JournalRows(Ts)
        /\ \A tx \in Ts : LinesOf(e, tx.ref) = tx.lines
        /\ \A tx \in Ts : HasTransaction(e, tx.ref) /\ HeaderRow(tx) \in e.rows
        /\ \A ref : HasTransaction(db, ref) =>
                      /\ HasTransaction(e, ref)
                      /\ LinesOf(e, ref) = LinesOf(db, ref)
                      /\ HeaderOf(e, ref) = HeaderOf(db, ref)
    BY <1>0, <1>1, <2>1, WriteKeeps
  <2>4. Grows(db, e)
    BY <1>9, <2>3 DEF Grows
  <2>5. r.op = "append_reversal" => HasTransaction(db, r.original)
    BY <1>0 DEF Checked
  <2>6. JournalsOf(e, r) = JournalsOf(db, r)
    BY <2>4, <2>5, GrowsKeepsReversal
  <2>7. r.op = "create_book" => Range(MasterRows(r.accounts, r.periods)) \subseteq e.rows
    BY <2>3 DEF Ms
  <2>8. StoredRequest(e, r)
    BY <1>0, <1>3, <2>3, <2>5, <2>6, <2>7 DEF StoredRequest, Ts
  <2> QED
    BY <1>0, <1>1, <2>2, <2>4, <2>8 DEF r, e
<1> QED
  BY <1>2, <1>3

-----------------------------------------------------------------------------
(* The invariant is kept by every step.                                    *)

\* The reads establish what Checked says.
LEMMA ReadsCheck ==
  ASSUME TypeInv, AuditInv, StoreInv, NEW t \in Threads, Read(t)
  PROVE  CallInv(t)' /\ db' = db
<1> USE DEF Goto
<1>0. /\ CallInv(t) /\ AuditInvOf(t) /\ pc \in [Threads -> Steps] /\ db \in Database
      /\ journals \in [Threads -> Seq(Journal)]
  BY DEF AuditInv, StoreInv, TypeInv, TypeOK
<1>1. ASSUME NEW error, Raise(t, error)
      PROVE  CallInv(t)' /\ db' = db
  BY <1>0, <1>1 DEF Raise, CallInv, Checked
<1>2. CASE SelectAccounts(t)
  <2> DEFINE codes == {r.key[1] : r \in RowsOf(db, "accounts")}
             tx == req[t].tx
  <2>1. pc[t] = "accounts" /\ req[t].op = "append_transaction"
    BY <1>0, <1>2 DEF SelectAccounts, AuditInvOf
  <2>2. \/ \E error : Raise(t, error)
        \/ /\ codes # {} /\ \A i \in DOMAIN tx.lines : tx.lines[i].account \in codes
           /\ pc' = [pc EXCEPT ![t] = "begin"]
           /\ UNCHANGED <<db, work, journals, req, rows>>
    BY <1>2 DEF SelectAccounts, Check
  <2>3. ASSUME codes # {}, \A i \in DOMAIN tx.lines : tx.lines[i].account \in codes
        PROVE  KnownAccounts(db, tx)
    <3>1. \A a \in codes : HasRow(db, "accounts", <<a, 1>>)
      BY <1>0, AccountKeys
    <3>2. RowsOf(db, "accounts") # {}
      BY <2>3
    <3> HIDE DEF codes
    <3> QED
      BY <2>3, <3>1, <3>2 DEF KnownAccounts
  <2> HIDE DEF codes
  <2> QED
    BY <1>0, <1>1, <2>1, <2>2, <2>3 DEF CallInv, Checked
<1>3. CASE SelectOriginal(t)
  <2>1. \/ \E error : Raise(t, error)
        \/ /\ HasTransaction(db, req[t].original)
           /\ pc' = [pc EXCEPT ![t] = "reversed"]
           /\ UNCHANGED <<db, work, journals, req, rows>>
    BY <1>3 DEF SelectOriginal, Check
  <2>2. pc[t] = "original"
    BY <1>3 DEF SelectOriginal
  <2> QED
    BY <1>0, <1>1, <2>1, <2>2 DEF CallInv, Checked, AuditInvOf
<1>4. CASE SelectReversal(t)
  <2>1. \/ \E error : Raise(t, error)
        \/ /\ pc' = [pc EXCEPT ![t] = "duplicate"]
           /\ UNCHANGED <<db, work, journals, req, rows>>
    BY <1>4 DEF SelectReversal, Check
  <2>2. pc[t] = "reversed"
    BY <1>4 DEF SelectReversal
  <2> QED
    BY <1>0, <1>1, <2>1, <2>2 DEF CallInv, Checked
<1>5. CASE SelectDuplicate(t)
  <2>1. \/ \E error : Raise(t, error)
        \/ /\ pc' = [pc EXCEPT ![t] = "entries"]
           /\ UNCHANGED <<db, work, journals, req, rows>>
    BY <1>5 DEF SelectDuplicate, Check
  <2>2. pc[t] = "duplicate"
    BY <1>5 DEF SelectDuplicate
  <2> QED
    BY <1>0, <1>1, <2>1, <2>2 DEF CallInv, Checked
<1>6. CASE SelectEntries(t)
  <2> DEFINE reversal == ReversalOf(db, req[t].original, req[t].reversal)
  <2>1. pc[t] = "entries" /\ req[t].op = "append_reversal"
    BY <1>0, <1>6 DEF SelectEntries, AuditInvOf
  <2>2. \/ \E error : Raise(t, error)
        \/ /\ journals' = [journals EXCEPT ![t] = <<reversal>>]
           /\ pc' = [pc EXCEPT ![t] = "begin"]
           /\ UNCHANGED <<db, work, req, rows>>
    BY <1>6 DEF SelectEntries
  <2>3. <<reversal>> = Constructed(db, req[t])
    BY <2>1 DEF Constructed
  <2> HIDE DEF reversal
  <2>4. CASE /\ journals' = [journals EXCEPT ![t] = <<reversal>>]
             /\ pc' = [pc EXCEPT ![t] = "begin"]
             /\ UNCHANGED <<db, work, req, rows>>
    <3>1. pc'[t] = "begin" /\ journals'[t] = Constructed(db, req[t])
      BY <1>0, <2>3, <2>4
    <3> QED
      BY <1>0, <2>1, <2>4, <3>1 DEF CallInv, Checked
  <2> QED
    BY <1>1, <2>2, <2>4
<1> QED
  BY <1>2, <1>3, <1>4, <1>5, <1>6 DEF Read

\* Every other step of t keeps its own part of the invariant, too.
LEMMA StoreOwnStep ==
  ASSUME TypeInv, OneWriter, AuditInv, StoreInv, NEW t \in Threads, ThreadStep(t)
  PROVE  /\ CallInv(t)' /\ Grows(db, db')
         /\ Sound(db') /\ Audited(db')
<1> USE DEF Goto
<1>0. /\ CallInv(t) /\ AuditInvOf(t) /\ Sound(db) /\ Audited(db)
      /\ pc \in [Threads -> Steps]
      /\ journals \in [Threads -> Seq(Journal)]
      /\ req \in [Threads -> Requests \cup {None}]
  BY DEF AuditInv, StoreInv, TypeInv, TypeOK
<1>1. ASSUME db' = db
      PROVE  Grows(db, db') /\ Sound(db') /\ Audited(db')
  BY <1>0, <1>1 DEF Grows
<1>2. ASSUME NEW error, Raise(t, error)
      PROVE  CallInv(t)' /\ db' = db
  BY <1>0, <1>2 DEF Raise, CallInv, Checked
<1>3. ASSUME NEW r \in Requests, Call(t, r)
      PROVE  CallInv(t)' /\ db' = db
  BY <1>0, <1>3 DEF Call, CallInv, Checked
<1>4. CASE Acquire(t)
  <2>1. req[t] \in Request /\ pc[t] = "lock"
    BY <1>4, StoreAssumption DEF Acquire, TypeInv, InCall
  <2>2. pc'[t] = FirstStatement(req[t].op) /\ UNCHANGED <<req, db, work, journals, rows>>
    BY <1>0, <1>4 DEF Acquire
  <2> QED
    BY <1>0, <1>1, <2>1, <2>2, FirstStatementOf DEF CallInv, Checked
<1>5. CASE Read(t)
  BY <1>1, <1>5, ReadsCheck
<1>6. CASE Begin(t)
  <2>1. pc[t] = "begin" /\ pc'[t] = "insert" /\ UNCHANGED <<db, req>>
    BY <1>0, <1>6 DEF Begin
  <2>2. Inserting(t)'
    BY <1>0, <1>6, <2>1, BeginInserts DEF CallInv
  <2>3. Checked(db', pc'[t], req'[t])
    BY <1>0, <2>1 DEF CallInv, Checked
  <2> QED
    BY <1>0, <1>1, <2>1, <2>2, <2>3 DEF CallInv
<1>7. CASE InsertRow(t)
  <2>1. pc[t] = "insert" /\ UNCHANGED <<db, req, pc, journals>>
    BY <1>7 DEF InsertRow
  <2>2. auditState[StoreOf[t]] = req[t].actor /\ Inserting(t)
    BY <1>0, <2>1 DEF AuditInvOf, OpenTransaction, CallInv
  <2>3. Inserting(t)'
    BY <1>7, <2>2, InsertRowInserts
  <2> QED
    BY <1>0, <1>1, <2>1, <2>3 DEF CallInv
<1>8. CASE NextJournal(t)
  <2>1. pc[t] = "insert" /\ UNCHANGED <<db, req, pc>>
    BY <1>8 DEF NextJournal
  <2>2. Inserting(t)'
    BY <1>0, <1>8, <2>1, NextJournalInserts DEF CallInv
  <2> QED
    BY <1>0, <1>1, <2>1, <2>2 DEF CallInv
<1>9. CASE Commit(t)
  <2>1. pc'[t] = "receipt" /\ UNCHANGED req
    BY <1>0, <1>9 DEF Commit
  <2>2. /\ Sound(db') /\ Audited(db') /\ Grows(db, db')
        /\ StoredRequest(db', req[t]) /\ Checked(db, "insert", req[t])
    BY <1>9, CommitStores
  <2> QED
    BY <2>1, <2>2 DEF CallInv, Checked
<1>10. CASE Return(t)
  <2>1. pc[t] = "receipt" /\ pc'[t] = "idle" /\ UNCHANGED <<db, req>>
    BY <1>0, <1>10 DEF Return
  <2> QED
    BY <1>0, <1>1, <2>1 DEF CallInv, Checked
<1>11. CASE BeginBusy(t)
  BY <1>1, <1>2, <1>11 DEF BeginBusy
<1>12. CASE InsertRejected(t)
  BY <1>1, <1>2, <1>12 DEF InsertRejected
<1>13. CASE WriteFails(t) \/ ReceiptFails(t)
  BY <1>1, <1>2, <1>13 DEF WriteFails, ReceiptFails
<1> QED
  BY <1>1, <1>3, <1>4, <1>5, <1>6, <1>7, <1>8, <1>9, <1>10, <1>11, <1>12, <1>13
     DEF ThreadStep, Write

\* Only Return adds a receipt: that of its own request.
LEMMA ReceiptsOfStep ==
  ASSUME NEW t \in Threads, ThreadStep(t), NEW r \in receipts'
  PROVE  r \in receipts \/ (pc[t] = "receipt" /\ r = req[t])
<1>1. Return(t) \/ receipts' = receipts
  BY DEF ThreadStep, Call, Acquire, Read, SelectAccounts, SelectOriginal, SelectReversal,
         SelectDuplicate, SelectEntries, Check, Write, Begin, BeginBusy, InsertRow,
         InsertRejected, NextJournal, Commit, WriteFails, ReceiptFails, Raise
<1> QED
  BY <1>1 DEF Return

LEMMA StoreInvariance ==
  TypeInv /\ OneWriter /\ AuditInv /\ StoreInv /\ [Next]_vars => StoreInv'
<1> SUFFICES ASSUME TypeInv, OneWriter, AuditInv, StoreInv, [Next]_vars
             PROVE  StoreInv'
  OBVIOUS
<1>1. ASSUME NEW t \in Threads, ThreadStep(t)
      PROVE  StoreInv'
  <2>1. CallInv(t)' /\ Grows(db, db') /\ Sound(db') /\ Audited(db')
    BY <1>1, StoreOwnStep
  <2>2. ASSUME NEW u \in Threads, u # t
        PROVE  CallInv(u)'
    <3>1. /\ pc'[u] = pc[u] /\ req'[u] = req[u]
          /\ journals'[u] = journals[u] /\ rows'[u] = rows[u]
      BY <1>1, <2>2, Locality
    <3>2. CallInv(u)
      BY DEF StoreInv
    <3>3. Checked(db', pc'[u], req'[u])
      BY <2>1, <3>1, <3>2, GrowsKeepsCall DEF CallInv
    <3>4. ASSUME pc[u] = "begin", req[u].op = "append_reversal"
          PROVE  journals'[u] = Constructed(db', req'[u])
      BY <2>1, <3>1, <3>2, <3>4, GrowsKeepsReversal DEF CallInv, Checked
    <3>5. ASSUME pc[u] = "insert"
          PROVE  Inserting(u)'
      <4>1. db' = db /\ work' = work
        BY <1>1, <2>2, <3>5, Undisturbed
      <4> QED
        BY <3>1, <3>2, <3>5, <4>1 DEF CallInv, Inserting, InsertedUpTo, Pending
    <3>6. ASSUME pc[u] = "receipt"
          PROVE  StoredRequest(db', req'[u])
      BY <2>1, <3>1, <3>2, <3>6, GrowsKeepsStored DEF CallInv
    <3> QED
      BY <3>1, <3>3, <3>4, <3>5, <3>6 DEF CallInv
  <2>3. ASSUME NEW r \in receipts'
        PROVE  StoredRequest(db', r)
    <3>1. r \in receipts \/ (pc[t] = "receipt" /\ r = req[t])
      BY <1>1, <2>3, ReceiptsOfStep
    <3>2. StoredRequest(db, r)
      BY <3>1 DEF StoreInv, CallInv
    <3> QED
      BY <2>1, <3>2, GrowsKeepsStored
  <2> QED
    BY <2>1, <2>2, <2>3 DEF StoreInv
<1>2. CASE Crash
  BY <1>2 DEF Crash, StoreInv, CallInv, Checked
<1>3. CASE UNCHANGED vars
  BY <1>3 DEF vars, StoreInv, CallInv, Inserting, InsertedUpTo, Pending
<1> QED
  BY <1>1, <1>2, <1>3 DEF Next

LEMMA StoreInit == Init => StoreInv
<1> SUFFICES ASSUME Init
             PROVE  StoreInv
  OBVIOUS
<1>1. db.rows = {} /\ db.audit = <<>>
  BY DEF Init, EmptyDatabase
<1>2. Sound(db) /\ Audited(db)
  BY <1>1 DEF Sound, Keyed, RowsOf, Audited
<1>3. \A t \in Threads : CallInv(t)
  BY DEF Init, CallInv, Checked
<1>4. receipts = {}
  BY DEF Init
<1> QED
  BY <1>2, <1>3, <1>4 DEF StoreInv

LEMMA StoreInvHolds == Spec => [](TypeInv /\ OneWriter /\ AuditInv /\ StoreInv)
  BY TypeInit, TypeInvariance, OneWriterInit, OneWriterInvariance, AuditInit,
     AuditInvariance, StoreInit, StoreInvariance, PTL DEF Spec

LEMMA ReceiptsAreTrue == StoreInv => AcknowledgedIsStored
<1> SUFFICES ASSUME StoreInv, NEW r \in receipts
             PROVE  LET Stored(tx) == HeaderRow(tx) \in db.rows /\ LinesOf(db, tx.ref) = tx.lines
                    IN /\ r.op = "create_book" =>
                            /\ Range(MasterRows(r.accounts, r.periods)) \subseteq db.rows
                            /\ \A tx \in Range(r.transactions) : Stored(tx)
                       /\ r.op = "append_transaction" => Stored(r.tx)
                       /\ r.op = "append_reversal" => Stored(ReversalOf(db, r.original, r.reversal))
                       /\ r.op = "append_legislative_result" =>
                            Signed(LegislativeRow(r.ref), r.actor) \in Range(db.audit)
  BY DEF AcknowledgedIsStored
<1> DEFINE Stored(tx) == HeaderRow(tx) \in db.rows /\ LinesOf(db, tx.ref) = tx.lines
<1>1. StoredRequest(db, r)
  BY DEF StoreInv
<1>2. /\ r.op = "create_book" => Range(MasterRows(r.accounts, r.periods)) \subseteq db.rows
      /\ r.op = "append_legislative_result" =>
           Signed(LegislativeRow(r.ref), r.actor) \in Range(db.audit)
      /\ \A tx \in Range(JournalsOf(db, r)) : Stored(tx)
  BY <1>1 DEF StoredRequest
<1> HIDE DEF Stored
<1>3. r.op = "create_book" => JournalsOf(db, r) = r.transactions
  BY DEF JournalsOf, Journals
<1>4. r.op = "append_transaction" => r.tx \in Range(JournalsOf(db, r))
  <2>1. r.tx \in Range(<<r.tx>>)
    BY DEF Range
  <2> QED
    BY <2>1 DEF JournalsOf, Journals
<1>5. r.op = "append_reversal" => ReversalOf(db, r.original, r.reversal) \in Range(JournalsOf(db, r))
  <2> DEFINE tx == ReversalOf(db, r.original, r.reversal)
  <2> HIDE DEF tx
  <2>1. tx \in Range(<<tx>>)
    BY DEF Range
  <2> QED
    BY <2>1 DEF JournalsOf, Journals, Constructed, tx
<1> QED
  BY <1>2, <1>3, <1>4, <1>5 DEF Stored

\* Whatever a receipt was ever returned for is in the file, whole, also after
\* later calls, errors and crashes: the rows a transaction has inserted and those
\* it has not are always its request, so a commit stores all of it, and no later
\* step changes a stored journal. Two stores on one file are no exception.
THEOREM AcknowledgedIsStoredHolds == Spec => []AcknowledgedIsStored
  BY ReceiptsAreTrue, StoreInvHolds, PTL

\* The file is sound and audited after every commit, in whatever order the
\* threads of any number of stores interleave their statements, fail or crash:
\* its keys are unique, its journals balance, its entries have a header and an
\* account, and each row was signed at one place of the audit log. Unlike the
\* refinement below this needs no assumption on reversals.
THEOREM FileIsSoundHolds == Spec => [](Sound(db) /\ Audited(db))
<1>1. StoreInv => Sound(db) /\ Audited(db)
  BY DEF StoreInv
<1> QED
  BY <1>1, StoreInvHolds, PTL

-----------------------------------------------------------------------------
(* The operators of the abstract ledger are those of this module.          *)

LEMMA SameRowOperators ==
  /\ \A d, table : Abstract!RowsOf(d, table) = RowsOf(d, table)
  /\ \A d, table, key : Abstract!HasRow(d, table, key) = HasRow(d, table, key)
  /\ \A d, ref : Abstract!HasTransaction(d, ref) = HasTransaction(d, ref)
  /\ \A d, ref : Abstract!IsReversed(d, ref) = IsReversed(d, ref)
  /\ \A d, ref : Abstract!LinesOf(d, ref) = LinesOf(d, ref)
  /\ \A d, ref : Abstract!HeaderOf(d, ref) = HeaderOf(d, ref)
  BY DEF Abstract!RowsOf, RowsOf, Abstract!HasRow, HasRow, Abstract!HasTransaction,
         HasTransaction, Abstract!IsReversed, IsReversed, Abstract!LinesOf, LinesOf,
         Abstract!HeaderOf, HeaderOf

LEMMA SameReversal ==
  \A d, original, reversal :
    Abstract!ReversalOf(d, original, reversal) = ReversalOf(d, original, reversal)
<1>1. \A lines : Abstract!Inverted(lines) = Inverted(lines)
  BY DEF Abstract!Inverted, Inverted, Abstract!Opposite, Opposite
<1> QED
  BY <1>1, SameRowOperators DEF Abstract!ReversalOf, ReversalOf

LEMMA SameTransactionRows ==
  \A tx : Abstract!TransactionRows(tx) = TransactionRows(tx)
  BY DEF Abstract!TransactionRows, TransactionRows, Abstract!HeaderRow, HeaderRow,
         Abstract!EntryRow, EntryRow

LEMMA SameMasterRows ==
  \A accounts, periods : Abstract!MasterRows(accounts, periods) = MasterRows(accounts, periods)
  BY DEF Abstract!MasterRows, MasterRows, Abstract!BookRow, BookRow, Abstract!AccountRow,
         AccountRow, Abstract!PeriodRow, PeriodRow

LEMMA SameFlatten == \A ss : Abstract!FlattenSeq(ss) = FlattenSeq(ss)
  BY DEF Abstract!FlattenSeq, FlattenSeq

LEMMA SameValidity ==
  /\ \A tx : Abstract!ValidJournal(tx) = ValidJournal(tx)
  /\ \A accounts, periods, js :
       Abstract!ValidBook(accounts, periods, js) = ValidBook(accounts, periods, js)
<1>1. \A lines : Abstract!Balanced(lines) = Balanced(lines)
  BY DEF Abstract!Balanced, Balanced, Abstract!SideTotal, SideTotal, Abstract!Value, Value,
         Abstract!SumFunctionOnSet, SumFunctionOnSet, Abstract!FoldFunctionOnSet, FoldFunctionOnSet, Abstract!MapThenFoldSet, MapThenFoldSet
<1>2. \A tx : Abstract!ValidJournal(tx) = ValidJournal(tx)
  BY <1>1 DEF Abstract!ValidJournal, ValidJournal
<1> QED
  BY <1>2 DEF Abstract!ValidBook, ValidBook, Abstract!IsInjective, IsInjective, Abstract!Range, Range

LEMMA AbstractCommit ==
  ASSUME NEW all, NEW actor, db' = WithRows(db, all, actor)
  PROVE  Abstract!Commit(all, actor)
  BY DEF Abstract!Commit, WithRows, Abstract!Range, Range, Abstract!CoreTables, CoreTables,
         Abstract!Signed, Signed

LEMMA AbstractRows ==
  ASSUME NEW d, NEW r \in Request, JournalsOf(d, r) \in Seq(Journal)
  PROVE  Abstract!AllRows(d, r) = RequestRows(d, r)
<1>1. CASE r.op = "create_book"
  <2>1. RequestRows(d, r) = MasterRows(r.accounts, r.periods) \o RowsOfJournals(r.transactions)
    BY <1>1, RowsByOperation
  <2>2. Abstract!AllRows(d, r) = Abstract!MasterRows(r.accounts, r.periods)
          \o Abstract!FlattenSeq([i \in DOMAIN r.transactions |-> Abstract!TransactionRows(r.transactions[i])])
    BY <1>1 DEF Abstract!AllRows
  <2> QED
    BY <2>1, <2>2, SameMasterRows, SameFlatten, SameTransactionRows DEF RowsOfJournals
<1>2. CASE r.op = "append_transaction"
  BY <1>2, RowsByOperation, SameTransactionRows DEF Abstract!AllRows
<1>3. CASE r.op = "append_reversal"
  BY <1>3, RowsByOperation, SameTransactionRows, SameReversal DEF Abstract!AllRows
<1>4. CASE r.op = "append_legislative_result"
  BY <1>4, RowsByOperation DEF Abstract!AllRows, Abstract!LegislativeRow, LegislativeRow
<1> QED
  BY <1>1, <1>2, <1>3, <1>4, OpCases

-----------------------------------------------------------------------------
(* Refinement: the two facts that only the abstract guards need.           *)

\* The check that the original is not reversed is still true at the commit:
\* either no other store writes the file, or nobody reverses.
NoLateReversals == OneStore \/ \A r \in Requests : r.op # "append_reversal"

ReversalOpen(t) ==
  pc[t] \in {"duplicate", "entries", "begin", "insert"} /\ req[t].op = "append_reversal"
    => ~IsReversed(db, req[t].original)

ReversalsOpen == \A t \in Threads : ReversalOpen(t)

LegislativeRows(d) == {i \in DOMAIN d.audit : d.audit[i].table = "legislative_validation"}
Busy == {t \in Threads : pc[t] # "idle"}
Waiting == {t \in Busy : pc[t] # "receipt" /\ req[t].op = "append_legislative_result"}

\* The legislative results on their way leave room for themselves in the bound.
RoomLeft ==
  /\ IsFiniteSet(Busy)
  /\ IsFiniteSet(LegislativeRows(db))
  /\ Cardinality(LegislativeRows(db)) + Cardinality(Waiting) <= MaxLegislative

LEMMA ReversalOpenStep ==
  ASSUME TypeInv, AuditInv, ReversalsOpen, NEW t \in Threads, ThreadStep(t)
  PROVE  ReversalOpen(t)'
<1> USE DEF Goto
<1>0. /\ ReversalOpen(t) /\ AuditInvOf(t)
      /\ pc \in [Threads -> Steps]
      /\ req \in [Threads -> Requests \cup {None}]
  BY DEF AuditInv, ReversalsOpen, TypeInv, TypeOK
<1>1. ASSUME NEW error, Raise(t, error)
      PROVE  ReversalOpen(t)'
  BY <1>0, <1>1 DEF Raise, ReversalOpen
<1>2. ASSUME NEW r \in Requests, Call(t, r)
      PROVE  ReversalOpen(t)'
  BY <1>0, <1>2 DEF Call, ReversalOpen
<1>3. CASE Acquire(t)
  <2>1. req[t] \in Request
    BY <1>3, StoreAssumption DEF Acquire, TypeInv, InCall
  <2>2. pc'[t] = FirstStatement(req[t].op) /\ UNCHANGED <<req, db>>
    BY <1>0, <1>3 DEF Acquire
  <2> QED
    BY <2>1, <2>2, FirstStatementOf DEF ReversalOpen
<1>4. CASE Read(t)
  <2>1. CASE SelectAccounts(t)
    BY <1>0, <1>1, <2>1 DEF SelectAccounts, Check, AuditInvOf, ReversalOpen
  <2>2. CASE SelectOriginal(t)
    BY <1>0, <1>1, <2>2 DEF SelectOriginal, Check, ReversalOpen
  <2>3. CASE SelectReversal(t)
    BY <1>0, <1>1, <2>3 DEF SelectReversal, Check, ReversalOpen
  <2>4. CASE SelectDuplicate(t)
    BY <1>0, <1>1, <2>4 DEF SelectDuplicate, Check, ReversalOpen
  <2>5. CASE SelectEntries(t)
    <3>1. pc[t] = "entries"
          /\ ((\E error : Raise(t, error)) \/ (pc'[t] = "begin" /\ UNCHANGED <<db, req>>))
      BY <1>0, <2>5 DEF SelectEntries
    <3> QED
      BY <1>0, <1>1, <3>1 DEF ReversalOpen
  <2> QED
    BY <1>4, <2>1, <2>2, <2>3, <2>4, <2>5 DEF Read
<1>5. CASE Begin(t)
  BY <1>0, <1>5 DEF Begin, ReversalOpen
<1>6. CASE InsertRow(t) \/ NextJournal(t)
  BY <1>0, <1>6 DEF InsertRow, NextJournal, ReversalOpen
<1>7. CASE Commit(t) \/ Return(t)
  BY <1>0, <1>7 DEF Commit, Return, ReversalOpen
<1> QED
  BY <1>1, <1>2, <1>3, <1>4, <1>5, <1>6, <1>7
     DEF ThreadStep, Write, BeginBusy, InsertRejected, WriteFails, ReceiptFails

LEMMA ReversalOpenInvariance ==
  ASSUME NoLateReversals
  PROVE  TypeInv /\ OneWriter /\ AuditInv /\ ReversalsOpen /\ [Next]_vars => ReversalsOpen'
<1> SUFFICES ASSUME TypeInv, OneWriter, AuditInv, ReversalsOpen, [Next]_vars
             PROVE  ReversalsOpen'
  OBVIOUS
<1>1. ASSUME NEW t \in Threads, ThreadStep(t)
      PROVE  ReversalsOpen'
  <2>1. ASSUME NEW u \in Threads, u # t
        PROVE  ReversalOpen(u)'
    <3>1. pc'[u] = pc[u] /\ req'[u] = req[u]
      BY <1>1, <2>1, Locality
    <3>2. ASSUME OneStore, pc[u] \notin {"idle", "lock"}
          PROVE  db' = db
      <4>1. StoreOf[t] = StoreOf[u]
        BY <3>2, StoreAssumption DEF OneStore
      <4> QED
        BY <1>1, <2>1, <3>2, <4>1, Protected
    <3>3. ASSUME ~OneStore, pc[u] # "idle"
          PROVE  req[u].op # "append_reversal"
      BY <3>3 DEF NoLateReversals, TypeInv, InCall
    <3> QED
      BY <3>1, <3>2, <3>3 DEF ReversalsOpen, ReversalOpen
  <2> QED
    BY <1>1, <2>1, ReversalOpenStep DEF ReversalsOpen
<1>2. CASE Crash
  BY <1>2 DEF Crash, ReversalsOpen, ReversalOpen
<1>3. CASE UNCHANGED vars
  BY <1>3 DEF vars, ReversalsOpen, ReversalOpen
<1> QED
  BY <1>1, <1>2, <1>3 DEF Next

\* A commit adds as many legislative rows as its request asks for.
LEMMA LegislativeRowsAdded ==
  ASSUME NEW d \in Database, NEW r \in Request, JournalsOf(d, r) \in Seq(Journal),
         NEW e, e = WithRows(d, RequestRows(d, r), r.actor)
  PROVE  IF r.op = "append_legislative_result"
         THEN \E i : i \notin LegislativeRows(d) /\ LegislativeRows(e) = LegislativeRows(d) \cup {i}
         ELSE LegislativeRows(e) = LegislativeRows(d)
<1> DEFINE all == RequestRows(d, r)
           a == Len(d.audit)
           n == Len(all)
<1>1. all \in Seq(Row) /\ r.actor \in Actors
  BY RequestRowsType, RequestFields
<1>2. /\ a \in Nat /\ n \in Nat /\ DOMAIN d.audit = 1..a /\ DOMAIN e.audit = 1..(a + n)
      /\ \A i \in 1..a : e.audit[i] = d.audit[i]
      /\ \A i \in 1..n : e.audit[a + i].table = all[i].table
  <2> HIDE DEF all
  <2>1. /\ a \in Nat /\ n \in Nat /\ DOMAIN d.audit = 1..a /\ DOMAIN e.audit = 1..(a + n)
        /\ \A i \in 1..a : e.audit[i] = d.audit[i]
        /\ \A i \in 1..n : e.audit[a + i] = Signed(all[i], r.actor)
    BY <1>1, WithRowsAudit DEF all
  <2>2. \A row : Signed(row, r.actor).table = row.table
    BY DEF Signed
  <2> HIDE DEF a, n
  <2> QED
    BY <2>1, <2>2
<1> HIDE DEF a, n, all
<1>3. CASE r.op = "append_legislative_result"
  <2>1. n = 1 /\ all[1].table = "legislative_validation"
    <3>1. all = <<LegislativeRow(r.ref)>>
      BY <1>3, RowsByOperation DEF all
    <3> QED
      BY <3>1 DEF n, LegislativeRow
  <2>2. e.audit[a + 1].table = "legislative_validation"
    BY <1>2, <2>1
  <2>3. DOMAIN e.audit = 1..a \cup {a + 1} /\ a + 1 \notin 1..a
    BY <1>2, <2>1
  <2>4. LegislativeRows(e) = LegislativeRows(d) \cup {a + 1} /\ a + 1 \notin LegislativeRows(d)
    BY <1>2, <2>2, <2>3 DEF LegislativeRows
  <2> QED
    BY <1>3, <2>4
<1>4. CASE r.op # "append_legislative_result"
  <2>1. \A i \in 1..n : all[i].table # "legislative_validation"
    <3>1. \A tx \in Journal : \A row \in Range(TransactionRows(tx)) :
            row.table # "legislative_validation"
      BY TransactionRowsContents DEF HeaderRow, EntryRow
    <3>2. \A row \in Range(all) : row.table # "legislative_validation"
      <4>1. CASE r.op = "create_book"
        <5>1. /\ r.accounts \in Seq(Accounts) /\ r.periods \in Seq(Periods)
              /\ r.transactions \in Seq(Journal)
          BY <4>1, RequestFields
        <5>2. all = MasterRows(r.accounts, r.periods) \o RowsOfJournals(r.transactions)
          BY <4>1, RowsByOperation DEF all
        <5>3. /\ MasterRows(r.accounts, r.periods) \in Seq(Row)
              /\ RowsOfJournals(r.transactions) \in Seq(Row)
          BY <5>1, MasterRowsType, RowsOfJournalsType
        <5>4. Range(all) = Range(MasterRows(r.accounts, r.periods))
                             \cup JournalRows(Range(r.transactions))
          BY <5>1, <5>2, <5>3, RangeConcatenation, RangeOfJournals
        <5>5. \A row \in Range(MasterRows(r.accounts, r.periods)) :
                row.table # "legislative_validation"
          BY <5>1, MasterRowsContents DEF BookRow, AccountRow, PeriodRow
        <5>6. Range(r.transactions) \subseteq Journal
          BY <5>1, RangeOfSeq
        <5> QED
          BY <3>1, <5>4, <5>5, <5>6 DEF JournalRows
      <4>2. CASE r.op = "append_transaction"
        <5>1. all = TransactionRows(r.tx) /\ r.tx \in Journal
          BY <4>2, RowsByOperation, RequestFields DEF all
        <5> QED
          BY <3>1, <5>1
      <4>3. CASE r.op = "append_reversal"
        <5>1. \E tx \in Journal : all = TransactionRows(tx)
          BY <4>3, RowsByOperation DEF all
        <5> QED
          BY <3>1, <5>1
      <4> QED
        BY <1>4, <4>1, <4>2, <4>3, OpCases
    <3>3. \A i \in 1..n : all[i] \in Range(all)
      BY <1>1 DEF n, Range
    <3> QED
      BY <3>2, <3>3
  <2>2. \A i \in 1..(a + n) : i \in 1..a \/ (i - a \in 1..n /\ a + (i - a) = i)
    BY <1>2
  <2>3. \A i \in 1..(a + n) : e.audit[i].table = "legislative_validation" => i \in 1..a
    <3> SUFFICES ASSUME NEW i \in 1..(a + n), e.audit[i].table = "legislative_validation",
                        i \notin 1..a
                 PROVE  FALSE
      OBVIOUS
    <3> DEFINE k == i - a
    <3>1. k \in 1..n /\ a + k = i
      BY <2>2
    <3> HIDE DEF k
    <3>2. e.audit[a + k].table = all[k].table
      BY <1>2, <3>1
    <3> QED
      BY <2>1, <3>1, <3>2
  <2>4. \A i \in 1..a : i \in 1..(a + n)
    BY <1>2
  <2> QED
    BY <1>2, <1>4, <2>3, <2>4 DEF LegislativeRows
<1> QED
  BY <1>3, <1>4

LEMMA RoomAtFirst == Init => RoomLeft
<1> SUFFICES ASSUME Init
             PROVE  RoomLeft
  OBVIOUS
<1>1. Busy = {}
  BY DEF Init, Busy
<1>2. Waiting = {}
  BY <1>1 DEF Waiting
<1>3. LegislativeRows(db) = {}
  BY DEF Init, EmptyDatabase, LegislativeRows
<1> QED
  BY <1>1, <1>2, <1>3, FS_EmptySet, StoreAssumption DEF RoomLeft

\* Nobody but Call starts a call, or changes its request.
LEMMA CallGoesOn ==
  ASSUME TypeInv, NEW t \in Threads, ThreadStep(t), ~\E r \in Requests : Call(t, r)
  PROVE  pc[t] # "idle" /\ req'[t] = req[t] /\ (pc[t] = "receipt" => pc'[t] = "idle")
<1> USE DEF TypeInv, TypeOK, Goto, Raise, Check
<1>1. CASE Acquire(t)
  BY <1>1 DEF Acquire
<1>2. CASE Read(t)
  BY <1>2 DEF Read, SelectAccounts, SelectOriginal, SelectReversal, SelectDuplicate,
              SelectEntries
<1>3. CASE Write(t)
  BY <1>3 DEF Write, Begin, BeginBusy, InsertRow, InsertRejected, NextJournal, Commit,
              WriteFails
<1>4. CASE Return(t) \/ ReceiptFails(t)
  BY <1>4 DEF Return, ReceiptFails
<1> QED
  BY <1>1, <1>2, <1>3, <1>4 DEF ThreadStep

\* Counting, without the state: fewer waiting calls, or one row instead of one
\* of them, or one more call that found room.
LEMMA FewerWait ==
  ASSUME NEW R, NEW W, NEW V, IsFiniteSet(R), IsFiniteSet(W), V \subseteq W, NEW max \in Nat,
         Cardinality(R) + Cardinality(W) <= max
  PROVE  Cardinality(R) + Cardinality(V) <= max
<1>1. IsFiniteSet(V) /\ Cardinality(V) <= Cardinality(W)
  BY FS_Subset
<1>2. Cardinality(R) \in Nat /\ Cardinality(W) \in Nat /\ Cardinality(V) \in Nat
  BY <1>1, FS_CardinalityType
<1> QED
  BY <1>1, <1>2

LEMMA RowForCall ==
  ASSUME NEW R, NEW W, NEW V, IsFiniteSet(R), IsFiniteSet(W), NEW i, NEW t \in W,
         V \subseteq W \ {t}, NEW max \in Nat, Cardinality(R) + Cardinality(W) <= max
  PROVE  /\ IsFiniteSet(R \cup {i}) /\ Cardinality(R) < max
         /\ Cardinality(R \cup {i}) + Cardinality(V) <= max
<1>1. /\ IsFiniteSet(R \cup {i})
      /\ Cardinality(R \cup {i}) = IF i \in R THEN Cardinality(R) ELSE Cardinality(R) + 1
  BY FS_AddElement
<1>2. IsFiniteSet(W \ {t}) /\ Cardinality(W \ {t}) = Cardinality(W) - 1
  BY FS_RemoveElement
<1>3. IsFiniteSet(V) /\ Cardinality(V) <= Cardinality(W \ {t})
  BY <1>2, FS_Subset
<1>4. Cardinality(R) \in Nat /\ Cardinality(W) \in Nat /\ Cardinality(V) \in Nat
  BY <1>3, FS_CardinalityType
<1> DEFINE r == Cardinality(R)
           w == Cardinality(W)
           v == Cardinality(V)
           q == Cardinality(R \cup {i})
<1>5. r \in Nat /\ w \in Nat /\ v \in Nat /\ (q = r \/ q = r + 1) /\ v <= w - 1 /\ r + w <= max
  BY <1>1, <1>2, <1>3, <1>4
<1> HIDE DEF r, w, v, q
<1>6. r < max /\ q + v <= max
  BY <1>5
<1> QED
  BY <1>1, <1>6 DEF r, v, q

LEMMA RoomForOne ==
  ASSUME NEW R, NEW B, NEW V, IsFiniteSet(R), IsFiniteSet(B), NEW t,
         V \subseteq B \cup {t}, NEW max \in Nat, Cardinality(R) + Cardinality(B) < max
  PROVE  Cardinality(R) + Cardinality(V) <= max
<1>1. /\ IsFiniteSet(B \cup {t})
      /\ Cardinality(B \cup {t}) = IF t \in B THEN Cardinality(B) ELSE Cardinality(B) + 1
  BY FS_AddElement
<1>2. IsFiniteSet(V) /\ Cardinality(V) <= Cardinality(B \cup {t})
  BY <1>1, FS_Subset
<1>3. Cardinality(R) \in Nat /\ Cardinality(B) \in Nat /\ Cardinality(V) \in Nat
  BY <1>2, FS_CardinalityType
<1> DEFINE r == Cardinality(R)
           b == Cardinality(B)
           v == Cardinality(V)
           q == Cardinality(B \cup {t})
<1>4. r \in Nat /\ b \in Nat /\ v \in Nat /\ (q = b \/ q = b + 1) /\ v <= q /\ r + b < max
  BY <1>1, <1>2, <1>3
<1> HIDE DEF r, b, v, q
<1>5. r + v <= max
  BY <1>4
<1> QED
  BY <1>5 DEF r, v

\* A commit writes a legislative row for its own call, or none.
LEMMA CommitKeepsRoom ==
  ASSUME TypeInv, StoreInv, RoomLeft, NEW t \in Threads, Commit(t),
         Waiting' \subseteq Waiting \ {t}
  PROVE  /\ IsFiniteSet(LegislativeRows(db'))
         /\ Cardinality(LegislativeRows(db')) + Cardinality(Waiting') <= MaxLegislative
         /\ req[t].op = "append_legislative_result" =>
              Cardinality(LegislativeRows(db)) < MaxLegislative
<1>1. /\ pc[t] = "insert" /\ req[t] \in Request /\ db \in Database
  BY StoreAssumption DEF Commit, TypeInv, TypeOK, InCall
<1>2. /\ db' = WithRows(db, RequestRows(db, req[t]), req[t].actor)
      /\ JournalsOf(db, req[t]) \in Seq(Journal)
  BY CommitStores
<1>3. /\ IsFiniteSet(LegislativeRows(db)) /\ IsFiniteSet(Waiting) /\ MaxLegislative \in Nat
      /\ Cardinality(LegislativeRows(db)) + Cardinality(Waiting) <= MaxLegislative
  BY FS_Subset, StoreAssumption DEF RoomLeft, Waiting
<1>4. CASE req[t].op = "append_legislative_result"
  <2>1. \E i : i \notin LegislativeRows(db) /\ LegislativeRows(db') = LegislativeRows(db) \cup {i}
    BY <1>1, <1>2, <1>4, LegislativeRowsAdded
  <2>3. PICK i : LegislativeRows(db') = LegislativeRows(db) \cup {i}
    BY <2>1
  <2>2. t \in Waiting
    BY <1>1, <1>4 DEF Waiting, Busy
  <2> QED
    <3> DEFINE R == LegislativeRows(db)
    <3>1. Waiting' \subseteq Waiting \ {t}
      OBVIOUS
    <3> HIDE DEF R
    <3>2. /\ IsFiniteSet(R \cup {i}) /\ Cardinality(R) < MaxLegislative
          /\ Cardinality(R \cup {i}) + Cardinality(Waiting') <= MaxLegislative
      BY <1>3, <2>2, <3>1, RowForCall DEF R
    <3> QED
      BY <2>3, <3>2 DEF R
<1>5. CASE req[t].op # "append_legislative_result"
  <2>1. LegislativeRows(db') = LegislativeRows(db)
    BY <1>1, <1>2, <1>5, LegislativeRowsAdded
  <2> QED
    BY <1>3, <1>5, <2>1, FewerWait
<1> QED
  BY <1>4, <1>5

LEMMA CommitEndsWait ==
  ASSUME TypeInv, NEW t \in Threads, Commit(t)
  PROVE  Waiting' \subseteq Waiting \ {t}
<1>1. /\ pc'[t] = "receipt" /\ req' = req
      /\ \A u \in Threads : u # t => pc'[u] = pc[u]
  BY DEF Commit, Goto, TypeInv, TypeOK
<1> QED
  BY <1>1 DEF Waiting, Busy

LEMMA RoomInvariance == TypeInv /\ StoreInv /\ RoomLeft /\ [Next]_vars => RoomLeft'
<1> SUFFICES ASSUME TypeInv, StoreInv, RoomLeft, [Next]_vars
             PROVE  RoomLeft'
  OBVIOUS
<1>0. /\ IsFiniteSet(Busy) /\ IsFiniteSet(LegislativeRows(db)) /\ IsFiniteSet(Waiting)
      /\ MaxLegislative \in Nat
      /\ Cardinality(LegislativeRows(db)) + Cardinality(Waiting) <= MaxLegislative
  BY FS_Subset, StoreAssumption DEF RoomLeft, Waiting
<1>1. ASSUME NEW t \in Threads, ThreadStep(t)
      PROVE  RoomLeft'
  <2>1. \A u \in Threads : u # t => pc'[u] = pc[u] /\ req'[u] = req[u]
    BY <1>1, Locality
  <2>2. IsFiniteSet(Busy)'
    <3>1. Busy' \subseteq Busy \cup {t}
      BY <2>1 DEF Busy
    <3>2. IsFiniteSet(Busy \cup {t})
      BY <1>0, FS_AddElement
    <3> QED
      BY <3>1, <3>2, FS_Subset
  <2>3. ASSUME NEW r \in Requests, Call(t, r)
        PROVE  RoomLeft'
    <3>1. pc[t] = "idle" /\ db' = db /\ req'[t] = r
      BY <2>3 DEF Call, TypeInv, TypeOK
    <3>2. CASE r.op = "append_legislative_result"
      <4> DEFINE B == {u \in Threads : pc[u] # "idle" /\ req[u].op = "append_legislative_result"}
      <4>1. Cardinality(LegislativeRows(db)) + Cardinality(B) < MaxLegislative
        BY <2>3, <3>2 DEF Call, LegislativeLoad, LegislativeRows
      <4>2. B \subseteq Busy /\ Waiting' \subseteq B \cup {t}
        BY <2>1 DEF Busy, Waiting
      <4> HIDE DEF B
      <4>3. IsFiniteSet(B)
        BY <1>0, <4>2, FS_Subset
      <4>4. Cardinality(LegislativeRows(db)) + Cardinality(Waiting') <= MaxLegislative
        BY <1>0, <4>1, <4>2, <4>3, RoomForOne
      <4> QED
        BY <1>0, <2>2, <3>1, <4>4 DEF RoomLeft
    <3>3. CASE r.op # "append_legislative_result"
      <4>1. Waiting' \subseteq Waiting
        BY <2>1, <3>1, <3>3 DEF Waiting, Busy
      <4>2. Cardinality(LegislativeRows(db)) + Cardinality(Waiting') <= MaxLegislative
        BY <1>0, <4>1, FewerWait
      <4> QED
        BY <1>0, <2>2, <3>1, <4>2 DEF RoomLeft
    <3> QED
      BY <3>2, <3>3
  <2>4. CASE Commit(t)
    BY <2>2, <2>4, CommitEndsWait, CommitKeepsRoom DEF RoomLeft
  <2>5. CASE db' = db /\ ~\E r \in Requests : Call(t, r)
    <3>1. pc[t] # "idle" /\ req'[t] = req[t] /\ (pc[t] = "receipt" => pc'[t] = "idle")
      BY <1>1, <2>5, CallGoesOn
    <3>2. Waiting' \subseteq Waiting
      BY <2>1, <3>1 DEF Waiting, Busy
    <3>3. Cardinality(LegislativeRows(db)) + Cardinality(Waiting') <= MaxLegislative
      BY <1>0, <3>2, FewerWait
    <3> QED
      BY <1>0, <2>2, <2>5, <3>3 DEF RoomLeft
  <2>6. db' = db \/ Commit(t)
    BY <1>1 DEF ThreadStep, Call, Acquire, Read, SelectAccounts, SelectOriginal,
         SelectReversal, SelectDuplicate, SelectEntries, Check, Write, Begin, BeginBusy,
         InsertRow, InsertRejected, NextJournal, WriteFails, Return, ReceiptFails, Raise
  <2> QED
    BY <2>3, <2>4, <2>5, <2>6
<1>2. CASE Crash
  <2>1. Busy' = {} /\ Waiting' = {} /\ db' = db
    BY <1>2 DEF Crash, Busy, Waiting
  <2>2. Cardinality(LegislativeRows(db)) + Cardinality({}) <= MaxLegislative
    BY <1>0, FewerWait
  <2> QED
    BY <1>0, <2>1, <2>2, FS_EmptySet DEF RoomLeft
<1>3. CASE UNCHANGED vars
  BY <1>3 DEF vars, RoomLeft, Busy, Waiting
<1> QED
  BY <1>1, <1>2, <1>3 DEF Next

-----------------------------------------------------------------------------
(* Every commit is a step of the abstract ledger.                          *)

LEMMA AbstractAccounts ==
  ASSUME NEW d \in Database, NEW tx, KnownAccounts(d, tx)
  PROVE  Abstract!KnownAccounts(d, tx)
<1> DEFINE codes == {r.key[1] : r \in RowsOf(d, "accounts")}
<1>1. Abstract!AccountCodes(d) = codes
  BY SameRowOperators DEF Abstract!AccountCodes
<1>2. \A a : a \in codes <=> HasRow(d, "accounts", <<a, 1>>)
  BY AccountKeys
<1>3. codes # {}
  BY DEF KnownAccounts
<1> HIDE DEF codes
<1> QED
  BY <1>1, <1>2, <1>3 DEF Abstract!KnownAccounts, KnownAccounts

LEMMA SameCardinality == \A S : Abstract!Cardinality(S) = Cardinality(S)
  BY DEF Abstract!Cardinality, Cardinality

LEMMA AbstractPrintable == \A tx : NoMinus(tx) => Abstract!Printable(tx)
  BY DEF Abstract!Printable, NoMinus

LEMMA AbstractCreates ==
  ASSUME NEW d \in Database, Sound(d), NEW r \in Request, r.op = "create_book",
         Checked(d, "insert", r), JournalsOf(d, r) \in Seq(Journal),
         Placed(d, RequestRows(d, r))
  PROVE  Abstract!CanCreate(d, r)
<1>1. /\ ~HasRow(d, "books", <<>>)
      /\ \A i, j \in DOMAIN r.transactions : i # j => r.transactions[i].ref # r.transactions[j].ref
      /\ \A tx \in Range(JournalsOf(d, r)) : NoMinus(tx)
  BY RequestAccepted
<1>2. JournalsOf(d, r) = r.transactions
  BY RowsByOperation
<1>3. Abstract!ValidBook(r.accounts, r.periods, r.transactions)
  BY SameValidity DEF Checked, Constructible
<1>4. \A tx \in Abstract!Range(r.transactions) : Abstract!Printable(tx)
  BY <1>1, <1>2, AbstractPrintable DEF Range, Abstract!Range
<1> QED
  BY <1>1, <1>3, <1>4, SameRowOperators DEF Abstract!CanCreate

LEMMA AbstractAppends ==
  ASSUME NEW d \in Database, Sound(d), NEW r \in Request, r.op = "append_transaction",
         Checked(d, "insert", r), JournalsOf(d, r) \in Seq(Journal),
         Placed(d, RequestRows(d, r))
  PROVE  Abstract!CanAppend(d, r.tx)
<1>1. JournalsOf(d, r) = <<r.tx>>
  BY RowsByOperation
<1>2. \A tx : Range(<<tx>>) = {tx}
  BY DEF Range
<1>3. NoMinus(r.tx) /\ ~HasTransaction(d, r.tx.ref)
  BY <1>1, <1>2, RequestAccepted
<1>4. ValidJournal(r.tx) /\ r.tx.state = "posted" /\ KnownAccounts(d, r.tx)
  BY DEF Checked, Constructible
<1> QED
  BY <1>3, <1>4, AbstractAccounts, AbstractPrintable, SameValidity, SameRowOperators
     DEF Abstract!CanAppend

LEMMA AbstractReverses ==
  ASSUME NEW d \in Database, Sound(d), NEW r \in Request, r.op = "append_reversal",
         Checked(d, "insert", r), JournalsOf(d, r) \in Seq(Journal),
         Placed(d, RequestRows(d, r)), ~IsReversed(d, r.original)
  PROVE  Abstract!CanReverse(d, r.original, r.reversal)
<1> DEFINE tx == ReversalOf(d, r.original, r.reversal)
<1>1. JournalsOf(d, r) = <<tx>>
  BY RowsByOperation
<1>2. tx.ref = r.reversal
  BY DEF ReversalOf
<1> HIDE DEF tx
<1>3. tx \in Range(<<tx>>)
  BY DEF Range
<1>4. ~HasTransaction(d, r.reversal)
  BY <1>1, <1>2, <1>3, RequestAccepted
<1>5. HasTransaction(d, r.original)
  BY DEF Checked
<1> QED
  BY <1>4, <1>5, SameRowOperators DEF Abstract!CanReverse

LEMMA CommitIsAbstract ==
  ASSUME TypeInv, StoreInv, RoomLeft, ReversalsOpen, NEW t \in Threads, Commit(t)
  PROVE  Abstract!Next
<1> DEFINE r == req[t]
<1>1. pc[t] = "insert" /\ r \in Request /\ r \in Requests /\ db \in Database /\ Sound(db)
  BY StoreAssumption DEF Commit, TypeInv, TypeOK, InCall, StoreInv
<1>2. /\ db' = WithRows(db, RequestRows(db, r), r.actor)
      /\ JournalsOf(db, r) \in Seq(Journal)
      /\ Placed(db, RequestRows(db, r))
      /\ Checked(db, "insert", r)
  BY CommitStores
<1>3. r.op = "append_reversal" => ~IsReversed(db, r.original)
  BY <1>1 DEF ReversalsOpen, ReversalOpen
<1>4. r.op = "append_legislative_result" => Abstract!LegislativeCount(db) < MaxLegislative
  <2>1. Waiting' \subseteq Waiting \ {t}
    BY CommitEndsWait
  <2>2. r.op = "append_legislative_result" => Cardinality(LegislativeRows(db)) < MaxLegislative
    BY <2>1, CommitKeepsRoom
  <2>3. Abstract!LegislativeCount(db) = Cardinality(LegislativeRows(db))
    BY SameCardinality DEF Abstract!LegislativeCount, LegislativeRows
  <2> QED
    BY <2>2, <2>3
<1> HIDE DEF r
<1>5. Abstract!Commit(Abstract!AllRows(db, r), r.actor)
  BY <1>1, <1>2, AbstractRows, AbstractCommit
<1>6. CASE r.op = "create_book"
  BY <1>1, <1>2, <1>5, <1>6, AbstractCreates DEF Abstract!CreateBook, Abstract!Next
<1>7. CASE r.op = "append_transaction"
  BY <1>1, <1>2, <1>5, <1>7, AbstractAppends DEF Abstract!AppendTransaction, Abstract!Next
<1>8. CASE r.op = "append_reversal"
  BY <1>1, <1>2, <1>3, <1>5, <1>8, AbstractReverses DEF Abstract!AppendReversal, Abstract!Next
<1>9. CASE r.op = "append_legislative_result"
  BY <1>1, <1>4, <1>5, <1>9 DEF Abstract!AppendLegislativeResult, Abstract!Next
<1> QED
  BY <1>1, <1>6, <1>7, <1>8, <1>9, OpCases

LEMMA ReversalsOpenInit == Init => ReversalsOpen
  BY DEF Init, ReversalsOpen, ReversalOpen

\* The store keeps the promise of Ledger.tla: for any number of threads, stores
\* and requests each write is one indivisible step that the abstract ledger
\* accepts, or leaves no trace. What append_reversal checked can only go stale
\* when a second store writes the file: then nobody may reverse.
THEOREM ImplementsLedgerHolds ==
  ASSUME NoLateReversals
  PROVE  Spec => ImplementsLedger
<1>1. Init => Abstract!Init
  BY DEF Init, Abstract!Init, EmptyDatabase, Abstract!EmptyDatabase
<1>2. TypeInv /\ StoreInv /\ RoomLeft /\ ReversalsOpen /\ [Next]_vars => [Abstract!Next]_db
  BY CommitIsAbstract, OnlyCommitWrites
<1>3. Spec => [](TypeInv /\ OneWriter /\ AuditInv /\ StoreInv /\ RoomLeft /\ ReversalsOpen)
  BY StoreInvHolds, RoomAtFirst, RoomInvariance, ReversalsOpenInit, ReversalOpenInvariance,
     PTL DEF Spec
<1> QED
  BY <1>1, <1>2, <1>3, PTL DEF Spec, ImplementsLedger, Abstract!Spec
=============================================================================
