--------------------------- MODULE StoreReadsProofs ---------------------------
(***************************************************************************)
(* Proofs about StoreReads.tla, for any number of readers and connections: *)
(* the pool loses no connection, a book that load_book returns is the book *)
(* of one moment of the call, and the pages of the audit log are the log.  *)
(***************************************************************************)
EXTENDS StoreReads, LedgerProofs

-----------------------------------------------------------------------------
(* The pool.                                                               *)

\* PoolConserved, the types it needs, and that a call is one of a method.
PoolInv ==
  /\ pool \subseteq Handles
  /\ held \in [Readers -> SUBSET Handles]
  /\ op \in [Readers -> Ops \cup {"none"}]
  /\ DOMAIN pc = Readers
  /\ \A t \in Readers : pc[t] # "idle" => op[t] \in Ops
  /\ PoolConserved

LEMMA PoolInit == ReadsInit => PoolInv
  BY DEF ReadsInit, PoolInv, PoolConserved

\* A statement inside a call, or a call, with the connections where they were.
LEMMA PoolQuiet ==
  ASSUME PoolInv, NEW t \in Readers, NEW step, NEW method \in Ops,
         UNCHANGED <<pool, held>>,
         pc' = [pc EXCEPT ![t] = step],
         op' = [op EXCEPT ![t] = method],
         step \notin {"idle", "yielded"}
  PROVE  PoolInv'
<1>1. /\ pc'[t] = step /\ DOMAIN pc' = Readers
      /\ \A u \in Readers \ {t} : pc'[u] = pc[u] /\ op'[u] = op[u]
      /\ op' \in [Readers -> Ops \cup {"none"}]
  BY DEF PoolInv
<1>2. PoolConserved'
  BY <1>1 DEF PoolInv, PoolConserved
<1> QED
  BY <1>1, <1>2 DEF PoolInv

\* A statement after which the connections of a reader are back in the pool.
LEMMA PoolPutBack ==
  ASSUME PoolInv, NEW t \in Readers, NEW step,
         PutBack(t), pc' = [pc EXCEPT ![t] = step], UNCHANGED op,
         step # "idle" => pc[t] # "idle"
  PROVE  PoolInv'
<1>1. /\ pc'[t] = step /\ DOMAIN pc' = Readers
      /\ \A u \in Readers \ {t} : pc'[u] = pc[u]
  BY DEF PoolInv
<1>2. /\ pool' = pool \cup held[t]
      /\ held'[t] = {}
      /\ held' \in [Readers -> SUBSET Handles]
      /\ \A u \in Readers \ {t} : held'[u] = held[u]
  BY DEF PutBack, PoolInv
<1>3. pool' \cup UNION {held'[u] : u \in Readers} = Handles
  <2>1. ASSUME NEW h \in Handles PROVE h \in pool' \cup UNION {held'[u] : u \in Readers}
    <3>1. CASE h \in pool'
      BY <3>1
    <3>2. CASE h \notin pool'
      <4>1. PICK u \in Readers : h \in held[u]
        BY <1>2, <3>2 DEF PoolInv, PoolConserved
      <4>2. u # t
        BY <1>2, <3>2, <4>1
      <4> QED
        BY <1>2, <4>1, <4>2
    <3> QED
      BY <3>1, <3>2
  <2>2. pool' \subseteq Handles /\ \A u \in Readers : held'[u] \subseteq Handles
    BY <1>2 DEF PoolInv
  <2> QED
    BY <2>1, <2>2
<1>4. PoolConserved'
  BY <1>1, <1>2, <1>3 DEF PoolInv, PoolConserved
<1> QED
  BY <1>1, <1>2, <1>4 DEF PoolInv

LEMMA PoolBorrow ==
  ASSUME PoolInv, NEW t \in Readers, NEW h \in Handles, Borrow(t, h)
  PROVE  PoolInv'
<1> USE DEF Borrow
<1>1. /\ pool' = pool \ {h}
      /\ held'[t] = held[t] \cup {h}
      /\ held' \in [Readers -> SUBSET Handles]
      /\ \A u \in Readers \ {t} : held'[u] = held[u]
  BY DEF PoolInv
<1>2. /\ DOMAIN pc' = Readers
      /\ \A u \in Readers \ {t} : pc'[u] = pc[u]
      /\ pc'[t] \notin {"idle", "yielded"}
  <2>1. FirstStatement(op[t]) \notin {"idle", "yielded"}
    BY ReadsAssumption DEF FirstStatement, PoolInv
  <2> QED
    BY <2>1 DEF Goto, PoolInv
<1>3. pool' \cup UNION {held'[u] : u \in Readers} = Handles
  <2>1. ASSUME NEW k \in Handles PROVE k \in pool' \cup UNION {held'[u] : u \in Readers}
    <3>1. CASE k \in pool
      BY <1>1, <3>1
    <3>2. CASE k \notin pool
      <4>1. PICK u \in Readers : k \in held[u]
        BY <3>2 DEF PoolInv, PoolConserved
      <4>2. k \in held'[u]
        BY <1>1, <4>1
      <4> QED
        BY <4>2
    <3> QED
      BY <3>1, <3>2
  <2>2. pool' \subseteq Handles /\ \A u \in Readers : held'[u] \subseteq Handles
    BY <1>1 DEF PoolInv
  <2> QED
    BY <2>1, <2>2
<1>4. PoolConserved'
  BY <1>1, <1>2, <1>3 DEF PoolInv, PoolConserved
<1> QED
  BY <1>1, <1>2, <1>4 DEF PoolInv

LEMMA PoolProceed ==
  ASSUME PoolInv, NEW t \in Readers, Proceed(t)
  PROVE  PoolInv'
<1>1. ASSUME NEW result, NEW step, Got(t, result, step), pc[t] # "idle",
             step \notin {"idle", "yielded"}
      PROVE  PoolInv'
  <2>1. op' = [op EXCEPT ![t] = op[t]] /\ op[t] \in Ops
    BY <1>1 DEF Got, PoolInv
  <2> QED
    BY <1>1, <2>1, PoolQuiet DEF Got, Goto
<1>2. ASSUME NEW result, Finish(t, result) PROVE PoolInv'
  BY <1>2, PoolPutBack DEF Finish, Goto
<1>3. CASE \E h \in Handles : Borrow(t, h)
  BY <1>3, PoolBorrow
<1>4. CASE BorrowTimeout(t)
  BY <1>2, <1>4 DEF BorrowTimeout
<1>5. CASE Load(t)
  <2>1. CASE SelectBook(t) \/ BuildBook(t)
    BY <1>1, <1>2, <2>1 DEF SelectBook, BuildBook
  <2>2. CASE SelectAccounts(t) \/ SelectPeriods(t) \/ SelectTransactions(t) \/ EntriesRead(t)
    BY <1>1, <2>2 DEF SelectAccounts, SelectPeriods, SelectTransactions, EntriesRead
  <2>3. CASE \E ref \in Refs : SelectEntries(t, ref)
    BY <1>1, <2>3 DEF SelectEntries
  <2> QED
    BY <1>5, <2>1, <2>2, <2>3 DEF Load
<1>6. CASE SelectLog(t)
  BY <1>6, PoolPutBack DEF SelectLog, Goto
<1>7. CASE SelectPage(t)
  <2> DEFINE next == IF PageAfter(got[t].last) = <<>> THEN "idle" ELSE "yielded"
  <2>1. pc' = [pc EXCEPT ![t] = next] /\ PutBack(t) /\ UNCHANGED op /\ pc[t] # "idle"
    BY <1>7 DEF SelectPage, Goto
  <2> HIDE DEF next
  <2> QED
    BY <2>1, PoolPutBack
<1>8. CASE Debug(t)
  <2>1. CASE CountBooks(t) \/ CountTransactions(t) \/ CountEntries(t)
    <3>1. PICK step \in {"count books", "count transactions", "count entries"},
               next \in {"count transactions", "count entries", "count audit"} :
            \E name, n : Count(t, step, name, n, next)
      BY <2>1 DEF CountBooks, CountTransactions, CountEntries
    <3>2. PICK result : pc[t] = step /\ Got(t, result, next)
      BY <3>1, Zenon DEF Count
    <3> QED
      BY <1>1, <3>2
  <2>2. CASE CountAudit(t)
    BY <2>2, PoolPutBack DEF CountAudit, Goto
  <2> QED
    BY <1>8, <2>1, <2>2 DEF Debug
<1> QED
  BY <1>3, <1>4, <1>5, <1>6, <1>7, <1>8 DEF Proceed

LEMMA PoolChoose ==
  ASSUME PoolInv, NEW t \in Readers, Choose(t)
  PROVE  PoolInv'
<1>1. ASSUME NEW method \in Ops, NEW start \in Starts, CallRead(t, method, start)
      PROVE  PoolInv'
  <2>1. /\ UNCHANGED <<pool, held>> /\ pc' = [pc EXCEPT ![t] = "borrow"]
        /\ op' = [op EXCEPT ![t] = method]
    BY <1>1 DEF CallRead, Goto
  <2>2. method \in Ops /\ "borrow" \notin {"idle", "yielded"}
    BY <1>1
  <2> QED
    BY <2>1, <2>2, PoolQuiet, Zenon
<1>2. CASE NextPage(t)
  <2>1. op' = [op EXCEPT ![t] = op[t]] /\ op[t] \in Ops
    BY <1>2 DEF NextPage, Got, PoolInv
  <2>2. UNCHANGED <<pool, held>> /\ pc' = [pc EXCEPT ![t] = "borrow"]
    BY <1>2 DEF NextPage, Got, Goto
  <2> QED
    BY <2>1, <2>2, PoolQuiet
<1>3. CASE DropPages(t)
  BY <1>3, PoolPutBack DEF DropPages, Finish, Goto
<1> QED
  BY <1>1, <1>2, <1>3 DEF Choose

LEMMA PoolStep == PoolInv /\ [ReadsNext]_vars => PoolInv'
<1> SUFFICES ASSUME PoolInv, [ReadsNext]_vars PROVE PoolInv'
  OBVIOUS
<1>1. CASE UNCHANGED vars \/ Written
  BY <1>1 DEF PoolInv, PoolConserved, vars, reads, Written
<1> QED
  BY <1>1, PoolProceed, PoolChoose DEF ReadsNext

\* No connection is lost or lent twice, through timeouts with part of the pool
\* in hand, pages yielded in between and errors.
THEOREM PoolConservedHolds == ReadsSpec => []PoolConserved
<1>1. PoolInv => PoolConserved
  BY DEF PoolInv
<1> QED
  BY <1>1, PoolInit, PoolStep, PTL DEF ReadsSpec

-----------------------------------------------------------------------------
(* load_book.                                                              *)

RefsOf(d) == {h.key[1] : h \in RowsOf(d, "transactions")}

\* A later state of the ledger has the accounts and the periods of an earlier one
\* that has a book, and keeps its transactions.
Extends(d, e) ==
  /\ HasRow(d, "books", <<>>) /\ HasRow(e, "books", <<>>)
  /\ AccountCodes(d) = AccountCodes(e)
  /\ PeriodsOf(d) = PeriodsOf(e)
  /\ RowsOf(d, "transactions") \subseteq RowsOf(e, "transactions")
  /\ \A ref \in RefsOf(d) : LinesOf(d, ref) = LinesOf(e, ref)

LEMMA ExtendsTransitive ==
  ASSUME NEW c, NEW d, NEW e, Extends(c, d), Extends(d, e)
  PROVE  Extends(c, e)
<1>1. RefsOf(c) \subseteq RefsOf(d)
  BY DEF Extends, RefsOf
<1> QED
  BY <1>1 DEF Extends

LEMMA ExtendsReflexive ==
  ASSUME NEW d, HasRow(d, "books", <<>>)
  PROVE  Extends(d, d)
  BY DEF Extends

\* A header with entries is the header that HasTransaction finds.
LEMMA HeadersAreFound ==
  ASSUME WholeJournals, NEW ref \in RefsOf(ledger)
  PROVE  HasTransaction(ledger, ref)
<1>1. Balanced(LinesOf(ledger, ref))
  BY DEF RefsOf, WholeJournals
<1>2. PICK n : n \in DOMAIN LinesOf(ledger, ref)
  BY <1>1 DEF Balanced
<1>3. PICK e \in RowsOf(ledger, "entries") : e.key[1] = ref
  BY <1>2 DEF LinesOf
<1> QED
  BY <1>3 DEF WholeJournals

LEMMA NewRows ==
  ASSUME NEW tx, NEW row \in Range(TransactionRows(tx))
  PROVE  /\ row.table \in {"transactions", "entries"}
         /\ row.key[1] = tx.ref
<1>1. PICK n \in 1..(Len(tx.lines) + 1) :
        row = IF n = 1 THEN HeaderRow(tx) ELSE EntryRow(tx, n - 1)
  BY DEF Range, TransactionRows
<1>2. CASE n = 1
  BY <1>1, <1>2 DEF HeaderRow
<1>3. CASE n # 1
  BY <1>1, <1>3 DEF EntryRow
<1> QED
  BY <1>2, <1>3

\* One more transaction beside those that are stored.
LEMMA TransactionExtends ==
  ASSUME WholeJournals, HasRow(ledger, "books", <<>>),
         NEW tx, NEW actor, ~HasTransaction(ledger, tx.ref), Commit(TransactionRows(tx), actor)
  PROVE  Extends(ledger, ledger')
<1> DEFINE new == {row \in Range(TransactionRows(tx)) : row.table \in CoreTables}
<1>1. ledger'.rows = ledger.rows \cup new
  BY DEF Commit
<1>2. \A row \in new : row.table \in {"transactions", "entries"} /\ row.key[1] = tx.ref
  BY NewRows
<1> HIDE DEF new
<1>3. tx.ref \notin RefsOf(ledger)
  BY HeadersAreFound
<1>4. /\ RowsOf(ledger', "accounts") = RowsOf(ledger, "accounts")
      /\ RowsOf(ledger', "periods") = RowsOf(ledger, "periods")
      /\ RowsOf(ledger, "transactions") \subseteq RowsOf(ledger', "transactions")
      /\ HasRow(ledger', "books", <<>>)
  BY <1>1, <1>2 DEF RowsOf, HasRow
<1>5. ASSUME NEW ref \in RefsOf(ledger) PROVE LinesOf(ledger, ref) = LinesOf(ledger', ref)
  <2> DEFINE Stored(d) == {r \in RowsOf(d, "entries") : r.key[1] = ref}
             Numbered(rows) == [n \in {r.key[2] : r \in rows} |->
                                  (CHOOSE r \in rows : r.key[2] = n).data]
  <2>1. Stored(ledger) = Stored(ledger')
    BY <1>1, <1>2, <1>3, <1>5 DEF RowsOf
  <2>2. /\ LinesOf(ledger, ref) = Numbered(Stored(ledger))
        /\ LinesOf(ledger', ref) = Numbered(Stored(ledger'))
    BY Zenon DEF LinesOf
  <2> HIDE DEF Stored, Numbered
  <2> QED
    BY <2>1, <2>2
<1> QED
  BY <1>4, <1>5 DEF Extends, AccountCodes, PeriodsOf

LEMMA LedgerExtends ==
  ASSUME WholeJournals, HasRow(ledger, "books", <<>>), Next
  PROVE  Extends(ledger, ledger')
<1>1. PICK r \in Requests : CreateBook(r) \/ AppendTransaction(r) \/ AppendReversal(r)
                              \/ AppendLegislativeResult(r)
  BY DEF Next
<1>2. CASE CreateBook(r)
  BY <1>2 DEF CreateBook, CanCreate
<1>3. CASE AppendTransaction(r)
  <2>1. Commit(TransactionRows(r.tx), r.actor) /\ ~HasTransaction(ledger, r.tx.ref)
    BY <1>3 DEF AppendTransaction, AllRows, CanAppend
  <2> QED
    BY <2>1, TransactionExtends
<1>4. CASE AppendReversal(r)
  <2> DEFINE tx == ReversalOf(ledger, r.original, r.reversal)
  <2>1. Commit(TransactionRows(tx), r.actor) /\ ~HasTransaction(ledger, r.reversal)
    BY <1>4 DEF AppendReversal, AllRows, CanReverse
  <2>2. tx.ref = r.reversal
    BY DEF ReversalOf
  <2> HIDE DEF tx
  <2> QED
    BY <2>1, <2>2, TransactionExtends
\* The row of a legislative result enters the audit log only.
<1>5. CASE AppendLegislativeResult(r)
  <2>1. Commit(<<LegislativeRow(r.ref)>>, r.actor)
    BY <1>5 DEF AppendLegislativeResult, AllRows
  <2>2. \A row \in Range(<<LegislativeRow(r.ref)>>) : row.table = "legislative_validation"
    BY DEF Range, LegislativeRow
  <2>3. ledger'.rows = ledger.rows
    BY <2>1, <2>2 DEF Commit, CoreTables
  <2> QED
    BY <2>3 DEF Extends, RowsOf, HasRow, AccountCodes, PeriodsOf, LinesOf
<1> QED
  BY <1>1, <1>2, <1>3, <1>4, <1>5

\* What a load has read of the state d of the ledger, but for the transactions
\* whose entries it has still to read.
PartOf(book, d) ==
  /\ book.todo \subseteq RefsOf(d)
  /\ book = [accounts |-> AccountCodes(d), periods |-> PeriodsOf(d),
             headers |-> RowsOf(d, "transactions"), todo |-> book.todo,
             entries |-> {<<ref, LinesOf(d, ref)>> : ref \in RefsOf(d) \ book.todo}]

\* The accounts and the periods of a book are still those of the ledger when the
\* transactions are read; from then on the load is at the moment it read them.
Loading(t) ==
  /\ pc[t] \in {"idle", "borrow", "book", "accounts", "periods", "transactions", "entries",
                "build"}
  /\ pc[t] \in {"borrow", "book", "accounts"} => got[t] = Nothing
  /\ pc[t] \in {"accounts", "periods", "transactions"} => HasRow(ledger, "books", <<>>)
  /\ pc[t] = "periods" =>
       got[t] = [accounts |-> AccountCodes(ledger), periods |-> {}, headers |-> {}, todo |-> {},
                 entries |-> {}]
  /\ pc[t] = "transactions" =>
       got[t] = [accounts |-> AccountCodes(ledger), periods |-> PeriodsOf(ledger),
                 headers |-> {}, todo |-> {}, entries |-> {}]
  /\ pc[t] \in {"entries", "build"} =>
       \E d \in seen[t] : Extends(d, ledger) /\ PartOf(got[t], d)
  /\ pc[t] = "build" => got[t].todo = {}

ReaderInv(t) ==
  /\ pc[t] # "idle" => outcome[t] = "none" /\ ledger \in seen[t]
  /\ op[t] = "load_book" =>
       /\ Loading(t)
       /\ outcome[t] = "ok" => \E d \in seen[t] : got[t] = BookOf(d)
       /\ outcome[t] # "PersistenceIntegrityError"

ReaderDomains ==
  /\ DOMAIN pc = Readers /\ DOMAIN op = Readers /\ DOMAIN got = Readers
  /\ DOMAIN outcome = Readers /\ DOMAIN seen = Readers

ReadersInv == ReaderDomains /\ \A t \in Readers : ReaderInv(t)

LEMMA ReadersInit == ReadsInit => ReadersInv
  BY DEF ReadsInit, ReadersInv, ReaderDomains, ReaderInv

\* A complete book of an earlier state is loadable when the ledger keeps what it
\* promises now.
LEMMA CompleteIsLoadable ==
  ASSUME WholeJournals, StoredBookLoads,
         NEW d, NEW book, Extends(d, ledger), PartOf(book, d), book.todo = {}
  PROVE  Loadable(book) /\ book = BookOf(d)
<1>1. /\ book.accounts = AccountCodes(ledger)
      /\ book.periods = PeriodsOf(ledger)
      /\ book.headers = RowsOf(d, "transactions")
      /\ book.headers \subseteq RowsOf(ledger, "transactions")
      /\ book.entries = {<<ref, LinesOf(d, ref)>> : ref \in RefsOf(d)}
  BY DEF PartOf, Extends
<1>2. ASSUME NEW h \in book.headers
      PROVE  h.data.state = "posted" /\ h.data.period \in book.periods \cup {None}
  <2>1. /\ h.data.state = "posted"
        /\ h.data.period = None \/ HasRow(ledger, "periods", <<h.data.period, 1>>)
    BY <1>1, <1>2 DEF StoredBookLoads
  <2>2. HasRow(ledger, "periods", <<h.data.period, 1>>) => h.data.period \in PeriodsOf(ledger)
    BY DEF HasRow, PeriodsOf, RowsOf
  <2> QED
    BY <1>1, <2>1, <2>2
<1>3. ASSUME NEW ref \in RefsOf(d)
      PROVE  /\ Balanced(LinesOf(d, ref))
             /\ \A n \in DOMAIN LinesOf(d, ref) : LinesOf(d, ref)[n].account \in book.accounts
  <2>1. LinesOf(d, ref) = LinesOf(ledger, ref) /\ ref \in RefsOf(ledger)
    BY <1>3 DEF Extends, RefsOf
  <2>2. Balanced(LinesOf(ledger, ref))
    BY <2>1 DEF WholeJournals, RefsOf
  <2>3. ASSUME NEW n \in DOMAIN LinesOf(ledger, ref)
        PROVE  LinesOf(ledger, ref)[n].account \in AccountCodes(ledger)
    <3>1. PICK e \in RowsOf(ledger, "entries") : LinesOf(ledger, ref)[n] = e.data
      <4> DEFINE stored == {r \in RowsOf(ledger, "entries") : r.key[1] = ref}
      <4>1. \E r \in stored : r.key[2] = n
        BY <2>3 DEF LinesOf
      <4>2. LinesOf(ledger, ref)[n] = (CHOOSE r \in stored : r.key[2] = n).data
        BY <2>3 DEF LinesOf
      <4>3. (CHOOSE r \in stored : r.key[2] = n) \in stored
        BY <4>1
      <4> QED
        BY <4>2, <4>3
    <3>2. HasRow(ledger, "accounts", <<e.data.account, 1>>)
      BY DEF WholeJournals
    <3>3. e.data.account \in AccountCodes(ledger)
      BY <3>2 DEF HasRow, AccountCodes, RowsOf
    <3> QED
      BY <3>1, <3>3
  <2> QED
    BY <1>1, <2>1, <2>2, <2>3
<1>4. Loadable(book)
  <2>1. \A e \in book.entries : \E ref \in RefsOf(d) : e[1] = ref /\ e[2] = LinesOf(d, ref)
    BY <1>1
  <2>2. {e[1] : e \in book.entries} = {h.key[1] : h \in book.headers}
    <3>1. {h.key[1] : h \in book.headers} = RefsOf(d)
      BY <1>1 DEF RefsOf
    <3>2. {e[1] : e \in book.entries} \subseteq RefsOf(d)
      BY <2>1
    <3>3. ASSUME NEW ref \in RefsOf(d) PROVE ref \in {e[1] : e \in book.entries}
      <4>1. <<ref, LinesOf(d, ref)>> \in book.entries
        BY <1>1
      <4> QED
        BY <4>1
    <3> QED
      BY <3>1, <3>2, <3>3
  <2>3. \A e \in book.entries : /\ Balanced(e[2])
                                /\ \A n \in DOMAIN e[2] : e[2][n].account \in book.accounts
    BY <1>3, <2>1
  <2> QED
    BY <1>2, <2>2, <2>3 DEF Loadable
<1>5. book = BookOf(d)
  <2>1. {<<ref, LinesOf(d, ref)>> : ref \in RefsOf(d)}
          = {<<h.key[1], LinesOf(d, h.key[1])>> : h \in RowsOf(d, "transactions")}
    BY DEF RefsOf
  <2>2. book = [accounts |-> AccountCodes(d), periods |-> PeriodsOf(d),
                headers |-> RowsOf(d, "transactions"), todo |-> {},
                entries |-> {<<ref, LinesOf(d, ref)>> : ref \in RefsOf(d)}]
    BY DEF PartOf
  <2> QED
    BY <2>1, <2>2 DEF BookOf
<1> QED
  BY <1>4, <1>5

\* A reader that a step does not concern.
LEMMA ReaderUnconcerned ==
  ASSUME NEW u \in Readers, ReaderInv(u),
         UNCHANGED <<ledger, pc[u], op[u], got[u], outcome[u], seen[u]>>
  PROVE  ReaderInv(u)'
  BY DEF ReaderInv, Loading

\* The ledger grows under the readers.
LEMMA ReaderWritten ==
  ASSUME WholeJournals, ReadersInv, Written, NEW t \in Readers
  PROVE  ReaderInv(t)'
<1>1. /\ Next /\ ReaderInv(t) /\ UNCHANGED <<pc, op, got, outcome>>
      /\ seen'[t] = IF pc[t] = "idle" THEN seen[t] ELSE seen[t] \cup {ledger'}
  BY DEF Written, ReadersInv, reads
<1>2. HasRow(ledger, "books", <<>>) => Extends(ledger, ledger')
  BY <1>1, LedgerExtends
<1>3. Loading(t) => Loading(t)'
  <2>1. pc[t] \in {"accounts", "periods", "transactions"} /\ Loading(t) =>
          /\ HasRow(ledger', "books", <<>>)
          /\ AccountCodes(ledger') = AccountCodes(ledger)
          /\ PeriodsOf(ledger') = PeriodsOf(ledger)
    BY <1>2 DEF Loading, Extends
  <2>2. ASSUME NEW d \in seen[t], Extends(d, ledger) PROVE Extends(d, ledger')
    <3>1. HasRow(ledger, "books", <<>>)
      BY <2>2 DEF Extends
    <3> QED
      BY <1>2, <2>2, <3>1, ExtendsTransitive
  <2> QED
    BY <1>1, <2>1, <2>2 DEF Loading
<1> QED
  BY <1>1, <1>3 DEF ReaderInv

LEMMA ReaderLocal ==
  ASSUME ReaderDomains, NEW t \in Readers, Proceed(t) \/ Choose(t)
  PROVE  /\ UNCHANGED ledger
         /\ DOMAIN pc' = Readers /\ DOMAIN op' = Readers /\ DOMAIN got' = Readers
         /\ DOMAIN outcome' = Readers /\ DOMAIN seen' = Readers
         /\ \A u \in Readers \ {t} :
              UNCHANGED <<pc[u], op[u], got[u], outcome[u], seen[u]>>
<1> USE DEF ReaderDomains, Goto
<1>1. ASSUME NEW result, NEW step, Got(t, result, step)
      PROVE  /\ UNCHANGED <<ledger, op, outcome, seen>>
             /\ DOMAIN pc' = Readers /\ DOMAIN got' = Readers
             /\ \A u \in Readers \ {t} : UNCHANGED <<pc[u], got[u]>>
  BY <1>1 DEF Got
<1>2. ASSUME NEW result, Finish(t, result)
      PROVE  /\ UNCHANGED <<ledger, op, got, seen>>
             /\ DOMAIN pc' = Readers /\ DOMAIN outcome' = Readers
             /\ \A u \in Readers \ {t} : UNCHANGED <<pc[u], outcome[u]>>
  BY <1>2 DEF Finish
<1>3. CASE Load(t)
  BY <1>1, <1>2, <1>3 DEF Load, SelectBook, SelectAccounts, SelectPeriods, SelectTransactions,
                          SelectEntries, EntriesRead, BuildBook
<1>4. CASE \E h \in Handles : Borrow(t, h)
  BY <1>4 DEF Borrow
<1>5. CASE BorrowTimeout(t) \/ DropPages(t)
  BY <1>2, <1>5 DEF BorrowTimeout, DropPages
<1>6. CASE SelectLog(t) \/ SelectPage(t) \/ CountAudit(t)
  BY <1>6 DEF SelectLog, SelectPage, CountAudit
<1>7. CASE CountBooks(t) \/ CountTransactions(t) \/ CountEntries(t)
  <2>1. PICK step, name, n, next : Count(t, step, name, n, next)
    BY <1>7, Zenon DEF CountBooks, CountTransactions, CountEntries
  <2>2. PICK result : Got(t, result, next)
    BY <2>1, Zenon DEF Count
  <2> QED
    BY <1>1, <2>2
<1>8. CASE NextPage(t)
  BY <1>1, <1>8 DEF NextPage
<1>9. CASE \E method \in Ops : \E start \in Starts : CallRead(t, method, start)
  BY <1>9 DEF CallRead
<1> QED
  BY <1>3, <1>4, <1>5, <1>6, <1>7, <1>8, <1>9 DEF Proceed, Debug, Choose

\* The steps of a load.
LEMMA ReaderLoads ==
  ASSUME WholeJournals, StoredBookLoads, ReadersInv, NEW t \in Readers, Load(t),
         op[t] = "load_book"
  PROVE  ReaderInv(t)'
<1>1. /\ Loading(t) /\ UNCHANGED <<ledger, op[t], seen[t]>>
      /\ pc[t] # "idle" => outcome[t] = "none" /\ ledger \in seen[t]
  <2>1. ReaderInv(t) /\ DOMAIN op = Readers /\ DOMAIN seen = Readers
    BY DEF ReadersInv, ReaderDomains
  <2>2. UNCHANGED <<ledger, op, seen>>
    BY DEF Load, SelectBook, SelectAccounts, SelectPeriods, SelectTransactions, SelectEntries,
           EntriesRead, BuildBook, Got, Finish
  <2> QED
    BY <2>1, <2>2 DEF ReaderInv
<1>2. ASSUME NEW result, NEW step, Got(t, result, step), pc[t] # "idle", Loading(t)'
      PROVE  ReaderInv(t)'
  BY <1>1, <1>2 DEF Got, ReaderInv
<1>3. ASSUME NEW result, NEW step, Got(t, result, step)
      PROVE  got'[t] = result /\ pc'[t] = step
  BY <1>3 DEF Got, Goto, ReadersInv, ReaderDomains
<1>4. ASSUME NEW result, Finish(t, result)
      PROVE  got'[t] = got[t] /\ pc'[t] = "idle" /\ outcome'[t] = result
  BY <1>4 DEF Finish, Goto, ReadersInv, ReaderDomains
<1>5. CASE SelectBook(t)
  <2>1. CASE HasRow(ledger, "books", <<>>)
    <3>1. pc[t] = "book" /\ Got(t, got[t], "accounts")
      BY <1>5, <2>1 DEF SelectBook
    <3>2. Loading(t)'
      BY <1>1, <1>3, <2>1, <3>1 DEF Loading
    <3> QED
      BY <1>2, <3>1, <3>2
  <2>2. CASE ~HasRow(ledger, "books", <<>>)
    <3>1. Finish(t, "KeyError")
      BY <1>5, <2>2 DEF SelectBook
    <3> QED
      BY <1>1, <1>4, <3>1 DEF ReaderInv, Loading
  <2> QED
    BY <2>1, <2>2
<1>6. CASE SelectAccounts(t)
  <2>1. pc[t] = "accounts" /\ Got(t, [got[t] EXCEPT !.accounts = AccountCodes(ledger)], "periods")
    BY <1>6 DEF SelectAccounts
  <2>2. got'[t] = [accounts |-> AccountCodes(ledger), periods |-> {}, headers |-> {}, todo |-> {},
                   entries |-> {}]
    <3>1. got[t] = Nothing /\ got'[t] = [got[t] EXCEPT !.accounts = AccountCodes(ledger)]
      BY <1>1, <1>3, <2>1 DEF Loading
    <3> QED
      BY <3>1 DEF Nothing
  <2>3. Loading(t)'
    BY <1>1, <1>3, <2>1, <2>2 DEF Loading
  <2> QED
    BY <1>2, <2>1, <2>3
<1>7. CASE SelectPeriods(t)
  <2>1. pc[t] = "periods" /\ Got(t, [got[t] EXCEPT !.periods = PeriodsOf(ledger)], "transactions")
    BY <1>7 DEF SelectPeriods
  <2>2. got'[t] = [accounts |-> AccountCodes(ledger), periods |-> PeriodsOf(ledger),
                   headers |-> {}, todo |-> {}, entries |-> {}]
    <3>1. got[t] = [accounts |-> AccountCodes(ledger), periods |-> {}, headers |-> {},
                    todo |-> {}, entries |-> {}]
      BY <1>1, <2>1 DEF Loading
    <3>2. got'[t] = [got[t] EXCEPT !.periods = PeriodsOf(ledger)]
      BY <1>3, <2>1
    <3> QED
      BY <3>1, <3>2
  <2>3. Loading(t)'
    BY <1>1, <1>3, <2>1, <2>2 DEF Loading
  <2> QED
    BY <1>2, <2>1, <2>3
<1>8. CASE SelectTransactions(t)
  <2> DEFINE headers == RowsOf(ledger, "transactions")
  <2>1. /\ pc[t] = "transactions"
        /\ Got(t, [got[t] EXCEPT !.headers = headers, !.todo = {h.key[1] : h \in headers}],
               "entries")
    BY <1>8 DEF SelectTransactions
  <2>2. got'[t] = [accounts |-> AccountCodes(ledger), periods |-> PeriodsOf(ledger),
                   headers |-> headers, todo |-> RefsOf(ledger), entries |-> {}]
    <3>1. got[t] = [accounts |-> AccountCodes(ledger), periods |-> PeriodsOf(ledger),
                    headers |-> {}, todo |-> {}, entries |-> {}]
      BY <1>1, <2>1 DEF Loading
    <3> DEFINE first == [got[t] EXCEPT !.headers = headers]
    <3>2. got'[t] = [first EXCEPT !.todo = RefsOf(ledger)]
      BY <1>3, <2>1 DEF RefsOf
    <3> HIDE DEF headers
    <3>3. first = [accounts |-> AccountCodes(ledger), periods |-> PeriodsOf(ledger),
                   headers |-> headers, todo |-> {}, entries |-> {}]
      BY <3>1
    <3> HIDE DEF first
    <3> QED
      BY <3>2, <3>3
  <2>3. PartOf(got'[t], ledger)
    <3>1. {<<ref, LinesOf(ledger, ref)>> : ref \in RefsOf(ledger) \ RefsOf(ledger)} = {}
      OBVIOUS
    <3> QED
      BY <2>2, <3>1 DEF PartOf
  <2>4. Extends(ledger, ledger) /\ ledger \in seen[t]
    BY <1>1, <2>1, ExtendsReflexive DEF Loading
  <2>5. Loading(t)'
    BY <1>1, <1>3, <2>1, <2>3, <2>4 DEF Loading
  <2> QED
    BY <1>2, <2>1, <2>5
<1>9. ASSUME NEW ref \in Refs, SelectEntries(t, ref) PROVE ReaderInv(t)'
  <2> DEFINE more == got[t].entries \cup {<<ref, LinesOf(ledger, ref)>>}
             left == got[t].todo \ {ref}
  <2>1. /\ pc[t] = "entries" /\ ref \in got[t].todo
        /\ Got(t, [got[t] EXCEPT !.todo = left, !.entries = more], "entries")
    BY <1>9 DEF SelectEntries
  <2>2. PICK d \in seen[t] : Extends(d, ledger) /\ PartOf(got[t], d)
    BY <1>1, <2>1 DEF Loading
  <2>3. /\ got[t].entries = {<<r, LinesOf(d, r)>> : r \in RefsOf(d) \ got[t].todo}
        /\ got[t].todo \subseteq RefsOf(d)
    BY <2>2 DEF PartOf
  <2>4. got'[t] = [accounts |-> AccountCodes(d), periods |-> PeriodsOf(d),
                   headers |-> RowsOf(d, "transactions"), todo |-> left, entries |-> more]
    <3>1. got[t] = [accounts |-> AccountCodes(d), periods |-> PeriodsOf(d),
                    headers |-> RowsOf(d, "transactions"), todo |-> got[t].todo,
                    entries |-> got[t].entries]
      BY <2>2 DEF PartOf
    <3> DEFINE first == [got[t] EXCEPT !.todo = left]
    <3>2. got'[t] = [first EXCEPT !.entries = more]
      BY <1>3, <2>1
    <3> HIDE DEF left, more
    <3>3. first = [accounts |-> AccountCodes(d), periods |-> PeriodsOf(d),
                   headers |-> RowsOf(d, "transactions"), todo |-> left,
                   entries |-> got[t].entries]
      BY <3>1
    <3> HIDE DEF first
    <3> QED
      BY <3>2, <3>3
  <2>5. more = {<<r, LinesOf(d, r)>> : r \in RefsOf(d) \ left}
    <3>1. LinesOf(ledger, ref) = LinesOf(d, ref) /\ ref \in RefsOf(d)
      BY <2>1, <2>2, <2>3 DEF Extends
    <3>2. RefsOf(d) \ left = (RefsOf(d) \ got[t].todo) \cup {ref}
      BY <3>1
    <3> QED
      BY <2>3, <3>1, <3>2
  <2> HIDE DEF more, left
  <2>6. PartOf(got'[t], d)
    <3>1. left \subseteq RefsOf(d)
      BY <2>3 DEF left
    <3> QED
      BY <2>4, <2>5, <3>1 DEF PartOf
  <2>7. Loading(t)'
    BY <1>1, <1>3, <2>1, <2>2, <2>6 DEF Loading
  <2> QED
    BY <1>2, <2>1, <2>7
<1>10. CASE EntriesRead(t)
  <2>1. pc[t] = "entries" /\ got[t].todo = {} /\ Got(t, got[t], "build")
    BY <1>10 DEF EntriesRead
  <2>2. Loading(t)'
    BY <1>1, <1>3, <2>1 DEF Loading
  <2> QED
    BY <1>2, <2>1, <2>2
<1>11. CASE BuildBook(t)
  <2>1. PICK d \in seen[t] : Extends(d, ledger) /\ PartOf(got[t], d) /\ got[t].todo = {}
    BY <1>1, <1>11 DEF BuildBook, Loading
  <2>2. Loadable(got[t]) /\ got[t] = BookOf(d)
    BY <2>1, CompleteIsLoadable
  <2>3. Finish(t, "ok")
    BY <1>11, <2>2 DEF BuildBook
  <2> QED
    BY <1>1, <1>4, <2>2, <2>3 DEF ReaderInv, Loading
<1> QED
  BY <1>5, <1>6, <1>7, <1>8, <1>9, <1>10, <1>11 DEF Load

\* The other steps of a reader.
LEMMA ReaderElse ==
  ASSUME ReadersInv, NEW t \in Readers, Proceed(t) \/ Choose(t),
         ~(Load(t) /\ op[t] = "load_book")
  PROVE  ReaderInv(t)'
<1> USE DEF ReadersInv, ReaderDomains, Goto
<1>1. /\ ReaderInv(t) /\ UNCHANGED ledger
  BY ReaderLocal
<1>2. CASE \E h \in Handles : Borrow(t, h)
  <2>1. /\ pc[t] = "borrow" /\ UNCHANGED <<op, got, outcome, seen>>
        /\ pc'[t] \in {"borrow", FirstStatement(op[t])}
    BY <1>2 DEF Borrow
  <2>2. op[t] = "load_book" => FirstStatement(op[t]) = "book"
    BY DEF FirstStatement
  <2> QED
    BY <1>1, <2>1, <2>2 DEF ReaderInv, Loading
<1>3. CASE BorrowTimeout(t)
  BY <1>1, <1>3 DEF BorrowTimeout, Finish, ReaderInv, Loading
<1>4. CASE NextPage(t) \/ DropPages(t)
  BY <1>1, <1>4 DEF NextPage, DropPages, Finish, Got, ReaderInv, Loading
<1>5. CASE \E method \in Ops : \E start \in Starts : CallRead(t, method, start)
  <2> PICK method \in Ops, start \in Starts : CallRead(t, method, start)
    BY <1>5
  <2>1. /\ pc'[t] = "borrow" /\ op'[t] = method /\ outcome'[t] = "none" /\ seen'[t] = {ledger}
    BY DEF CallRead
  <2>2. method = "load_book" => got'[t] = Nothing
    BY DEF CallRead
  <2> QED
    BY <1>1, <2>1, <2>2 DEF ReaderInv, Loading
\* The other methods are at statements that are not those of a load.
<1>6. CASE Load(t) /\ op[t] # "load_book"
  <2>1. UNCHANGED <<op, seen>> /\ pc[t] # "idle"
    BY <1>6 DEF Load, SelectBook, SelectAccounts, SelectPeriods, SelectTransactions,
                SelectEntries, EntriesRead, BuildBook, Got, Finish
  <2>2. pc'[t] = "idle" \/ UNCHANGED outcome
    BY <1>6 DEF Load, SelectBook, SelectAccounts, SelectPeriods, SelectTransactions,
                SelectEntries, EntriesRead, BuildBook, Got, Finish
  <2> QED
    BY <1>1, <1>6, <2>1, <2>2 DEF ReaderInv
<1>7. CASE SelectLog(t) \/ SelectPage(t) \/ Debug(t)
  <2>1. pc[t] \in {"log", "page", "count books", "count transactions", "count entries",
                   "count audit"}
    BY <1>7 DEF SelectLog, SelectPage, Debug, CountBooks, CountTransactions, CountEntries,
                CountAudit, Count
  <2>2. op[t] # "load_book"
    BY <1>1, <2>1 DEF ReaderInv, Loading
  <2>3. UNCHANGED <<op, seen>> /\ (pc'[t] = "idle" \/ UNCHANGED outcome \/ outcome'[t] = outcome[t])
    BY <1>7 DEF SelectLog, SelectPage, Debug, CountBooks, CountTransactions, CountEntries,
                CountAudit, Count, Got
  <2> QED
    BY <1>1, <2>1, <2>2, <2>3 DEF ReaderInv
<1> QED
  BY <1>2, <1>3, <1>4, <1>5, <1>6, <1>7 DEF Proceed, Choose

LEMMA ReadersStep ==
  ReadersInv /\ WholeJournals /\ StoredBookLoads /\ [ReadsNext]_vars => ReadersInv'
<1> SUFFICES ASSUME ReadersInv, WholeJournals, StoredBookLoads, [ReadsNext]_vars
             PROVE  ReadersInv'
  OBVIOUS
<1>1. CASE UNCHANGED vars
  BY <1>1, ReaderUnconcerned DEF ReadersInv, ReaderDomains, vars, reads
<1>2. CASE Written
  BY <1>2, ReaderWritten DEF ReadersInv, ReaderDomains, Written, reads
<1>3. ASSUME NEW t \in Readers, Proceed(t) \/ Choose(t) PROVE ReadersInv'
  <2>1. ReaderInv(t)'
    BY <1>3, ReaderLoads, ReaderElse
  <2>2. ASSUME NEW u \in Readers \ {t} PROVE ReaderInv(u)'
    BY <1>3, ReaderLocal, ReaderUnconcerned DEF ReadersInv, ReaderDomains
  <2> QED
    BY <1>3, <2>1, <2>2, ReaderLocal DEF ReadersInv, ReaderDomains
<1> QED
  BY <1>1, <1>2, <1>3 DEF ReadsNext

\* The ledger under the readers is that of Ledger.tla: no reader writes.
LEMMA ReadsKeepLedger == ReadsNext => Written \/ UNCHANGED ledger
  BY DEF ReadsNext, Proceed, Choose, Borrow, BorrowTimeout, Load, SelectBook, SelectAccounts,
         SelectPeriods, SelectTransactions, SelectEntries, EntriesRead, BuildBook, SelectLog,
         SelectPage, Debug, Count, CountBooks, CountTransactions, CountEntries, CountAudit,
         CallRead, NextPage, DropPages, Got, Finish

LEMMA ReadsImplementLedger == ReadsSpec => Spec
<1>1. ReadsInit => Init
  BY DEF ReadsInit
<1>2. [ReadsNext]_vars => [Next]_ledger
  BY ReadsKeepLedger DEF Written, vars
<1> QED
  BY <1>1, <1>2, PTL DEF ReadsSpec, Spec

\* On a ledger whose books load, a load that overlaps writes is atomic.
LEMMA LoadIsAtomicIfLoadable ==
  ReadsSpec /\ []StoredBookLoads => []LoadIsAtomic
<1>1. ReadersInv => LoadIsAtomic
  BY DEF ReadersInv, ReaderDomains, ReaderInv, LoadIsAtomic
<1>2. ReadsSpec => []WholeJournals
  BY ReadsImplementLedger, WholeJournalsHolds, PTL
<1> QED
  BY <1>1, <1>2, ReadersInit, ReadersStep, PTL DEF ReadsSpec

\* load_book returns the book as it was at one moment of the call, although it
\* is put together from many SELECTs without a transaction around them, and a
\* load that overlaps writes never fails an integrity check, when callers
\* append only to periods of their book.
THEOREM LoadIsAtomicHolds ==
  ASSUME PeriodsAgree
  PROVE  ReadsSpec => []LoadIsAtomic
<1>1. Spec => []StoredBookLoads
  BY StoredBookLoadsHolds
<1> QED
  BY <1>1, ReadsImplementLedger, LoadIsAtomicIfLoadable, PTL

-----------------------------------------------------------------------------
(* The pages of the audit log.                                             *)

\* The records are the rows of the log that come after row number start.
RowsAfter(records, start, log) ==
  /\ records \in Seq(AuditRow)
  /\ \A i \in DOMAIN records : start + i \in DOMAIN log /\ records[i] = log[start + i]

LEMMA RowsAreSubSeq ==
  ASSUME NEW log \in Seq(AuditRow), NEW start \in Nat, NEW records,
         RowsAfter(records, start, log)
  PROVE  records = SubSeq(log, start + 1, start + Len(records))
<1>1. PICK n, page : n = Len(records) /\ page = SubSeq(log, start + 1, start + n)
  OBVIOUS
<1>2. /\ n \in Nat /\ DOMAIN records = 1..n /\ records \in Seq(AuditRow)
      /\ \A i \in 1..n : start + i \in DOMAIN log /\ records[i] = log[start + i]
  BY <1>1 DEF RowsAfter
<1>3. \A i \in (start + 1)..(start + n) : log[i] \in AuditRow
  <2>1. ASSUME NEW i \in (start + 1)..(start + n)
        PROVE  i \in DOMAIN log
    <3>1. i - start \in 1..n /\ start + (i - start) = i
      BY <1>2
    <3> QED
      BY <1>2, <3>1
  <2> QED
    BY <2>1
<1>4. /\ page \in Seq(AuditRow)
      /\ Len(page) = IF start + 1 <= start + n THEN (start + n) - (start + 1) + 1 ELSE 0
      /\ \A i \in 1..((start + n) - (start + 1) + 1) : page[i] = log[(start + 1) + i - 1]
  <2>1. start + 1 \in Int /\ start + n \in Int
    BY <1>2
  <2> QED
    BY <1>1, <1>3, <2>1, SubSeqProperties
<1>5. Len(page) = n /\ \A i \in 1..n : page[i] = log[start + i]
  <2>1. (start + n) - (start + 1) + 1 = n /\ \A i \in 1..n : (start + 1) + i - 1 = start + i
    BY <1>2
  <2>2. Len(page) = n
    BY <1>2, <1>4
  <2> QED
    BY <1>4, <2>1, <2>2
<1>6. records = page
  BY <1>1, <1>2, <1>4, <1>5, SeqEqual
<1> QED
  BY <1>1, <1>6

\* A page is what comes next; an empty page means that there is no more.
LEMMA PageIsNext ==
  ASSUME ledger.audit \in Seq(AuditRow), NEW start \in Nat, NEW records,
         RowsAfter(records, start, ledger.audit),
         NEW last, last = start + Len(records)
  PROVE  /\ PageAfter(last) \in Seq(AuditRow)
         /\ RowsAfter(records \o PageAfter(last), start, ledger.audit)
         /\ PageAfter(last) = <<>> => Len(ledger.audit) <= last
<1>1. PICK log, n : log = ledger.audit /\ n = Len(records)
  OBVIOUS
<1>2. PICK hi : hi = IF last + PageSize < Len(log) THEN last + PageSize ELSE Len(log)
  OBVIOUS
<1>3. PICK page : page = SubSeq(log, last + 1, hi)
  OBVIOUS
<1>4. page = PageAfter(last)
  BY <1>1, <1>2, <1>3 DEF PageAfter
<1>5. /\ log \in Seq(AuditRow) /\ Len(log) \in Nat /\ DOMAIN log = 1..Len(log)
      /\ records \in Seq(AuditRow) /\ n \in Nat /\ last = start + n /\ DOMAIN records = 1..n
      /\ \A i \in 1..n : start + i \in DOMAIN log /\ records[i] = log[start + i]
      /\ PageSize \in Nat \ {0}
  BY <1>1, ReadsAssumption DEF RowsAfter
<1>6. last \in Nat /\ hi \in Nat /\ hi <= Len(log) /\ (last < Len(log) => last < hi)
  <2>1. PICK len : len = Len(log)
    OBVIOUS
  <2>2. len \in Nat /\ last \in Nat /\ PageSize \in Nat /\ PageSize > 0
    BY <1>5, <2>1
  <2>3. hi = IF last + PageSize < len THEN last + PageSize ELSE len
    BY <1>2, <2>1
  <2>4. last \in Nat /\ hi \in Nat /\ hi <= len /\ (last < len => last < hi)
    BY <2>2, <2>3
  <2> QED
    BY <2>1, <2>4
<1>7. /\ page \in Seq(AuditRow)
      /\ Len(page) = IF last + 1 <= hi THEN hi - (last + 1) + 1 ELSE 0
      /\ \A i \in 1..(hi - (last + 1) + 1) : page[i] = log[(last + 1) + i - 1]
  <2>1. \A i \in (last + 1)..hi : log[i] \in AuditRow
    BY <1>5, <1>6
  <2>2. last + 1 \in Int /\ hi \in Int
    BY <1>6
  <2> QED
    BY <1>3, <2>1, <2>2, SubSeqProperties
<1>8. page = <<>> => Len(log) <= last
  BY <1>5, <1>6, <1>7
<1>9. \A i \in 1..Len(page) : last + i \in DOMAIN log /\ page[i] = log[last + i]
  <2>1. \A i \in 1..Len(page) : /\ i \in 1..(hi - (last + 1) + 1) /\ (last + 1) + i - 1 = last + i
                                /\ last + i \in 1..Len(log)
    BY <1>5, <1>6, <1>7
  <2> QED
    BY <1>5, <1>7, <2>1
<1>10. RowsAfter(records \o page, start, log)
  <2>1. PICK m : m = Len(page)
    OBVIOUS
  <2>2. /\ m \in Nat /\ records \o page \in Seq(AuditRow) /\ DOMAIN (records \o page) = 1..(n + m)
        /\ \A i \in 1..n : (records \o page)[i] = records[i]
        /\ \A i \in 1..m : (records \o page)[n + i] = page[i]
    <3>1. /\ m \in Nat /\ records \o page \in Seq(AuditRow) /\ Len(records \o page) = n + m
          /\ \A i \in 1..(n + m) : (records \o page)[i] =
                                    IF i <= n THEN records[i] ELSE page[i - n]
      <4>1. /\ records \o page \in Seq(AuditRow)
            /\ Len(records \o page) = Len(records) + Len(page)
            /\ \A i \in 1..(Len(records) + Len(page)) :
                 (records \o page)[i] = IF i <= Len(records) THEN records[i]
                                        ELSE page[i - Len(records)]
        <5>1. records \in Seq(AuditRow) /\ page \in Seq(AuditRow)
          BY <1>5, <1>7
        <5> QED
          BY <5>1, ConcatProperties
      <4>2. Len(records) = n /\ Len(page) = m /\ m \in Nat
        BY <1>1, <1>7, <2>1
      <4> QED
        BY <4>1, <4>2
    <3>2. /\ \A i \in 1..n : i \in 1..(n + m) /\ i <= n
          /\ \A i \in 1..m : n + i \in 1..(n + m) /\ ~(n + i <= n) /\ (n + i) - n = i
      BY <1>5, <3>1
    <3>3. DOMAIN (records \o page) = 1..(n + m)
      BY <3>1
    <3> QED
      BY <3>1, <3>2, <3>3
  <2>3. ASSUME NEW i \in 1..(n + m)
        PROVE  start + i \in DOMAIN log /\ (records \o page)[i] = log[start + i]
    <3>1. CASE i \in 1..n
      BY <1>5, <2>2, <3>1
    <3>2. CASE i \notin 1..n
      <4>1. PICK k \in 1..m : i = n + k
        <5>1. i - n \in 1..m /\ i = n + (i - n)
          BY <1>5, <2>2, <3>2
        <5> QED
          BY <5>1
      <4>2. start + i = last + k
        <5>1. n \in Nat /\ last = start + n /\ m \in Nat
          BY <1>5, <2>2
        <5> QED
          BY <4>1, <5>1
      <4> QED
        BY <1>9, <2>1, <2>2, <4>1, <4>2
    <3> QED
      BY <3>1, <3>2
  <2> QED
    BY <2>2, <2>3 DEF RowsAfter
<1> QED
  BY <1>1, <1>4, <1>7, <1>8, <1>10

\* The pages that a reader has got are the log from start_seq on, and the last
\* row it has seen is where the next page starts.
Paging(t) ==
  /\ pc[t] # "idle" => outcome[t] = "none" /\ ledger \in seen[t]
  /\ op[t] = "iter_audit_log_pages" =>
       /\ pc[t] \in {"idle", "borrow", "page", "yielded"}
       /\ got[t] \in [start: Nat, last: Nat, records: Seq(AuditRow)]
       /\ got[t].last = got[t].start + Len(got[t].records)
       /\ RowsAfter(got[t].records, got[t].start, ledger.audit)
       /\ outcome[t] = "ok" =>
            \E d \in seen[t] : /\ d.audit \in Seq(AuditRow)
                               /\ RowsAfter(got[t].records, got[t].start, d.audit)
                               /\ Len(d.audit) <= got[t].last

PagingInv == ReaderDomains /\ \A t \in Readers : Paging(t)

LEMMA PagingUnconcerned ==
  ASSUME NEW u \in Readers, Paging(u),
         UNCHANGED <<ledger, pc[u], op[u], got[u], outcome[u], seen[u]>>
  PROVE  Paging(u)'
  BY DEF Paging

LEMMA PagingWritten ==
  ASSUME LedgerInv, PagingInv, Written, NEW t \in Readers
  PROVE  Paging(t)'
<1>1. /\ Paging(t) /\ UNCHANGED <<pc, op, got, outcome>>
      /\ seen'[t] = IF pc[t] = "idle" THEN seen[t] ELSE seen[t] \cup {ledger'}
  BY DEF Written, PagingInv, reads
<1>2. LogGrows(ledger, ledger')
  <2>1. PICK r \in Requests : WritesRows(r) \/ AppendLegislativeResult(r)
    BY DEF Written, Next, WritesRows
  <2> QED
    BY <2>1, LedgerAssumption, LogOnlyGrows
<1>3. \A records, start : RowsAfter(records, start, ledger.audit)
                            => RowsAfter(records, start, ledger'.audit)
  BY <1>2 DEF RowsAfter, LogGrows
<1> QED
  BY <1>1, <1>3 DEF Paging

\* The next page is read.
LEMMA PagingNext ==
  ASSUME LedgerInv, PagingInv, NEW t \in Readers, SelectPage(t)
  PROVE  Paging(t)'
<1>1. /\ Paging(t) /\ pc[t] = "page" /\ UNCHANGED <<ledger, op, seen>>
      /\ ledger.audit \in Seq(AuditRow)
  BY DEF SelectPage, PagingInv, LedgerInv, Database
<1>2. PICK g, page : g = got[t] /\ page = PageAfter(g.last)
  OBVIOUS
<1>3. /\ page = <<>> => got'[t] = g /\ outcome'[t] = "ok" /\ pc'[t] = "idle"
      /\ page # <<>> => /\ got'[t] = [g EXCEPT !.records = @ \o page, !.last = LastSeq(@, page)]
                        /\ outcome'[t] = outcome[t] /\ pc'[t] = "yielded"
  BY <1>1, <1>2 DEF SelectPage, PagingInv, ReaderDomains, Goto
<1>4. CASE op[t] # "iter_audit_log_pages"
  BY <1>1, <1>3, <1>4 DEF Paging
<1>5. CASE op[t] = "iter_audit_log_pages"
  <2>1. /\ g \in [start: Nat, last: Nat, records: Seq(AuditRow)]
        /\ g.last = g.start + Len(g.records) /\ RowsAfter(g.records, g.start, ledger.audit)
        /\ outcome[t] = "none" /\ ledger \in seen[t]
    BY <1>1, <1>2, <1>5 DEF Paging
  <2>2. /\ page \in Seq(AuditRow) /\ RowsAfter(g.records \o page, g.start, ledger.audit)
        /\ page = <<>> => Len(ledger.audit) <= g.last
    BY <1>1, <1>2, <2>1, PageIsNext
  <2>3. CASE page = <<>>
    BY <1>1, <1>2, <1>3, <1>5, <2>1, <2>2, <2>3 DEF Paging
  <2>4. CASE page # <<>>
    <3>1. PICK f : f = got'[t]
      OBVIOUS
    <3>2. f.start = g.start /\ f.records = g.records \o page /\ f.last = g.last + Len(page)
      BY <1>3, <2>1, <2>4, <3>1 DEF LastSeq
    <3>3. /\ g.records \o page \in Seq(AuditRow)
          /\ Len(g.records \o page) = Len(g.records) + Len(page)
      <4>1. g.records \in Seq(AuditRow)
        BY <2>1
      <4> QED
        BY <2>2, <4>1, ConcatProperties
    <3>4. g.last + Len(page) \in Nat /\ g.last + Len(page) = g.start + Len(f.records)
      <4>1. Len(page) \in Nat /\ Len(g.records) \in Nat /\ g.start \in Nat
        BY <2>1, <2>2
      <4> QED
        BY <2>1, <3>2, <3>3, <4>1
    <3>5. f \in [start: Nat, last: Nat, records: Seq(AuditRow)]
      BY <1>3, <2>1, <2>4, <3>1, <3>2, <3>3, <3>4
    <3> QED
      BY <1>1, <1>3, <1>5, <2>1, <2>2, <2>4, <3>1, <3>2, <3>4, <3>5 DEF Paging
  <2> QED
    BY <2>3, <2>4
<1> QED
  BY <1>4, <1>5

\* The other steps of a reader.
LEMMA PagingElse ==
  ASSUME LedgerInv, PagingInv, NEW t \in Readers, Proceed(t) \/ Choose(t), ~SelectPage(t)
  PROVE  Paging(t)'
<1> USE DEF PagingInv, ReaderDomains, Goto
<1>1. Paging(t) /\ UNCHANGED ledger /\ ledger.audit \in Seq(AuditRow)
  BY ReaderLocal DEF LedgerInv, Database
<1>2. CASE \E h \in Handles : Borrow(t, h)
  <2>1. /\ pc[t] = "borrow" /\ UNCHANGED <<op, got, outcome, seen>>
        /\ pc'[t] \in {"borrow", FirstStatement(op[t])}
    BY <1>2 DEF Borrow
  <2>2. op[t] = "iter_audit_log_pages" => FirstStatement(op[t]) = "page"
    BY DEF FirstStatement
  <2> QED
    BY <1>1, <2>1, <2>2 DEF Paging
<1>3. CASE BorrowTimeout(t) \/ DropPages(t)
  <2>1. /\ pc'[t] = "idle" /\ UNCHANGED <<op, got, seen>>
        /\ outcome'[t] \in {"TimeoutError", "dropped"}
    BY <1>3 DEF BorrowTimeout, DropPages, Finish
  <2> QED
    BY <1>1, <2>1 DEF Paging
<1>4. CASE NextPage(t)
  <2>1. /\ pc[t] = "yielded" /\ pc'[t] = "borrow" /\ UNCHANGED <<op, outcome, seen>>
        /\ got'[t] = got[t]
    BY <1>4 DEF NextPage, Got
  <2> QED
    BY <1>1, <2>1 DEF Paging
<1>5. CASE \E method \in Ops : \E start \in Starts : CallRead(t, method, start)
  <2> PICK method \in Ops, start \in Starts : CallRead(t, method, start)
    BY <1>5
  <2>1. /\ pc'[t] = "borrow" /\ op'[t] = method /\ outcome'[t] = "none" /\ seen'[t] = {ledger}
        /\ method = "iter_audit_log_pages" =>
             got'[t] = [start |-> start, last |-> start, records |-> <<>>]
    BY DEF CallRead
  <2>2. start \in Nat
    BY ReadsAssumption
  <2>3. RowsAfter(<<>>, start, ledger.audit) /\ <<>> \in Seq(AuditRow) /\ start = start + Len(<<>>)
    BY <2>2 DEF RowsAfter
  <2>4. method = "iter_audit_log_pages" =>
          /\ got'[t] \in [start: Nat, last: Nat, records: Seq(AuditRow)]
          /\ got'[t].last = got'[t].start + Len(got'[t].records)
          /\ RowsAfter(got'[t].records, got'[t].start, ledger.audit)
    <3>1. PICK g : g = [start |-> start, last |-> start, records |-> <<>>]
      OBVIOUS
    <3>2. /\ g \in [start: Nat, last: Nat, records: Seq(AuditRow)]
          /\ g.start = start /\ g.last = start /\ g.records = <<>>
      BY <2>2, <2>3, <3>1
    <3> QED
      BY <2>1, <2>3, <3>1, <3>2
  <2> QED
    BY <1>1, <2>1, <2>4 DEF Paging
\* The other methods are at statements that are not those of the pages.
<1>6. CASE Load(t) \/ SelectLog(t) \/ Debug(t)
  <2>1. pc[t] \notin {"idle", "borrow", "page", "yielded"}
    BY <1>6 DEF Load, SelectBook, SelectAccounts, SelectPeriods, SelectTransactions,
                SelectEntries, EntriesRead, BuildBook, SelectLog, Debug, CountBooks,
                CountTransactions, CountEntries, CountAudit, Count
  <2>2. op[t] # "iter_audit_log_pages"
    BY <1>1, <2>1 DEF Paging
  <2>3. UNCHANGED <<op, seen>> /\ (pc'[t] = "idle" \/ outcome'[t] = outcome[t])
    BY <1>6 DEF Load, SelectBook, SelectAccounts, SelectPeriods, SelectTransactions,
                SelectEntries, EntriesRead, BuildBook, SelectLog, Debug, CountBooks,
                CountTransactions, CountEntries, CountAudit, Count, Got, Finish
  <2> QED
    BY <1>1, <2>1, <2>2, <2>3 DEF Paging
<1> QED
  BY <1>2, <1>3, <1>4, <1>5, <1>6 DEF Proceed, Choose

LEMMA PagingStep == LedgerInv /\ PagingInv /\ [ReadsNext]_vars => PagingInv'
<1> SUFFICES ASSUME LedgerInv, PagingInv, [ReadsNext]_vars
             PROVE  PagingInv'
  OBVIOUS
<1>1. CASE UNCHANGED vars
  BY <1>1, PagingUnconcerned DEF PagingInv, ReaderDomains, vars, reads
<1>2. CASE Written
  <2>1. ReaderDomains'
    BY <1>2 DEF PagingInv, ReaderDomains, Written, reads
  <2> QED
    BY <1>2, <2>1, PagingWritten DEF PagingInv
<1>3. ASSUME NEW t \in Readers, Proceed(t) \/ Choose(t)
      PROVE  PagingInv'
  <2>1. Paging(t)'
    BY <1>3, PagingNext, PagingElse
  <2>2. ASSUME NEW u \in Readers \ {t} PROVE Paging(u)'
    BY <1>3, ReaderLocal, PagingUnconcerned DEF PagingInv
  <2>3. ReaderDomains'
    BY <1>3, ReaderLocal DEF PagingInv, ReaderDomains
  <2> QED
    BY <2>1, <2>2, <2>3 DEF PagingInv
<1> QED
  BY <1>1, <1>2, <1>3 DEF ReadsNext

\* The pages of the audit log, put together, are the log from start_seq on,
\* whatever is appended between two pages, and an iteration that ends has
\* yielded the whole log of one moment of the call.
THEOREM PagesAreGapFreeHolds == ReadsSpec => []PagesAreGapFree
<1>1. ReadsInit => PagingInv
  BY DEF ReadsInit, PagingInv, ReaderDomains, Paging
<1>2. LedgerInv /\ PagingInv => PagesAreGapFree
  <2> SUFFICES ASSUME LedgerInv, PagingInv, NEW t \in Readers, op[t] = "iter_audit_log_pages"
               PROVE  /\ got[t].records = SubSeq(ledger.audit, got[t].start + 1,
                                                 got[t].start + Len(got[t].records))
                      /\ outcome[t] = "ok" =>
                           \E d \in seen[t] :
                             got[t].records = SubSeq(d.audit, got[t].start + 1, Len(d.audit))
    BY DEF PagesAreGapFree
  <2>1. PICK n, start, records : /\ n = Len(records) /\ start = got[t].start
                                 /\ records = got[t].records
    OBVIOUS
  <2>2. /\ start \in Nat /\ records \in Seq(AuditRow) /\ got[t].last = start + n
        /\ RowsAfter(records, start, ledger.audit)
    BY <2>1 DEF PagingInv, Paging
  <2>3. records = SubSeq(ledger.audit, start + 1, start + n)
    BY <2>1, <2>2, RowsAreSubSeq DEF LedgerInv, Database
  <2>4. ASSUME NEW d \in seen[t], d.audit \in Seq(AuditRow), RowsAfter(records, start, d.audit),
               Len(d.audit) <= got[t].last
        PROVE  records = SubSeq(d.audit, start + 1, Len(d.audit))
    <3>1. PICK log, m : log = d.audit /\ m = Len(log)
      OBVIOUS
    <3>2. log \in Seq(AuditRow) /\ m \in Nat /\ n \in Nat /\ m <= start + n
      BY <2>1, <2>2, <2>4, <3>1
    <3>3. records = SubSeq(log, start + 1, start + n)
      BY <2>1, <2>2, <2>4, <3>1, RowsAreSubSeq
    <3>4. CASE n = 0
      <4>1. records = <<>> /\ m < start + 1 /\ m \in Int /\ start + 1 \in Int
        BY <2>1, <2>2, <3>2, <3>4
      <4>2. SubSeq(log, start + 1, m) = <<>>
        BY <4>1, SubSeqEmpty
      <4> QED
        BY <3>1, <4>1, <4>2
    <3>5. CASE n # 0
      <4>1. n \in DOMAIN records /\ DOMAIN log = 1..m
        BY <2>1, <2>2, <3>1, <3>2, <3>5
      <4>2. start + n \in 1..m
        BY <2>4, <3>1, <4>1 DEF RowsAfter
      <4>3. m = start + n
        BY <2>2, <3>2, <4>2
      <4> QED
        BY <3>1, <3>3, <4>3
    <3> QED
      BY <3>2, <3>4, <3>5
  <2>5. outcome[t] = "ok" =>
          \E d \in seen[t] : /\ d.audit \in Seq(AuditRow) /\ RowsAfter(records, start, d.audit)
                             /\ Len(d.audit) <= got[t].last
    BY <2>1 DEF PagingInv, Paging
  <2> QED
    BY <2>1, <2>3, <2>4, <2>5
<1>3. ReadsSpec => []LedgerInv
  BY ReadsImplementLedger, LedgerInvHolds, PTL
<1> QED
  BY <1>1, <1>2, <1>3, PagingStep, PTL DEF ReadsSpec
=============================================================================
