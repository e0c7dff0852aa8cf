----------------------------- MODULE LedgerProofs -----------------------------
(***************************************************************************)
(* Proofs about the abstract ledger of Ledger.tla and the reports of       *)
(* Validation.tla, for any books, journals, references and requests; and,  *)
(* from the section on conversions on, about the pure algorithms of        *)
(* CoreModels.tla, for any amounts, periods and charts.                    *)
(***************************************************************************)
EXTENDS Validation, CoreModels, LedgerDataProofs, FiniteSetTheorems

-----------------------------------------------------------------------------
(* The rows of a request.                                                  *)

LEMMA CommitIsWithRows ==
  ASSUME NEW rows, NEW actor
  PROVE  Commit(rows, actor) <=> ledger' = WithRows(ledger, rows, actor)
  BY DEF Commit, WithRows

\* The masters of a book.
BookMasters(r) == Range(MasterRows(r.accounts, r.periods))

-----------------------------------------------------------------------------
(* An accepted request has rows that the ledger accepts.                   *)

LEMMA HasAccount ==
  ASSUME NEW d \in Database, NEW a
  PROVE  a \in AccountCodes(d) <=> HasRow(d, "accounts", <<a, 1>>)
  BY AccountKeys DEF AccountCodes

LEMMA CreateAccepted ==
  ASSUME NEW d \in Database, Sound(d), NEW r \in Request,
         r.op = "create_book", CanCreate(d, r)
  PROVE  Accepted(d, AllRows(d, r), r.actor, BookMasters(r), Range(r.transactions))
<1>1. /\ r.actor \in Actors /\ r.accounts \in Seq(Accounts) /\ r.periods \in Seq(Periods)
      /\ r.transactions \in Seq(Journal)
  BY RequestFields
<1>2. AllRows(d, r) = MasterRows(r.accounts, r.periods) \o RowsOfJournals(r.transactions)
  BY DEF AllRows, RowsOfJournals
<1> QED
  BY <1>1, <1>2, BookAccepted DEF CanCreate, BookMasters

LEMMA AppendAccepted ==
  ASSUME NEW d \in Database, Sound(d), NEW r \in Request,
         r.op = "append_transaction", CanAppend(d, r.tx)
  PROVE  Accepted(d, AllRows(d, r), r.actor, {}, {r.tx})
<1>1. r.tx \in Journal /\ r.actor \in Actors
  BY RequestFields
<1>2. ~HasTransaction(d, r.tx.ref) /\ r.tx.state = "posted" /\ Balanced(r.tx.lines)
  BY DEF CanAppend, ValidJournal
<1>3. \A i \in DOMAIN r.tx.lines : HasRow(d, "accounts", <<r.tx.lines[i].account, 1>>)
  BY HasAccount DEF CanAppend, KnownAccounts
<1>4. HasRow(d, "books", <<>>)
  <2>1. d.rows # {}
    BY DEF CanAppend, KnownAccounts, AccountCodes, RowsOf
  <2> QED
    BY <2>1 DEF Sound
<1>5. AllRows(d, r) = TransactionRows(r.tx)
  BY DEF AllRows
<1> QED
  BY <1>1, <1>2, <1>3, <1>4, <1>5, JournalAccepted

LEMMA ReversalAccepted ==
  ASSUME NEW d \in Database, Sound(d), NEW r \in Request,
         r.op = "append_reversal", CanReverse(d, r.original, r.reversal)
  PROVE  Accepted(d, AllRows(d, r), r.actor, {}, {ReversalOf(d, r.original, r.reversal)})
<1> DEFINE tx == ReversalOf(d, r.original, r.reversal)
<1>1. /\ r.original \in Refs /\ r.reversal \in Refs /\ r.actor \in Actors
      /\ HasTransaction(d, r.original) /\ ~HasTransaction(d, r.reversal)
  BY RequestFields DEF CanReverse
<1>2. /\ tx \in Journal /\ tx.ref = r.reversal /\ tx.state = "posted" /\ Balanced(tx.lines)
      /\ \A i \in DOMAIN tx.lines : HasRow(d, "accounts", <<tx.lines[i].account, 1>>)
      /\ HasRow(d, "books", <<>>)
  BY <1>1, ReversalIsValid
<1>3. AllRows(d, r) = TransactionRows(tx)
  BY DEF AllRows
<1> HIDE DEF tx
<1> QED
  BY <1>1, <1>2, <1>3, JournalAccepted DEF tx

-----------------------------------------------------------------------------
(* The inductive invariant.                                                *)

\* The parts of it that a step may rely on: Sound implies WholeJournals and the
\* half of ReportsAgree that is about stored books, Audited is AuditedOnce with
\* positions instead of signatures.
LedgerInv == /\ ledger \in Database
             /\ Sound(ledger)
             /\ Audited(ledger)

\* One accepted request, of those that make a row of the tables.
WritesRows(r) == CreateBook(r) \/ AppendTransaction(r) \/ AppendReversal(r)

\* The journals and the book's own rows that a request adds.
JournalsOf(d, r) == CASE r.op = "create_book" -> Range(r.transactions)
                      [] r.op = "append_transaction" -> {r.tx}
                      [] r.op = "append_reversal" -> {ReversalOf(d, r.original, r.reversal)}
MastersOf(r) == IF r.op = "create_book" THEN BookMasters(r) ELSE {}

LEMMA WriteIsAccepted ==
  ASSUME LedgerInv, NEW r \in Request, WritesRows(r)
  PROVE  /\ ledger' = WithRows(ledger, AllRows(ledger, r), r.actor)
         /\ Accepted(ledger, AllRows(ledger, r), r.actor, MastersOf(r), JournalsOf(ledger, r))
<1>1. CASE CreateBook(r)
  BY <1>1, CommitIsWithRows, CreateAccepted DEF CreateBook, LedgerInv, JournalsOf, MastersOf
<1>2. CASE AppendTransaction(r)
  BY <1>2, CommitIsWithRows, AppendAccepted DEF AppendTransaction, LedgerInv, JournalsOf, MastersOf
<1>3. CASE AppendReversal(r)
  BY <1>3, CommitIsWithRows, ReversalAccepted DEF AppendReversal, LedgerInv, JournalsOf, MastersOf
<1> QED
  BY <1>1, <1>2, <1>3 DEF WritesRows

LEMMA LegislativeWrite ==
  ASSUME LedgerInv, NEW r \in Request, AppendLegislativeResult(r)
  PROVE  LedgerInv' /\ ledger'.rows = ledger.rows
<1>1. ledger' = WithRows(ledger, <<LegislativeRow(r.ref)>>, r.actor)
  BY CommitIsWithRows DEF AppendLegislativeResult, AllRows
<1>2. r.ref \in Refs /\ r.actor \in Actors
  BY RequestFields DEF AppendLegislativeResult
<1> QED
  BY <1>1, <1>2, LegislativeIsSound DEF LedgerInv

LEMMA StepInvariance ==
  ASSUME LedgerInv, NEW r \in Request, WritesRows(r) \/ AppendLegislativeResult(r)
  PROVE  LedgerInv'
<1>1. CASE WritesRows(r)
  BY <1>1, WriteIsAccepted, WriteIsSound DEF LedgerInv
<1> QED
  BY <1>1, LegislativeWrite

LogGrows(d, e) ==
  \A i \in DOMAIN d.audit : i \in DOMAIN e.audit /\ e.audit[i] = d.audit[i]

\* No write takes an audit row away or moves it.
LEMMA LogOnlyGrows ==
  ASSUME LedgerInv, NEW r \in Request, WritesRows(r) \/ AppendLegislativeResult(r)
  PROVE  LogGrows(ledger, ledger')
<1>1. ASSUME NEW rows \in Seq(Row), NEW actor \in Actors, NEW e, e = WithRows(ledger, rows, actor)
      PROVE  LogGrows(ledger, e)
  <2>1. PICK a, n : a = Len(ledger.audit) /\ n = Len(rows)
    OBVIOUS
  <2>2. /\ a \in Nat /\ n \in Nat /\ DOMAIN ledger.audit = 1..a /\ DOMAIN e.audit = 1..(a + n)
        /\ \A i \in 1..a : e.audit[i] = ledger.audit[i]
    BY <1>1, <2>1, WithRowsAudit DEF LedgerInv
  <2>3. 1..a \subseteq 1..(a + n)
    BY <2>2
  <2> QED
    BY <2>2, <2>3 DEF LogGrows
<1>2. CASE WritesRows(r)
  <2>1. /\ ledger' = WithRows(ledger, AllRows(ledger, r), r.actor)
        /\ AllRows(ledger, r) \in Seq(Row) /\ r.actor \in Actors
    BY <1>2, WriteIsAccepted DEF Accepted, Adds
  <2> QED
    BY <1>1, <2>1
<1>3. CASE AppendLegislativeResult(r)
  <2>1. ledger' = WithRows(ledger, <<LegislativeRow(r.ref)>>, r.actor)
    BY <1>3, CommitIsWithRows DEF AppendLegislativeResult, AllRows, LedgerInv
  <2>2. r.ref \in Refs /\ r.actor \in Actors
    BY <1>3, RequestFields DEF AppendLegislativeResult
  <2>3. <<LegislativeRow(r.ref)>> \in Seq(Row)
    BY <2>2 DEF LegislativeRow, Row
  <2> QED
    BY <1>1, <2>1, <2>2, <2>3
<1> QED
  BY <1>2, <1>3

LEMMA LedgerInit == Init => LedgerInv
<1> SUFFICES ASSUME Init
             PROVE  LedgerInv
  OBVIOUS
<1>1. ledger.rows = {} /\ ledger.audit = <<>> /\ ledger = [rows |-> {}, audit |-> <<>>]
  BY DEF Init, EmptyDatabase
<1>2. ledger \in Database
  BY <1>1 DEF Database
<1>3. Sound(ledger)
  BY <1>1 DEF Sound, Keyed, RowsOf
<1>4. Audited(ledger)
  BY <1>1 DEF Audited
<1> QED
  BY <1>2, <1>3, <1>4 DEF LedgerInv

LEMMA LedgerInvariance == LedgerInv /\ [Next]_ledger => LedgerInv'
<1> SUFFICES ASSUME LedgerInv, [Next]_ledger
             PROVE  LedgerInv'
  OBVIOUS
<1>1. CASE UNCHANGED ledger
  BY <1>1 DEF LedgerInv
<1>2. CASE Next
  <2>1. PICK r \in Requests : WritesRows(r) \/ AppendLegislativeResult(r)
    BY <1>2 DEF Next, WritesRows
  <2>2. r \in Request
    BY LedgerAssumption
  <2> QED
    BY <2>1, <2>2, StepInvariance
<1> QED
  BY <1>1, <1>2

LEMMA LedgerInvHolds == Spec => []LedgerInv
  BY LedgerInit, LedgerInvariance, PTL DEF Spec

-----------------------------------------------------------------------------
(* What the invariant implies.                                             *)

LEMMA JournalsAreWhole == LedgerInv => WholeJournals
<1> SUFFICES ASSUME LedgerInv
             PROVE  WholeJournals
  OBVIOUS
<1>1. ASSUME NEW h \in RowsOf(ledger, "transactions")
      PROVE  /\ \A n \in DOMAIN LinesOf(ledger, h.key[1]) :
                  n = 1 \/ n - 1 \in DOMAIN LinesOf(ledger, h.key[1])
             /\ Balanced(LinesOf(ledger, h.key[1]))
             /\ HasRow(ledger, "books", <<>>)
  <2> DEFINE lines == LinesOf(ledger, h.key[1])
  <2>1. lines \in Seq(Line) /\ Balanced(lines)
    BY DEF LedgerInv, Sound
  <2> HIDE DEF lines
  <2>2. \A n \in DOMAIN lines : n = 1 \/ n - 1 \in DOMAIN lines
    BY <2>1
  <2>3. HasRow(ledger, "books", <<>>)
    BY DEF LedgerInv, Sound, RowsOf
  <2> QED
    BY <2>1, <2>2, <2>3 DEF lines
<1>2. \A x \in RowsOf(ledger, "entries") :
        HasTransaction(ledger, x.key[1]) /\ HasRow(ledger, "accounts", <<x.data.account, 1>>)
  BY DEF LedgerInv, Sound
<1> QED
  BY <1>1, <1>2 DEF WholeJournals

LEMMA RowsAreAuditedOnce == LedgerInv => AuditedOnce
<1> SUFFICES ASSUME LedgerInv
             PROVE  AuditedOnce
  OBVIOUS
<1>1. /\ ledger \in Database /\ Audited(ledger)
      /\ ledger.audit \in Seq(AuditRow) /\ \A row \in ledger.rows : row.table \in CoreTables
  BY DatabaseRows DEF LedgerInv
<1>2. ASSUME NEW row, NEW i \in DOMAIN ledger.audit
      PROVE  Signed(row, ledger.audit[i].actor) = ledger.audit[i]
               <=> ledger.audit[i].table = row.table /\ ledger.audit[i].key = row.key
  <2>1. ledger.audit[i] \in AuditRow
    BY <1>1
  <2> DEFINE a == ledger.audit[i]
  <2>2. a = [table |-> a.table, key |-> a.key, actor |-> a.actor]
    BY <2>1 DEF AuditRow
  <2> HIDE DEF a
  <2>3. Signed(row, a.actor) = a <=> a.table = row.table /\ a.key = row.key
    BY <2>2 DEF Signed
  <2> QED
    BY <2>3 DEF a
<1>3. ASSUME NEW row \in ledger.rows
      PROVE  \E i \in DOMAIN ledger.audit :
               /\ Signed(row, ledger.audit[i].actor) = ledger.audit[i]
               /\ \A j \in DOMAIN ledger.audit :
                    Signed(row, ledger.audit[j].actor) = ledger.audit[j] => i = j
  <2>1. PICK i \in DOMAIN ledger.audit :
          ledger.audit[i].table = row.table /\ ledger.audit[i].key = row.key
    BY <1>1 DEF Audited
  <2>2. ledger.audit[i].table \in CoreTables
    BY <1>1, <2>1
  <2>3. \A j \in DOMAIN ledger.audit :
          ledger.audit[j].table = row.table /\ ledger.audit[j].key = row.key => i = j
    BY <1>1, <2>1, <2>2 DEF Audited
  <2> QED
    BY <1>2, <2>1, <2>3
<1>4. \A i \in DOMAIN ledger.audit :
        \/ ledger.audit[i].table = "legislative_validation"
        \/ HasRow(ledger, ledger.audit[i].table, ledger.audit[i].key)
  BY <1>1 DEF Audited
<1> QED
  BY <1>3, <1>4 DEF AuditedOnce

LEMMA ReportsAgreeWithSound == LedgerInv => ReportsAgree
<1> SUFFICES ASSUME LedgerInv
             PROVE  ReportsAgree
  OBVIOUS
<1>1. ASSUME NEW r \in {r \in Requests : r.op = "append_transaction"},
             ValidateTransaction(AccountCodes(ledger), r.tx) # {}
      PROVE  ~CanAppend(ledger, r.tx)
  BY <1>1 DEF ValidateTransaction, UnknownAccounts, CanAppend, ValidJournal, KnownAccounts
<1>2. ASSUME NEW tx \in StoredTransactions(ledger)
      PROVE  Balanced(tx.lines) /\ UnknownAccounts(AccountCodes(ledger), tx) = {}
  <2>1. PICK h \in RowsOf(ledger, "transactions") : tx.lines = LinesOf(ledger, h.key[1])
    BY DEF StoredTransactions
  <2>2. Balanced(tx.lines)
    BY <2>1 DEF LedgerInv, Sound
  <2>3. \A i \in DOMAIN tx.lines : HasRow(ledger, "accounts", <<tx.lines[i].account, 1>>)
    <3>1. \A x \in RowsOf(ledger, "entries") : HasRow(ledger, "accounts", <<x.data.account, 1>>)
      BY DEF LedgerInv, Sound
    <3> QED
      BY <2>1, <3>1, StoredAccounts
  <2>4. \A i \in DOMAIN tx.lines : tx.lines[i].account \in AccountCodes(ledger)
    BY <2>3, HasAccount DEF LedgerInv
  <2> QED
    BY <2>2, <2>4 DEF UnknownAccounts
<1>3. ValidateBook(AccountCodes(ledger), StoredTransactions(ledger)) = {}
  <2> DEFINE acc == AccountCodes(ledger)
             txs == StoredTransactions(ledger)
  <2>1. \A tx \in txs : /\ ValidateTransaction(acc, tx) = {}
                        /\ UnknownAccounts(acc, tx) = {}
    BY <1>2 DEF ValidateTransaction
  <2> HIDE DEF acc, txs
  <2>2. ValidateBook(acc, txs) = {}
    BY <2>1 DEF ValidateBook
  <2> QED
    BY <2>2 DEF acc, txs
<1> QED
  BY <1>1, <1>3 DEF ReportsAgree

-----------------------------------------------------------------------------
(* Reversals and periods.                                                  *)

LEMMA ReversalsAreKept ==
  ASSUME LedgerInv, ReversalsCancel, NEW r \in Request,
         WritesRows(r) \/ AppendLegislativeResult(r)
  PROVE  ReversalsCancel'
<1> SUFFICES ASSUME NEW h \in Reversals(ledger')
             PROVE  /\ HasTransaction(ledger', h.data.of)
                    /\ SameButSides(LinesOf(ledger', h.key[1]), LinesOf(ledger', h.data.of))
                    /\ h.data.period = HeaderOf(ledger', h.data.of).period
  BY DEF ReversalsCancel
<1>1. CASE AppendLegislativeResult(r)
  <2>1. ledger'.rows = ledger.rows
    BY <1>1, LegislativeWrite
  <2> DEFINE e == ledger'
  <2>2. e.rows = ledger.rows
    BY <2>1
  <2> HIDE DEF e
  <2>3. /\ RowsOf(e, "transactions") = RowsOf(ledger, "transactions")
        /\ \A table, key : HasRow(e, table, key) <=> HasRow(ledger, table, key)
        /\ \A ref : LinesOf(e, ref) = LinesOf(ledger, ref) /\ HeaderOf(e, ref) = HeaderOf(ledger, ref)
    BY <2>2, SameRows
  <2>4. h \in Reversals(e) => h \in Reversals(ledger)
    BY <2>3 DEF Reversals
  <2> QED
    BY <2>3, <2>4 DEF e, ReversalsCancel, HasTransaction
<1>2. CASE WritesRows(r)
  <2> DEFINE e == ledger'
             Ts == JournalsOf(ledger, r)
  <2>1. /\ e = WithRows(ledger, AllRows(ledger, r), r.actor)
        /\ Accepted(ledger, AllRows(ledger, r), r.actor, MastersOf(r), Ts)
    BY <1>2, WriteIsAccepted
  <2> HIDE DEF e
  <2>2. /\ RowsOf(e, "transactions") = RowsOf(ledger, "transactions") \cup HeadersOf(Ts)
        /\ \A tx \in Ts : LinesOf(e, tx.ref) = tx.lines
        /\ \A ref : HasTransaction(ledger, ref) =>
                      /\ HasTransaction(e, ref)
                      /\ LinesOf(e, ref) = LinesOf(ledger, ref)
                      /\ HeaderOf(e, ref) = HeaderOf(ledger, ref)
    BY <2>1, WriteKeeps DEF LedgerInv
  <2>3. h \in RowsOf(e, "transactions") /\ h.data.note = "reversal"
    BY DEF Reversals, e
  <2>4. CASE h \in RowsOf(ledger, "transactions")
    <3>1. /\ HasTransaction(ledger, h.data.of)
          /\ SameButSides(LinesOf(ledger, h.key[1]), LinesOf(ledger, h.data.of))
          /\ h.data.period = HeaderOf(ledger, h.data.of).period
      BY <2>3, <2>4 DEF ReversalsCancel, Reversals
    <3>2. HasTransaction(ledger, h.key[1])
      BY <2>4, DatabaseRows DEF LedgerInv
    <3> QED
      BY <2>2, <3>1, <3>2 DEF e
  <2>5. CASE h \notin RowsOf(ledger, "transactions")
    <3>1. PICK tx \in Ts : h = HeaderRow(tx)
      BY <2>2, <2>3, <2>5 DEF HeadersOf
    <3>2. h.key[1] = tx.ref /\ h.data.of = tx.of /\ h.data.note = tx.note /\ h.data.period = tx.period
      BY <3>1 DEF HeaderRow
    <3>3. r.op = "append_reversal" /\ CanReverse(ledger, r.original, r.reversal)
      <4>1. CASE CreateBook(r)
        <5>1. r.transactions \in Seq(CallerJournal) /\ tx \in Range(r.transactions)
          BY <4>1, RequestFields DEF CreateBook, JournalsOf
        <5>2. tx.note = "caller"
          BY <5>1, RangeOfSeq DEF CallerJournal
        <5> QED
          BY <2>3, <3>2, <5>2
      <4>2. CASE AppendTransaction(r)
        <5>1. tx.note = "caller"
          BY <4>2, RequestFields DEF AppendTransaction, JournalsOf
        <5> QED
          BY <2>3, <3>2, <5>1
      <4>3. CASE AppendReversal(r)
        BY <4>3 DEF AppendReversal
      <4> QED
        BY <1>2, <4>1, <4>2, <4>3 DEF WritesRows
    <3>4. tx = ReversalOf(ledger, r.original, r.reversal)
      BY <3>3 DEF JournalsOf
    <3>5. /\ r.original \in Refs /\ r.reversal \in Refs
          /\ HasTransaction(ledger, r.original) /\ ~HasTransaction(ledger, r.reversal)
      BY <3>3, RequestFields DEF CanReverse
    <3>6. /\ tx.of = r.original /\ tx.lines = Inverted(LinesOf(ledger, r.original))
          /\ tx.period = HeaderOf(ledger, r.original).period
      BY <3>4 DEF ReversalOf
    <3>7. LinesOf(ledger, r.original) \in Seq(Line)
      <4>1. PICK g \in RowsOf(ledger, "transactions") : g.key[1] = r.original
        BY <3>5, StoredTransaction
      <4> QED
        BY <4>1 DEF LedgerInv, Sound
    <3>8. SameButSides(tx.lines, LinesOf(ledger, r.original))
      <4> DEFINE lines == LinesOf(ledger, r.original)
      <4>1. lines \in Seq(Line)
        BY <3>7
      <4> HIDE DEF lines
      <4>2. SameButSides(Inverted(lines), lines)
        <5>1. DOMAIN Inverted(lines) = DOMAIN lines
          BY <4>1, InvertedLines
        <5>2. ASSUME NEW i \in DOMAIN lines
              PROVE  /\ Inverted(lines)[i].side # lines[i].side
                     /\ Inverted(lines)[i] = [lines[i] EXCEPT !.side = Inverted(lines)[i].side]
          <6>1. /\ lines[i].side \in Sides /\ lines[i] \in Line
                /\ Inverted(lines)[i].side = Opposite(lines[i].side)
            BY <4>1, InvertedLines
          <6>2. Inverted(lines)[i] = [lines[i] EXCEPT !.side = Opposite(@)]
            BY DEF Inverted
          <6> QED
            BY <6>1, <6>2 DEF Opposite, Sides
        <5> QED
          BY <5>1, <5>2 DEF SameButSides
      <4> QED
        BY <3>6, <4>2 DEF lines
    <3> QED
      BY <2>2, <3>2, <3>5, <3>6, <3>8 DEF e
  <2> QED
    BY <2>4, <2>5
<1> QED
  BY <1>1, <1>2

\* What append_transaction leaves to its callers: the period of a transaction is
\* one of those that a book with accounts was created with.
PeriodsAgree ==
  \A a, b \in Requests :
    a.op = "append_transaction" /\ b.op = "create_book" =>
      \/ a.tx.period \in {None} \cup Range(b.periods)
      \/ b.accounts = <<>>

\* Then every period that a request names is stored once accounts are, and no
\* stored journal names another.
PeriodInv ==
  /\ AccountCodes(ledger) # {} =>
       \A a \in Requests : a.op = "append_transaction" =>
         a.tx.period = None \/ HasRow(ledger, "periods", <<a.tx.period, 1>>)
  /\ \A h \in RowsOf(ledger, "transactions") :
       h.data.period = None \/ HasRow(ledger, "periods", <<h.data.period, 1>>)

LEMMA PeriodsAreKept ==
  ASSUME PeriodsAgree, LedgerInv, PeriodInv, NEW r \in Requests,
         WritesRows(r) \/ AppendLegislativeResult(r)
  PROVE  PeriodInv'
<1> DEFINE e == ledger'
<1>0. r \in Request
  BY LedgerAssumption
<1>1. CASE AppendLegislativeResult(r)
  <2>1. e.rows = ledger.rows
    BY <1>0, <1>1, LegislativeWrite
  <2> HIDE DEF e
  <2>2. /\ \A table : RowsOf(e, table) = RowsOf(ledger, table)
        /\ \A table, key : HasRow(e, table, key) <=> HasRow(ledger, table, key)
    BY <2>1, SameRows
  <2>3. AccountCodes(e) = AccountCodes(ledger)
    BY <2>2 DEF AccountCodes
  <2> QED
    BY <2>2, <2>3 DEF PeriodInv, e
<1>2. CASE WritesRows(r)
  <2> DEFINE Ts == JournalsOf(ledger, r)
  <2>1. /\ e = WithRows(ledger, AllRows(ledger, r), r.actor)
        /\ Accepted(ledger, AllRows(ledger, r), r.actor, MastersOf(r), Ts)
    BY <1>0, <1>2, WriteIsAccepted
  <2> HIDE DEF e, Ts
  <2>2. /\ e.rows = ledger.rows \cup MastersOf(r) \cup JournalRows(Ts)
        /\ RowsOf(e, "transactions") = RowsOf(ledger, "transactions") \cup HeadersOf(Ts)
        /\ \A table, key : HasRow(ledger, table, key) => HasRow(e, table, key)
    BY <2>1, WriteKeeps DEF LedgerInv
  <2>3. \A row \in JournalRows(Ts) : row.table \in {"transactions", "entries"}
    <3>1. Ts \subseteq Journal
      BY <2>1 DEF Accepted, Adds
    <3>2. \A tx \in Ts : \A row \in Range(TransactionRows(tx)) : row.table \in {"transactions", "entries"}
      BY <3>1, TransactionRowsContents DEF HeaderRow, EntryRow
    <3> QED
      BY <3>2 DEF JournalRows
  <2>4. CASE CreateBook(r)
    <3>1. /\ r.op = "create_book" /\ CanCreate(ledger, r)
          /\ r.accounts \in Seq(Accounts) /\ r.periods \in Seq(Periods)
      BY <1>0, <2>4, RequestFields DEF CreateBook
    <3>2. MastersOf(r) = {BookRow} \cup {AccountRow(a) : a \in Range(r.accounts)}
                                   \cup {PeriodRow(p) : p \in Range(r.periods)}
      BY <3>1, MasterRowsContents DEF MastersOf, BookMasters
    <3>3. ledger.rows = {}
      BY <3>1 DEF CanCreate, LedgerInv, Sound
    <3>4. \A p \in Range(r.periods) : HasRow(e, "periods", <<p, 1>>)
      <4> TAKE p \in Range(r.periods)
      <4>1. PeriodRow(p) \in e.rows
        BY <2>2, <3>2
      <4> QED
        BY <4>1 DEF HasRow, PeriodRow
    <3>5. ASSUME AccountCodes(e) # {}, NEW a \in Requests, a.op = "append_transaction"
          PROVE  a.tx.period = None \/ HasRow(e, "periods", <<a.tx.period, 1>>)
      <4>1. PICK row \in e.rows : row.table = "accounts"
        BY <3>5 DEF AccountCodes, RowsOf
      <4>2. row \in MastersOf(r)
        BY <2>2, <2>3, <3>3, <4>1
      <4>3. Range(r.accounts) # {}
        BY <3>2, <4>1, <4>2 DEF BookRow, PeriodRow
      <4>4. r.accounts # <<>>
        BY <4>3 DEF Range
      <4>5. a.tx.period \in {None} \cup Range(r.periods)
        BY <3>1, <3>5, <4>4 DEF PeriodsAgree
      <4> QED
        BY <3>4, <4>5
    <3>6. ASSUME NEW h \in RowsOf(e, "transactions")
          PROVE  h.data.period = None \/ HasRow(e, "periods", <<h.data.period, 1>>)
      <4>1. Ts = Range(r.transactions)
        BY <3>1 DEF Ts, JournalsOf
      <4>2. PICK tx \in Range(r.transactions) : h = HeaderRow(tx)
        BY <2>2, <3>3, <4>1 DEF HeadersOf, RowsOf
      <4>3. tx.period \in Range(r.periods) \cup {None}
        BY <3>1 DEF CanCreate, ValidBook
      <4>4. h.data.period = tx.period
        BY <4>2 DEF HeaderRow
      <4> QED
        BY <3>4, <4>3, <4>4
    <3> QED
      BY <3>5, <3>6 DEF PeriodInv, e
  <2>5. CASE r.op # "create_book"
    <3>1. MastersOf(r) = {}
      BY <2>5 DEF MastersOf
    <3>2. RowsOf(e, "accounts") = RowsOf(ledger, "accounts")
      BY <2>2, <2>3, <3>1 DEF RowsOf
    <3>3. AccountCodes(e) = AccountCodes(ledger)
      BY <3>2 DEF AccountCodes
    <3>4. ASSUME NEW tx \in Ts
          PROVE  tx.period = None \/ HasRow(ledger, "periods", <<tx.period, 1>>)
      <4>1. CASE AppendTransaction(r)
        <5>1. tx = r.tx /\ r.op = "append_transaction" /\ AccountCodes(ledger) # {}
          BY <4>1 DEF AppendTransaction, CanAppend, KnownAccounts, Ts, JournalsOf
        <5> QED
          BY <5>1 DEF PeriodInv
      <4>2. CASE AppendReversal(r)
        <5>1. /\ tx.period = HeaderOf(ledger, r.original).period
              /\ HasTransaction(ledger, r.original)
          BY <4>2 DEF AppendReversal, CanReverse, Ts, JournalsOf, ReversalOf
        <5>2. PICK g \in RowsOf(ledger, "transactions") : g.key[1] = r.original
          BY <5>1, StoredTransaction
        <5>3. HeaderOf(ledger, r.original) = g.data
          BY <5>2, StoredHeader DEF LedgerInv, Sound
        <5> QED
          BY <5>1, <5>2, <5>3 DEF PeriodInv
      <4> QED
        BY <1>2, <2>5, <4>1, <4>2 DEF WritesRows, CreateBook
    <3>5. ASSUME NEW h \in RowsOf(e, "transactions")
          PROVE  h.data.period = None \/ HasRow(e, "periods", <<h.data.period, 1>>)
      <4>1. CASE h \in RowsOf(ledger, "transactions")
        BY <2>2, <4>1 DEF PeriodInv
      <4>2. CASE h \notin RowsOf(ledger, "transactions")
        <5>1. PICK tx \in Ts : h = HeaderRow(tx)
          BY <2>2, <4>2 DEF HeadersOf
        <5>2. h.data.period = tx.period
          BY <5>1 DEF HeaderRow
        <5> QED
          BY <2>2, <3>4, <5>2
      <4> QED
        BY <4>1, <4>2
    <3> QED
      BY <2>2, <3>3, <3>5 DEF PeriodInv, e
  <2> QED
    BY <1>2, <2>4, <2>5 DEF WritesRows, AppendTransaction, AppendReversal
<1> QED
  BY <1>1, <1>2

-----------------------------------------------------------------------------
(* Theorems about the ledger.                                              *)

\* No half-written journal is ever visible: in every database of the ledger,
\* whatever books, journals and reversals were accepted before, each stored
\* transaction has all its entries, balanced, on stored accounts of a book
\* (create_book, append_transaction, append_reversal).
THEOREM WholeJournalsHolds == Spec => []WholeJournals
  BY LedgerInvHolds, JournalsAreWhole, PTL

\* Each row of the tables is signed exactly once in the audit log, and every
\* row of the log is a stored row or a legislative result (the AFTER INSERT
\* triggers of schema.py).
THEOREM AuditedOnceHolds == Spec => []AuditedOnce
  BY LedgerInvHolds, RowsAreAuditedOnce, PTL

\* The reports agree with the store: what validate_transaction finds fault with
\* is refused, and validate_book finds no fault with a stored book.
THEOREM ReportsAgreeHolds == Spec => []ReportsAgree
  BY LedgerInvHolds, ReportsAgreeWithSound, PTL

\* A stored reversal has the lines of its original with the sides exchanged, and
\* its period, for as long as the file lives (append_reversal).
THEOREM ReversalsCancelHolds == Spec => []ReversalsCancel
<1>1. Init => ReversalsCancel
  BY DEF Init, EmptyDatabase, ReversalsCancel, Reversals, RowsOf
<1>2. LedgerInv /\ ReversalsCancel /\ [Next]_ledger => ReversalsCancel'
  <2> SUFFICES ASSUME LedgerInv, ReversalsCancel, [Next]_ledger
               PROVE  ReversalsCancel'
    OBVIOUS
  <2>1. CASE UNCHANGED ledger
    BY <2>1 DEF ReversalsCancel
  <2>2. CASE Next
    <3>1. PICK r \in Requests : WritesRows(r) \/ AppendLegislativeResult(r)
      BY <2>2 DEF Next, WritesRows
    <3>2. r \in Request
      BY LedgerAssumption
    <3> QED
      BY <3>1, <3>2, ReversalsAreKept
  <2> QED
    BY <2>1, <2>2
<1> QED
  BY <1>1, <1>2, LedgerInvHolds, PTL DEF Spec

\* When callers append only to periods of their book, load_book succeeds on
\* every stored book: append_transaction itself does not check the period.
THEOREM StoredBookLoadsHolds ==
  ASSUME PeriodsAgree
  PROVE  Spec => []StoredBookLoads
<1>1. Init => PeriodInv
  BY DEF Init, EmptyDatabase, PeriodInv, RowsOf, AccountCodes
<1>2. LedgerInv /\ PeriodInv /\ [Next]_ledger => PeriodInv'
  <2> SUFFICES ASSUME LedgerInv, PeriodInv, [Next]_ledger
               PROVE  PeriodInv'
    OBVIOUS
  <2>1. CASE UNCHANGED ledger
    BY <2>1 DEF PeriodInv, AccountCodes
  <2>2. CASE Next
    <3>1. PICK r \in Requests : WritesRows(r) \/ AppendLegislativeResult(r)
      BY <2>2 DEF Next, WritesRows
    <3> QED
      BY <3>1, PeriodsAreKept
  <2> QED
    BY <2>1, <2>2
<1>3. LedgerInv /\ PeriodInv => StoredBookLoads
  BY DEF LedgerInv, PeriodInv, Sound, StoredBookLoads
<1> QED
  BY <1>1, <1>2, <1>3, LedgerInvHolds, PTL DEF Spec

-----------------------------------------------------------------------------
(* Currency conversions.                                                   *)

LEMMA RoundedDown ==
  ASSUME NEW exact \in Nat, NEW unit \in Nat \ {0}
  PROVE  \E rest \in 0..(unit - 1) :
           /\ exact \div unit \in Nat
           /\ exact = (exact \div unit) * unit + rest
           /\ rest = exact % unit
<1>1. exact \div unit \in Nat
  OBVIOUS
<1>2. exact % unit \in 0..(unit - 1)
  OBVIOUS
<1>3. exact = unit * (exact \div unit) + (exact % unit)
  OBVIOUS
<1>4. unit * (exact \div unit) = (exact \div unit) * unit
  BY <1>1
<1> QED
  BY <1>1, <1>2, <1>3, <1>4

\* The place to round a number to that has no more digits than the context
\* keeps before the place u: it divides u.
LEMMA LastPlaceDivides ==
  ASSUME NEW x \in Nat, NEW u \in Tens, x < ContextLimit * u
  PROVE  LastPlace(x) \in Nat \ {0} /\ \E k \in Nat : u = k * LastPlace(x)
<1>1. PICK places : places = {h \in Tens : x < ContextLimit * h}
  OBVIOUS
<1>2. places \in SUBSET Nat /\ places # {} /\ u \in places
  BY <1>1, TensAssumption
<1>3. \E g \in places : \A h \in places : g <= h
  BY <1>2, LeastNatural
<1>4. \E g \in Tens : x < ContextLimit * g /\ \A h \in Tens : x < ContextLimit * h => g <= h
  BY <1>1, <1>3
<1>5. PICK g : g = LastPlace(x)
  OBVIOUS
<1>6. g \in Tens /\ \A h \in Tens : x < ContextLimit * h => g <= h
  BY <1>4, <1>5 DEF LastPlace
<1>7. g <= u /\ g \in Nat \ {0} /\ u \in Nat \ {0}
  BY <1>6, TensAssumption
<1>8. u % g = 0
  BY <1>6, <1>7, TensAssumption
<1>9. PICK rest \in 0..(g - 1) : /\ u \div g \in Nat
                                 /\ u = (u \div g) * g + rest
                                 /\ rest = u % g
  BY <1>7, RoundedDown
<1>10. u = (u \div g) * g
  <2>1. PICK p : p = (u \div g) * g
    OBVIOUS
  <2>2. p \in Nat
    BY <1>7, <1>9, <2>1
  <2> QED
    BY <1>8, <1>9, <2>1, <2>2
<1> QED
  BY <1>5, <1>7, <1>9, <1>10

LEMMA MultiplesOrder ==
  ASSUME NEW a \in Nat, NEW b \in Nat, NEW g \in Nat \ {0}
  PROVE  a * g < b * g <=> a < b
  OBVIOUS

\* Rounding to the context does not carry a number past a whole number of units
\* of no more digits than the context keeps.
LEMMA RoundingStaysBetween ==
  ASSUME NEW x \in Nat, NEW u \in Tens, NEW lo \in Nat, NEW hi \in Nat,
         lo * u <= x, x <= hi * u, hi < ContextLimit
  PROVE  InContext(x) \in Nat /\ lo * u <= InContext(x) /\ InContext(x) <= hi * u
<1>1. u \in Nat \ {0} /\ ContextLimit \in Nat
  BY TensAssumption, CoreModelsAssumption
<1>2. hi * u < ContextLimit * u
  BY <1>1, MultiplesOrder
<1>3. x < ContextLimit * u
  <2>1. hi * u \in Nat /\ ContextLimit * u \in Nat
    BY <1>1
  <2> QED
    BY <1>2, <2>1
<1>4. PICK g, k : g = LastPlace(x) /\ g \in Nat \ {0} /\ k \in Nat /\ u = k * g
  BY <1>3, LastPlaceDivides
<1>5. PICK rest \in 0..(g - 1) : x \div g \in Nat /\ x = (x \div g) * g + rest /\ rest = x % g
  BY <1>4, RoundedDown
<1>6. PICK kept \in Nat : kept = x \div g
  BY <1>5
<1>7. PICK m \in Nat, n \in Nat : m = lo * k /\ n = hi * k
  BY <1>4
<1>8. PICK p, q, r : p = kept * g /\ q = m * g /\ r = n * g
  OBVIOUS
<1>9. p \in Nat /\ q \in Nat /\ r \in Nat /\ (kept + 1) * g = p + g
  BY <1>4, <1>8
<1>10. q = lo * u /\ r = hi * u
  BY <1>4, <1>7, <1>8
<1>11. x = p + rest
  BY <1>5, <1>6, <1>8
<1>12. rest \in Nat /\ rest < g /\ g \in Nat
  BY <1>4
<1>13. q < p + g /\ p + rest <= r
  BY <1>9, <1>10, <1>11, <1>12
<1>14. m < kept + 1
  <2>1. m * g < (kept + 1) * g
    BY <1>8, <1>9, <1>13
  <2> QED
    BY <1>4, <2>1, MultiplesOrder
<1>15. rest > 0 => kept < n
  <2> SUFFICES ASSUME rest > 0 PROVE kept < n
    OBVIOUS
  <2>1. p < r
    BY <1>9, <1>12, <1>13
  <2> QED
    BY <1>4, <1>8, <2>1, MultiplesOrder
<1>16. q <= p
  <2>1. ~(kept < m)
    BY <1>14
  <2>2. ~(p < q)
    BY <1>4, <1>8, <2>1, MultiplesOrder
  <2> QED
    BY <1>9, <2>2
<1>17. rest > 0 => p + g <= r
  <2> SUFFICES ASSUME rest > 0 PROVE p + g <= r
    OBVIOUS
  <2>1. ~(n < kept + 1) /\ kept + 1 \in Nat
    BY <1>15
  <2>2. ~(n * g < (kept + 1) * g)
    BY <1>4, <2>1, MultiplesOrder
  <2>3. ~(r < p + g)
    BY <1>8, <1>9, <2>2
  <2> QED
    BY <1>9, <1>12, <2>3
<1>18. InContext(x) = p \/ (rest > 0 /\ InContext(x) = p + g)
  <2>1. InContext(x) = IF 2 * rest > g \/ (2 * rest = g /\ kept % 2 = 1)
                       THEN (kept + 1) * g ELSE kept * g
    BY <1>4, <1>5, <1>6 DEF InContext
  <2>2. 2 * rest > g \/ 2 * rest = g => rest > 0
    BY <1>4, <1>12
  <2> QED
    BY <1>8, <1>9, <2>1, <2>2
<1>19. InContext(x) \in Nat /\ q <= InContext(x) /\ InContext(x) <= r
  <2>1. CASE InContext(x) = p
    BY <1>9, <1>12, <1>13, <1>16, <2>1
  <2>2. CASE rest > 0 /\ InContext(x) = p + g
    BY <1>9, <1>12, <1>16, <1>17, <2>2
  <2> QED
    BY <1>18, <2>1, <2>2
<1> QED
  BY <1>10, <1>19

\* What validate_fx_conversion makes of an expected and a booked amount.
Reported(expected, counter, unit) == ~(InContext(Distance(expected, counter * unit)) <= unit)

LEMMA ConversionsRound ==
  ASSUME NEW exact \in Nat, NEW unit \in Tens, NEW down, down = exact \div unit,
         NEW up, up = IF exact % unit = 0 THEN down ELSE down + 1,
         up < ContextLimit
  PROVE  /\ down \in Nat /\ up \in Nat
         /\ \A counter \in {down, up} : ~Reported(InContext(exact), counter, unit)
         /\ Reported(InContext(exact), up + 2, unit)
         /\ down > 2 => Reported(InContext(exact), down - 2, unit)
<1>0. unit \in Nat \ {0} /\ ContextLimit \in Nat /\ ContextLimit >= 10
  BY TensAssumption, CoreModelsAssumption
<1>1. PICK rest \in 0..(unit - 1) : /\ down \in Nat /\ exact = down * unit + rest
                                    /\ rest = exact % unit
  BY <1>0, RoundedDown
<1>2. PICK p : p = down * unit
  OBVIOUS
<1>3. p \in Nat /\ exact = p + rest
  BY <1>0, <1>1, <1>2
<1>4. /\ (down + 1) * unit = p + unit /\ (down + 2) * unit = p + 2 * unit
      /\ (down + 3) * unit = p + 3 * unit /\ (down - 2) * unit = p - 2 * unit
  BY <1>0, <1>1, <1>2
<1>5. up \in Nat /\ (up = down \/ up = down + 1)
  BY <1>1
<1>6. PICK top : top = up * unit
  OBVIOUS
<1>7. /\ top \in {p, p + unit} /\ (up + 2) * unit = top + 2 * unit
      /\ p <= exact /\ exact <= top
  <2>1. CASE rest = 0
    <3>1. up = down
      BY <1>1, <2>1
    <3> QED
      BY <1>0, <1>1, <1>2, <1>3, <1>4, <1>6, <2>1, <3>1
  <2>2. CASE rest # 0
    <3>1. up = down + 1 /\ up + 2 = down + 3
      BY <1>1, <2>2
    <3> QED
      BY <1>0, <1>1, <1>2, <1>3, <1>4, <1>6, <2>2, <3>1
  <2> QED
    BY <2>1, <2>2
<1>8. PICK e : e = InContext(exact)
  OBVIOUS
<1>9. e \in Nat /\ p <= e /\ e <= top
  BY <1>1, <1>2, <1>3, <1>5, <1>6, <1>7, <1>8, RoundingStaysBetween
<1>10. ASSUME NEW gap \in Nat, gap <= unit
       PROVE  InContext(gap) <= unit
  <2>1. 0 * unit <= gap /\ gap <= 1 * unit /\ 1 < ContextLimit /\ 1 * unit = unit
    BY <1>0, <1>10
  <2>2. InContext(gap) <= 1 * unit
    BY <1>10, <2>1, RoundingStaysBetween
  <2> QED
    BY <2>1, <2>2
<1>11. ASSUME NEW gap \in Nat, 2 * unit <= gap, gap <= 3 * unit
       PROVE  ~(InContext(gap) <= unit)
  <2>1. 3 < ContextLimit
    BY <1>0
  <2>2. InContext(gap) \in Nat /\ 2 * unit <= InContext(gap)
    BY <1>11, <2>1, RoundingStaysBetween
  <2> QED
    BY <1>0, <2>2
<1>12. ~Reported(e, down, unit) /\ ~Reported(e, up, unit)
  <2>1. /\ Distance(e, p) \in Nat /\ Distance(e, p) <= unit
        /\ Distance(e, top) \in Nat /\ Distance(e, top) <= unit
    BY <1>0, <1>3, <1>7, <1>9 DEF Distance
  <2> QED
    BY <1>2, <1>6, <1>10, <2>1 DEF Reported
<1>13. Reported(e, up + 2, unit)
  <2>1. PICK gap : gap = Distance(e, top + 2 * unit)
    OBVIOUS
  <2>2. gap \in Nat /\ 2 * unit <= gap /\ gap <= 3 * unit
    BY <1>0, <1>3, <1>7, <1>9, <2>1 DEF Distance
  <2> QED
    BY <1>7, <1>11, <2>1, <2>2 DEF Reported
<1>14. Reported(e, down - 2, unit)
  <2>1. PICK gap : gap = Distance(e, p - 2 * unit)
    OBVIOUS
  <2>2. gap \in Nat /\ 2 * unit <= gap /\ gap <= 3 * unit
    BY <1>0, <1>3, <1>7, <1>9, <2>1 DEF Distance
  <2> QED
    BY <1>4, <1>11, <2>1, <2>2 DEF Reported
<1> QED
  BY <1>1, <1>5, <1>8, <1>12, <1>13, <1>14

\* A conversion with both amounts present is reported for its distance alone.
LEMMA ReportedForDistance ==
  ASSUME NEW c \in Conversions, c.rate[1] # 0, NEW counter \in Nat \ {0},
         NEW exact, exact = c.base * c.rate[1] * c.counterUnits,
         NEW unit, unit = c.rate[2] * c.baseUnits
  PROVE  ValidateFx(c.base, c.baseUnits, counter, c.counterUnits, c.rate)
           = IF Reported(InContext(exact), counter, unit) THEN {"FX_RATE_MISMATCH"} ELSE {}
<1>1. c.base # 0 /\ counter # 0
  BY CoreModelsAssumption DEF Conversions
<1> QED
  BY <1>1, Zenon DEF ValidateFx, WithinTolerance, Reported

\* A conversion booked at the exact amount, rounded up or down, is never
\* reported, two units more or less always are: for any number of digits that
\* Decimal keeps, and any rate and currencies whose amount has no more digits.
THEOREM FxAcceptsRoundingsHolds == ModelsInit => FxAcceptsRoundings
<1> SUFFICES ASSUME ModelsInit, given.of = "conversion"
             PROVE  FxAcceptsRoundings
  BY DEF FxAcceptsRoundings
<1>1. given.value \in Conversions
  BY DEF ModelsInit, Arguments
<1>2. PICK c \in Conversions : c = given.value
  BY <1>1
<1>3. PICK exact, unit : /\ exact = c.base * c.rate[1] * c.counterUnits
                         /\ unit = c.rate[2] * c.baseUnits
  OBVIOUS
<1>4. PICK down, up : /\ down = exact \div unit
                      /\ up = IF exact % unit = 0 THEN down ELSE down + 1
  OBVIOUS
<1>5. CASE c.rate[1] # 0 /\ up < ContextLimit
  <2>1. /\ c.base \in 1..MaxUnits /\ c.rate \in Rates
        /\ c.baseUnits \in MinorUnits /\ c.counterUnits \in MinorUnits
    BY DEF Conversions
  <2>2. unit \in Tens
    BY <1>3, <2>1, CoreModelsAssumption
  <2>3. c.base \in Nat /\ c.rate[1] \in Nat /\ c.counterUnits \in Nat
    <3>1. MaxUnits \in Nat /\ c.rate \in Nat \X Tens /\ c.counterUnits \in Tens
      BY <2>1, CoreModelsAssumption
    <3>2. c.rate[1] \in Nat
      BY <3>1
    <3>3. c.counterUnits \in Nat
      BY <3>1, TensAssumption
    <3>4. c.base \in Nat
      BY <2>1, <3>1
    <3> QED
      BY <3>2, <3>3, <3>4
  <2>4. exact \in Nat
    BY <1>3, <2>3
  <2>5. /\ down \in Nat /\ up \in Nat
        /\ \A counter \in {down, up} : ~Reported(InContext(exact), counter, unit)
        /\ Reported(InContext(exact), up + 2, unit)
        /\ down > 2 => Reported(InContext(exact), down - 2, unit)
    BY <1>4, <1>5, <2>2, <2>4, ConversionsRound
  <2>6. \A counter \in Nat \ {0} :
          ValidateFx(c.base, c.baseUnits, counter, c.counterUnits, c.rate)
            = IF Reported(InContext(exact), counter, unit) THEN {"FX_RATE_MISMATCH"} ELSE {}
    BY <1>3, <1>5, ReportedForDistance
  <2>7. up + 2 \in Nat \ {0} /\ (down > 2 => down - 2 \in Nat \ {0})
    BY <2>5
  <2>8. /\ \A counter \in {down, up} \ {0} :
             ValidateFx(c.base, c.baseUnits, counter, c.counterUnits, c.rate) = {}
        /\ ValidateFx(c.base, c.baseUnits, up + 2, c.counterUnits, c.rate)
             = {"FX_RATE_MISMATCH"}
        /\ down > 2 => ValidateFx(c.base, c.baseUnits, down - 2, c.counterUnits, c.rate)
                         = {"FX_RATE_MISMATCH"}
    BY <2>5, <2>6, <2>7
  <2> QED
    BY <1>2, <1>3, <1>4, <2>8, Zenon DEF FxAcceptsRoundings
<1> QED
  BY <1>2, <1>3, <1>4, <1>5, Zenon DEF FxAcceptsRoundings

-----------------------------------------------------------------------------
(* The periods of a book.                                                  *)

\* The first n of the periods, in start order.
Sorts(order, n, periods) ==
  /\ order \in [1..n -> 1..n]
  /\ \A i, j \in 1..n : order[i] = order[j] => i = j
  /\ \A i \in 1..n : \E k \in 1..n : order[k] = i
  /\ \A k \in 1..n : k # 1 => ~Earlier(periods[order[k]], periods[order[k - 1]])

LEMMA EarlierIsAsymmetric ==
  ASSUME NEW p \in BookPeriod, NEW q \in BookPeriod, Earlier(p, q)
  PROVE  ~Earlier(q, p)
<1>1. p.start \in Int /\ p.end \in Int /\ q.start \in Int /\ q.end \in Int
  BY CoreModelsAssumption DEF BookPeriod
<1> QED
  BY <1>1 DEF Earlier

\* One more period takes its place before the first one that starts after it.
LEMMA SortOneMore ==
  ASSUME NEW n \in Nat, NEW periods, \A i \in 1..(n + 1) : periods[i] \in BookPeriod,
         NEW order, Sorts(order, n, periods)
  PROVE  \E more : Sorts(more, n + 1, periods)
<1> DEFINE new   == periods[n + 1]
           Later == {m \in 1..(n + 1) : m = n + 1 \/ Earlier(new, periods[order[m]])}
<1>1. PICK at \in Later : \A m \in Later : at <= m
  <2>1. n + 1 \in Later /\ Later \in SUBSET Nat
    OBVIOUS
  <2> HIDE DEF Later
  <2> QED
    BY <2>1, LeastNatural
<1>2. /\ at \in 1..(n + 1)
      /\ \A m \in 1..n : m < at => ~Earlier(new, periods[order[m]])
      /\ at # n + 1 => Earlier(new, periods[order[at]])
  BY <1>1
<1> HIDE DEF Later
<1> DEFINE more == [m \in 1..(n + 1) |-> IF m < at THEN order[m]
                                         ELSE IF m = at THEN n + 1 ELSE order[m - 1]]
<1>3. /\ \A m \in 1..n : m < at => m \in 1..(n + 1) /\ more[m] = order[m]
      /\ more[at] = n + 1
      /\ \A m \in 1..n : at <= m => m + 1 \in 1..(n + 1) /\ more[m + 1] = order[m]
      /\ \A m \in 1..(n + 1) : \/ m < at /\ m \in 1..n
                               \/ m = at
                               \/ m > at /\ m - 1 \in 1..n /\ at <= m - 1
                                  /\ more[m] = order[m - 1]
      /\ DOMAIN more = 1..(n + 1)
  BY <1>2
<1> HIDE DEF more
<1>4. \A m \in 1..n : order[m] \in 1..n /\ order[m] # n + 1 /\ order[m] \in 1..(n + 1)
  BY DEF Sorts
<1>5. more \in [1..(n + 1) -> 1..(n + 1)]
  <2>1. \A m \in 1..(n + 1) : more[m] \in 1..(n + 1)
    BY <1>3, <1>4
  <2>2. more = [m \in DOMAIN more |-> more[m]]
    <3>1. \A m \in 1..(n + 1) : more[m] = more[m]
      OBVIOUS
    <3> QED
      BY DEF more
  <2> QED
    BY <1>3, <2>1, <2>2
<1>6. ASSUME NEW i \in 1..(n + 1), NEW j \in 1..(n + 1), more[i] = more[j]
      PROVE  i = j
  <2>1. \A k, l \in 1..n : order[k] = order[l] => k = l
    BY DEF Sorts
  <2>2. CASE i = at
    BY <1>3, <1>4, <1>6, <2>2
  <2>3. CASE j = at
    BY <1>3, <1>4, <1>6, <2>3
  <2>4. CASE i < at /\ j < at
    <3>1. i \in 1..n /\ j \in 1..n /\ more[i] = order[i] /\ more[j] = order[j]
      BY <1>2, <1>3, <2>4
    <3> QED
      BY <1>6, <2>1, <3>1
  <2>5. CASE i > at /\ j > at
    <3>1. i - 1 = j - 1
      BY <1>2, <1>3, <1>6, <2>1, <2>5
    <3> QED
      BY <3>1
  <2>6. CASE i < at /\ j > at
    <3>1. i = j - 1 /\ at <= j - 1
      BY <1>2, <1>3, <1>6, <2>1, <2>6
    <3> QED
      BY <1>2, <2>6, <3>1
  <2>7. CASE i > at /\ j < at
    <3>1. j = i - 1 /\ at <= i - 1
      BY <1>2, <1>3, <1>6, <2>1, <2>7
    <3> QED
      BY <1>2, <2>7, <3>1
  <2> QED
    BY <1>2, <2>2, <2>3, <2>4, <2>5, <2>6, <2>7
<1>7. ASSUME NEW i \in 1..(n + 1)
      PROVE  \E k \in 1..(n + 1) : more[k] = i
  <2>1. CASE i = n + 1
    BY <1>2, <1>3, <2>1
  <2>2. CASE i # n + 1
    <3>1. i \in 1..n
      BY <2>2
    <3>2. PICK k \in 1..n : order[k] = i
      BY <3>1 DEF Sorts
    <3> QED
      BY <1>2, <1>3, <3>2
  <2> QED
    BY <2>1, <2>2
<1>8. ASSUME NEW k \in 1..(n + 1), k # 1
      PROVE  ~Earlier(periods[more[k]], periods[more[k - 1]])
  <2>1. \A m \in 1..n : m # 1 => ~Earlier(periods[order[m]], periods[order[m - 1]])
    BY DEF Sorts
  <2>2. k - 1 \in 1..n
    BY <1>8
  <2>3. CASE k < at
    <3>1. k \in 1..n /\ k - 1 < at /\ more[k] = order[k] /\ more[k - 1] = order[k - 1]
      BY <1>2, <1>3, <2>2, <2>3
    <3> QED
      BY <1>8, <2>1, <3>1
  <2>4. CASE k = at
    <3>1. more[k] = n + 1 /\ more[k - 1] = order[k - 1] /\ k - 1 < at
      BY <1>2, <1>3, <2>2, <2>4
    <3> QED
      BY <1>2, <2>2, <3>1
  <2>5. CASE k = at + 1
    <3>1. more[k] = order[at] /\ more[k - 1] = n + 1 /\ at # n + 1 /\ at \in 1..n
      BY <1>2, <1>3, <2>2, <2>5
    <3>2. periods[order[at]] \in BookPeriod /\ new \in BookPeriod
      BY <1>4, <3>1
    <3> QED
      BY <1>2, <3>1, <3>2, EarlierIsAsymmetric
  <2>6. CASE k > at + 1
    <3>1. /\ more[k] = order[k - 1] /\ (k - 1) - 1 \in 1..n /\ at <= (k - 1) - 1
          /\ ((k - 1) - 1) + 1 = k - 1 /\ k - 1 # 1
      BY <1>2, <1>3, <2>2, <2>6
    <3>2. more[k - 1] = order[(k - 1) - 1]
      BY <1>3, <3>1
    <3> QED
      BY <2>1, <2>2, <3>1, <3>2
  <2> QED
    BY <1>2, <2>2, <2>3, <2>4, <2>5, <2>6
<1>9. Sorts(more, n + 1, periods)
  BY <1>5, <1>6, <1>7, <1>8 DEF Sorts
<1> QED
  BY <1>9

LEMMA SortingExists ==
  ASSUME NEW periods \in Seq(BookPeriod)
  PROVE  \E order : Sorts(order, Len(periods), periods)
<1> DEFINE n    == Len(periods)
           Good == {m \in 0..n : \E order : Sorts(order, m, periods)}
<1>1. n \in Nat /\ \A i \in 1..n : periods[i] \in BookPeriod
  OBVIOUS
<1>2. 0 \in Good
  <2>1. Sorts(<<>>, 0, periods)
    BY DEF Sorts
  <2> QED
    BY <1>1, <2>1
<1>3. ASSUME NEW m \in 0..n, m + 1 \in 0..n, m \in Good
      PROVE  m + 1 \in Good
  <2>1. m \in Nat /\ 1..(m + 1) \subseteq 1..n
    BY <1>1, <1>3
  <2>2. PICK order : Sorts(order, m, periods)
    BY <1>3
  <2>3. \E more : Sorts(more, m + 1, periods)
    BY <1>1, <2>1, <2>2, SortOneMore
  <2> QED
    BY <1>3, <2>3
<1>4. n \in Good
  <2> HIDE DEF Good
  <2>1. \A k \in 0..n : k \in Good
    <3> HIDE DEF n
    <3> QED
      BY <1>1, <1>2, <1>3, InductionTo
  <2> QED
    BY <1>1, <2>1
<1> QED
  BY <1>4

LEMMA SeqOfType ==
  ASSUME NEW S, NEW n, NEW s \in SeqOf(S, n)
  PROVE  s \in Seq(S)
<1>1. PICK m \in 0..n : s \in [1..m -> S]
  BY DEF SeqOf
<1>2. m \in Nat
  OBVIOUS
<1> QED
  BY <1>1, <1>2

LEMMA OrderedPeriodsSorted ==
  ASSUME NEW periods \in Seq(BookPeriod), NEW n, n = Len(periods),
         NEW s, s = OrderedPeriods(periods)
  PROVE  \E order : /\ Sorts(order, n, periods)
                    /\ DOMAIN s = 1..n /\ \A i \in 1..n : s[i] = periods[order[i]]
<1> DEFINE Sorted(order) == \A i \in 2..Len(periods) :
                              ~Earlier(periods[order[i]], periods[order[i - 1]])
           order == CHOOSE order \in Bijection(DOMAIN periods, DOMAIN periods) : Sorted(order)
<1>1. n \in Nat /\ DOMAIN periods = 1..n
  OBVIOUS
<1>2. \E o \in Bijection(DOMAIN periods, DOMAIN periods) : Sorted(o)
  <2>1. PICK o : Sorts(o, n, periods)
    BY SortingExists
  <2>2. o \in Bijection(1..n, 1..n)
    BY <2>1 DEF Sorts, Bijection, Injection, Surjection, IsInjective
  <2>3. \A i \in 2..n : i \in 1..n /\ i # 1
    BY <1>1
  <2>4. Sorted(o)
    BY <2>1, <2>3 DEF Sorts
  <2> HIDE DEF Sorted
  <2> QED
    BY <1>1, <2>2, <2>4
<1>3. order \in Bijection(DOMAIN periods, DOMAIN periods) /\ Sorted(order)
  <2> HIDE DEF Sorted
  <2> QED
    BY <1>2
<1>4. s = [i \in DOMAIN periods |-> periods[order[i]]]
  BY DEF OrderedPeriods
<1> HIDE DEF order
<1>5. Sorts(order, n, periods)
  <2>1. /\ order \in [1..n -> 1..n]
        /\ \A i, j \in 1..n : order[i] = order[j] => i = j
        /\ \A i \in 1..n : \E k \in 1..n : order[k] = i
    BY <1>1, <1>3 DEF Bijection, Injection, Surjection, IsInjective
  <2>2. \A k \in 1..n : k # 1 => k \in 2..n
    BY <1>1
  <2> QED
    BY <1>3, <2>1, <2>2 DEF Sorts
<1> QED
  BY <1>1, <1>4, <1>5

\* When neighbours do not overlap, no two periods do.
LEMMA NeighboursSuffice ==
  ASSUME NEW n \in Nat, NEW s, \A i \in 1..n : s[i] \in BookPeriod,
         \A i \in 2..n : s[i].start > s[i - 1].end,
         NEW i \in 1..n
  PROVE  \A j \in 1..n : j < i => s[j].end < s[i].start
<1> DEFINE Good == {k \in 0..n : \A j \in 1..k : j < k => s[j].end < s[k].start}
<1>1. \A k \in 1..n : s[k].start \in Int /\ s[k].end \in Int /\ s[k].start <= s[k].end
  BY CoreModelsAssumption DEF BookPeriod
<1>2. 0 \in Good
  OBVIOUS
<1>3. ASSUME NEW k \in 0..n, k + 1 \in 0..n, k \in Good
      PROVE  k + 1 \in Good
  <2> SUFFICES ASSUME NEW j \in 1..(k + 1), j < k + 1
               PROVE  s[j].end < s[k + 1].start
    BY <1>3
  <2>1. j \in 1..k /\ k \in 1..n /\ k + 1 \in 1..n /\ k + 1 \in 2..n /\ (k + 1) - 1 = k /\ j \in 1..n
    BY <1>3
  <2>2. s[k + 1].start > s[k].end
    BY <2>1
  <2>3. j < k => s[j].end < s[k].start
    BY <1>3, <2>1
  <2>4. CASE j = k
    BY <1>1, <2>1, <2>2, <2>4
  <2>5. CASE j # k
    <3>1. s[j].end < s[k].start
      BY <2>1, <2>3, <2>5
    <3> QED
      BY <1>1, <2>1, <2>2, <3>1
  <2> QED
    BY <2>4, <2>5
<1>4. i \in Good
  <2> HIDE DEF Good
  <2>1. \A k \in 0..n : k \in Good
    BY <1>2, <1>3, InductionTo
  <2> QED
    BY <2>1
<1> QED
  BY <1>4

\* No day lies in both.
DaysApart(p, q) == (p.start)..(p.end) \cap (q.start)..(q.end) = {}

LEMMA ApartPeriods ==
  ASSUME NEW p \in BookPeriod, NEW q \in BookPeriod
  PROVE  /\ p.end < q.start => DaysApart(p, q) /\ DaysApart(q, p)
         /\ DaysApart(p, q) /\ ~Earlier(q, p) => q.start > p.end
<1>1. /\ p.start \in Int /\ p.end \in Int /\ q.start \in Int /\ q.end \in Int
      /\ p.start <= p.end /\ q.start <= q.end
  BY CoreModelsAssumption DEF BookPeriod
<1>2. p.end < q.start => DaysApart(p, q) /\ DaysApart(q, p)
  BY <1>1 DEF DaysApart
<1>3. ASSUME DaysApart(p, q), ~Earlier(q, p)
      PROVE  q.start > p.end
  <2>1. p.start <= q.start
    BY <1>1, <1>3 DEF Earlier
  <2>2. q.start \in (q.start)..(q.end)
    BY <1>1
  <2>3. q.start \notin (p.start)..(p.end)
    BY <1>3, <2>2 DEF DaysApart
  <2> QED
    BY <1>1, <2>1, <2>3
<1> QED
  BY <1>2, <1>3

LEMMA PeriodsValidWhenDisjoint ==
  ASSUME NEW periods \in Seq(BookPeriod)
  PROVE  ValidPeriodCollection(periods)
           <=> \A i, j \in DOMAIN periods : i # j =>
                 periods[i].period # periods[j].period /\ DaysApart(periods[i], periods[j])
<1>1. PICK n, s : n = Len(periods) /\ s = OrderedPeriods(periods)
  OBVIOUS
<1>2. /\ n \in Nat /\ DOMAIN periods = 1..n
      /\ \A i \in 1..n : periods[i] \in BookPeriod
  BY <1>1
<1>3. PICK order : /\ Sorts(order, n, periods)
                   /\ DOMAIN s = 1..n /\ \A i \in 1..n : s[i] = periods[order[i]]
  BY <1>1, OrderedPeriodsSorted
<1>4. /\ \A i \in 1..n : order[i] \in 1..n
      /\ \A i, j \in 1..n : order[i] = order[j] => i = j
      /\ \A i \in 1..n : \E k \in 1..n : order[k] = i
      /\ \A k \in 1..n : k # 1 => ~Earlier(periods[order[k]], periods[order[k - 1]])
  BY <1>3 DEF Sorts
<1>5. \A i \in 1..n : s[i] \in BookPeriod
  BY <1>2, <1>3, <1>4
<1>6. Len(s) = n
  <2>1. s = [i \in 1..n |-> s[i]]
    <3>1. s = [i \in DOMAIN periods |-> s[i]]
      BY <1>1 DEF OrderedPeriods
    <3> QED
      BY <1>2, <3>1
  <2>2. s \in Seq(BookPeriod)
    BY <1>2, <1>5, <2>1
  <2> QED
    BY <1>2, <1>3, <2>2
<1>7. ValidPeriodCollection(periods)
        <=> /\ \A i, j \in 1..n : periods[i].period = periods[j].period => i = j
            /\ \A i \in 2..n : s[i].start > s[i - 1].end
  <2>1. UniquePeriods(periods)
          <=> \A i, j \in 1..n : periods[i].period = periods[j].period => i = j
    BY <1>2 DEF UniquePeriods, IsInjective
  <2> QED
    BY <1>1, <1>6, <2>1 DEF ValidPeriodCollection
<1>8. ASSUME \A i \in 2..n : s[i].start > s[i - 1].end,
             NEW i \in 1..n, NEW j \in 1..n, i # j
      PROVE  DaysApart(periods[i], periods[j])
  <2>1. PICK k \in 1..n, l \in 1..n : order[k] = i /\ order[l] = j
    BY <1>4
  <2>2. s[k] = periods[i] /\ s[l] = periods[j] /\ k # l
    BY <1>3, <1>8, <2>1
  <2>3. s[k].end < s[l].start \/ s[l].end < s[k].start
    <3>1. (k < l \/ l < k)
      BY <1>2, <2>2
    <3>2. \A a \in 1..n : \A b \in 1..n : b < a => s[b].end < s[a].start
      BY <1>2, <1>5, <1>8, NeighboursSuffice
    <3> QED
      BY <3>1, <3>2
  <2> QED
    BY <1>2, <2>2, <2>3, ApartPeriods
<1>9. ASSUME \A i, j \in 1..n : i # j => DaysApart(periods[i], periods[j]),
             NEW i \in 2..n
      PROVE  s[i].start > s[i - 1].end
  <2>1. i \in 1..n /\ i - 1 \in 1..n /\ i # 1 /\ i # i - 1
    BY <1>2
  <2>2. /\ order[i] # order[i - 1] /\ order[i] \in 1..n /\ order[i - 1] \in 1..n
        /\ ~Earlier(periods[order[i]], periods[order[i - 1]])
    BY <1>4, <2>1
  <2>3. DaysApart(periods[order[i - 1]], periods[order[i]])
    BY <1>9, <2>2
  <2>4. periods[order[i]].start > periods[order[i - 1]].end
    BY <1>2, <2>2, <2>3, ApartPeriods
  <2> QED
    BY <1>3, <2>1, <2>4
<1> QED
  BY <1>2, <1>7, <1>8, <1>9

\* The comparison of neighbours in start order is enough: a collection of any
\* length is accepted exactly when no day lies in two of its periods and no
\* fiscal period appears twice.
THEOREM PeriodsAreDisjointHolds == ModelsInit => PeriodsAreDisjoint
<1> SUFFICES ASSUME ModelsInit, given.of = "periods"
             PROVE  PeriodsAreDisjoint
  BY DEF PeriodsAreDisjoint
<1>1. given.value \in PeriodCollections
  BY DEF ModelsInit, Arguments
<1>2. given.value \in Seq(BookPeriod)
  BY <1>1, SeqOfType DEF PeriodCollections
<1>3. PICK periods : periods = given.value
  OBVIOUS
<1>4. ValidPeriodCollection(periods)
        <=> \A i, j \in DOMAIN periods : i # j =>
              periods[i].period # periods[j].period /\ DaysApart(periods[i], periods[j])
  BY <1>2, <1>3, PeriodsValidWhenDisjoint
<1> QED
  BY <1>3, <1>4, Zenon DEF PeriodsAreDisjoint, DaysApart

-----------------------------------------------------------------------------
(* The chart of accounts.  The walk of _find_account_cycle is a recursive  *)
(* function on paths; Walked says what it computes without recursion, so   *)
(* the recursion has a solution, and an induction on the room left in the  *)
(* chart tells what the walk from a chain returns.                         *)

Paths(parent) == Seq(DOMAIN parent) \ {<<>>}

\* What a walk returns that has come to a code it has seen.
Repeated(path, next) ==
  Append(SubSeq(path, SelectInSeq(path, LAMBDA c : c = next), Len(path)), next)

\* One step of the walk, when w is what the walk returns from a longer path.
WalkStep(w, path, parent) ==
  LET next == parent[Last(path)]
  IN IF next = None THEN <<>>
     ELSE IF next \in Range(path) THEN Repeated(path, next) ELSE w[Append(path, next)]

WalkFrom(parent) == CHOOSE w : w = [path \in Paths(parent) |-> WalkStep(w, path, parent)]

LEMMA FindAccountCycleWalks ==
  ASSUME NEW start, NEW parent
  PROVE  FindAccountCycle(start, parent) = WalkFrom(parent)[<<start>>]
  BY DEF FindAccountCycle, WalkFrom, WalkStep, Repeated, Paths

\* The parents that ParentMap returns when every parent is an account.
IsParentMap(parent) ==
  /\ IsFiniteSet(DOMAIN parent) /\ None \notin DOMAIN parent
  /\ \A code \in DOMAIN parent : parent[code] \in DOMAIN parent \cup {None}

Halts(path, parent) ==
  \/ parent[path[Len(path)]] = None
  \/ \E i \in 1..Len(path) : path[i] = parent[path[Len(path)]]

\* The walk from p has come to q.
WalksTo(p, q, parent) ==
  /\ Len(p) <= Len(q)
  /\ \A i \in 1..Len(p) : q[i] = p[i]
  /\ \A i \in Len(p)..(Len(q) - 1) : q[i + 1] = parent[q[i]] /\ \A j \in 1..i : q[j] # q[i + 1]

Ends(p, parent) == {q \in Paths(parent) : WalksTo(p, q, parent) /\ Halts(q, parent)}

Ended(q, parent) ==
  IF parent[q[Len(q)]] = None THEN <<>> ELSE Repeated(q, parent[q[Len(q)]])

\* What the recursion computes, without recursion.
Walked(parent) ==
  [p \in Paths(parent) |-> IF Ends(p, parent) = {} THEN <<>>
                           ELSE Ended(CHOOSE q \in Ends(p, parent) : TRUE, parent)]

LEMMA PathFacts ==
  ASSUME NEW parent, NEW p \in Paths(parent)
  PROVE  /\ Len(p) \in Nat \ {0} /\ DOMAIN p = 1..Len(p) /\ Len(p) \in 1..Len(p)
         /\ \A i \in 1..Len(p) : p[i] \in DOMAIN parent
         /\ Last(p) = p[Len(p)]
         /\ \A c : c \in Range(p) <=> \E i \in 1..Len(p) : p[i] = c
<1>1. p \in Seq(DOMAIN parent) /\ p # <<>>
  BY DEF Paths
<1>2. Len(p) \in Nat \ {0} /\ DOMAIN p = 1..Len(p) /\ \A i \in 1..Len(p) : p[i] \in DOMAIN parent
  BY <1>1
<1>3. Len(p) \in 1..Len(p)
  BY <1>2
<1>4. \A c : c \in Range(p) <=> \E i \in 1..Len(p) : p[i] = c
  BY <1>2 DEF Range
<1> QED
  BY <1>2, <1>3, <1>4 DEF Last

LEMMA HaltedEnds ==
  ASSUME NEW parent, IsParentMap(parent), NEW p \in Paths(parent), Halts(p, parent)
  PROVE  Ends(p, parent) = {p}
<1>1. Len(p) \in Nat /\ Len(p) \in 1..Len(p) /\ p \in Seq(DOMAIN parent)
  BY PathFacts DEF Paths
<1>2. p \in Ends(p, parent)
  <2>1. Len(p)..(Len(p) - 1) = {}
    BY <1>1
  <2> QED
    BY <1>1, <2>1 DEF Ends, WalksTo
<1>3. ASSUME NEW q \in Paths(parent), WalksTo(p, q, parent)
      PROVE  q = p
  <2>1. Len(q) \in Nat /\ q \in Seq(DOMAIN parent) /\ Len(q) \in 1..Len(q)
    BY PathFacts DEF Paths
  <2>2. /\ Len(p) <= Len(q) /\ \A i \in 1..Len(p) : q[i] = p[i]
        /\ \A i \in Len(p)..(Len(q) - 1) :
             q[i + 1] = parent[q[i]] /\ \A j \in 1..i : q[j] # q[i + 1]
    BY <1>3 DEF WalksTo
  <2>3. CASE Len(p) = Len(q)
    BY <1>1, <2>1, <2>2, <2>3, SeqEqual
  <2>4. CASE Len(p) # Len(q)
    <3>1. Len(p) \in Len(p)..(Len(q) - 1)
      BY <1>1, <2>1, <2>2, <2>4
    <3>2. q[Len(p) + 1] = parent[q[Len(p)]] /\ \A j \in 1..Len(p) : q[j] # q[Len(p) + 1]
      BY <2>2, <3>1
    <3>3. parent[p[Len(p)]] # None
      <4>1. Len(p) + 1 \in 1..Len(q)
        BY <1>1, <2>1, <2>2, <2>4
      <4>2. q[Len(p) + 1] \in DOMAIN parent
        BY <4>1, PathFacts
      <4> QED
        BY <1>1, <2>2, <3>2, <4>2 DEF IsParentMap
    <3> QED
      BY <1>1, <2>2, <3>2, <3>3 DEF Halts
  <2> QED
    BY <2>3, <2>4
<1> QED
  BY <1>2, <1>3 DEF Ends

LEMMA NextPath ==
  ASSUME NEW parent, IsParentMap(parent), NEW p \in Paths(parent), NEW more,
         ~Halts(p, parent) /\ more = Append(p, parent[p[Len(p)]])
  PROVE  /\ more \in Paths(parent) /\ Len(more) = Len(p) + 1
         /\ \A i \in 1..Len(p) : more[i] = p[i]
         /\ more[Len(p) + 1] = parent[p[Len(p)]]
         /\ \A i \in 1..Len(p) : p[i] # parent[p[Len(p)]]
<1>1. Len(p) \in Nat /\ Len(p) \in 1..Len(p) /\ p \in Seq(DOMAIN parent)
  BY PathFacts DEF Paths
<1>2. parent[p[Len(p)]] \in DOMAIN parent
  BY PathFacts DEF Halts, IsParentMap
<1>3. /\ more \in Seq(DOMAIN parent) /\ Len(more) = Len(p) + 1
      /\ \A i \in 1..Len(p) : more[i] = p[i]
      /\ more[Len(p) + 1] = parent[p[Len(p)]]
  BY <1>1, <1>2
<1>4. more # <<>>
  BY <1>1, <1>3
<1> QED
  BY <1>3, <1>4 DEF Paths, Halts

LEMMA UnhaltedEnds ==
  ASSUME NEW parent, IsParentMap(parent), NEW p \in Paths(parent), ~Halts(p, parent),
         NEW more, more = Append(p, parent[p[Len(p)]])
  PROVE  Ends(p, parent) = Ends(more, parent)
<1>1. Len(p) \in Nat /\ Len(p) \in 1..Len(p) /\ p \in Seq(DOMAIN parent)
  BY PathFacts DEF Paths
<1>2. /\ more \in Paths(parent) /\ Len(more) = Len(p) + 1
      /\ \A i \in 1..Len(p) : more[i] = p[i]
      /\ more[Len(p) + 1] = parent[p[Len(p)]]
      /\ \A i \in 1..Len(p) : p[i] # parent[p[Len(p)]]
  <2>1. more \in Paths(parent)
    BY NextPath
  <2>2. Len(more) = Len(p) + 1
    BY NextPath
  <2>3. \A i \in 1..Len(p) : more[i] = p[i]
    BY NextPath
  <2>4. more[Len(p) + 1] = parent[p[Len(p)]]
    BY NextPath
  <2>5. \A i \in 1..Len(p) : p[i] # parent[p[Len(p)]]
    BY NextPath
  <2> QED
    BY <2>1, <2>2, <2>3, <2>4, <2>5
<1>3. ASSUME NEW q \in Paths(parent), WalksTo(p, q, parent), Halts(q, parent)
      PROVE  WalksTo(more, q, parent)
  <2>1. Len(q) \in Nat /\ q \in Seq(DOMAIN parent) /\ Len(q) \in 1..Len(q)
    BY PathFacts DEF Paths
  <2>2. /\ Len(p) <= Len(q) /\ \A i \in 1..Len(p) : q[i] = p[i]
        /\ \A i \in Len(p)..(Len(q) - 1) :
             q[i + 1] = parent[q[i]] /\ \A j \in 1..i : q[j] # q[i + 1]
    BY <1>3 DEF WalksTo
  <2>3. Len(p) # Len(q)
    <3>1. ASSUME Len(p) = Len(q)
          PROVE  p = q
      BY <1>1, <2>1, <2>2, <3>1, SeqEqual
    <3> QED
      BY <1>3, <3>1
  <2>4. Len(more) <= Len(q) /\ Len(p) \in Len(p)..(Len(q) - 1)
    BY <1>1, <1>2, <2>1, <2>2, <2>3
  <2>5. q[Len(p) + 1] = parent[p[Len(p)]]
    BY <1>1, <2>2, <2>4
  <2>6. \A i \in 1..Len(more) : q[i] = more[i]
    <3>1. \A i \in 1..Len(more) : i \in 1..Len(p) \/ i = Len(p) + 1
      BY <1>1, <1>2
    <3> QED
      BY <1>2, <2>2, <2>5, <3>1
  <2>7. \A i \in Len(more)..(Len(q) - 1) : i \in Len(p)..(Len(q) - 1)
    BY <1>1, <1>2, <2>1
  <2> QED
    BY <2>2, <2>4, <2>6, <2>7 DEF WalksTo
<1>4. ASSUME NEW q \in Paths(parent), WalksTo(more, q, parent)
      PROVE  WalksTo(p, q, parent)
  <2>1. Len(q) \in Nat
    BY PathFacts
  <2>2. /\ Len(more) <= Len(q) /\ \A i \in 1..Len(more) : q[i] = more[i]
        /\ \A i \in Len(more)..(Len(q) - 1) :
             q[i + 1] = parent[q[i]] /\ \A j \in 1..i : q[j] # q[i + 1]
    BY <1>4 DEF WalksTo
  <2>3. \A i \in 1..Len(p) : i \in 1..Len(more)
    BY <1>1, <1>2
  <2>4. Len(p) + 1 \in 1..Len(more)
    BY <1>1, <1>2
  <2>5. /\ \A i \in 1..Len(p) : q[i] = p[i]
        /\ q[Len(p) + 1] = parent[p[Len(p)]]
    BY <1>2, <2>2, <2>3, <2>4
  <2>6. Len(p) <= Len(q)
    BY <1>1, <1>2, <2>1, <2>2
  <2>7. ASSUME NEW i \in Len(p)..(Len(q) - 1)
        PROVE  q[i + 1] = parent[q[i]] /\ \A j \in 1..i : q[j] # q[i + 1]
    <3>1. CASE i = Len(p)
      BY <1>1, <1>2, <2>5, <3>1
    <3>2. CASE i # Len(p)
      <4>1. i \in Len(more)..(Len(q) - 1)
        BY <1>1, <1>2, <2>1, <3>2
      <4> QED
        BY <2>2, <4>1
    <3> QED
      BY <3>1, <3>2
  <2> QED
    BY <2>5, <2>6, <2>7 DEF WalksTo
<1> QED
  BY <1>3, <1>4 DEF Ends

LEMMA WalkedStep ==
  ASSUME NEW parent, IsParentMap(parent), NEW p \in Paths(parent)
  PROVE  Walked(parent)[p] = WalkStep(Walked(parent), p, parent)
<1>1. PICK next : next = parent[p[Len(p)]]
  OBVIOUS
<1>2. Last(p) = p[Len(p)] /\ \A c : c \in Range(p) <=> \E i \in 1..Len(p) : p[i] = c
  BY PathFacts
<1>3. Halts(p, parent) <=> next = None \/ next \in Range(p)
  BY <1>1, <1>2 DEF Halts
<1>4. WalkStep(Walked(parent), p, parent)
        = IF next = None THEN <<>>
          ELSE IF next \in Range(p) THEN Repeated(p, next) ELSE Walked(parent)[Append(p, next)]
  BY <1>1, <1>2 DEF WalkStep
<1>5. \A r \in Paths(parent) :
        Walked(parent)[r] = IF Ends(r, parent) = {} THEN <<>>
                            ELSE Ended(CHOOSE q \in Ends(r, parent) : TRUE, parent)
  BY DEF Walked
<1>6. CASE Halts(p, parent)
  <2>1. Ends(p, parent) = {p}
    BY <1>6, HaltedEnds
  <2>2. Walked(parent)[p] = Ended(p, parent)
    BY <1>5, <2>1
  <2> QED
    BY <1>1, <1>3, <1>4, <1>6, <2>2 DEF Ended
<1>7. CASE ~Halts(p, parent)
  <2>1. Append(p, next) \in Paths(parent) /\ Ends(p, parent) = Ends(Append(p, next), parent)
    BY <1>1, <1>7, NextPath, UnhaltedEnds
  <2> QED
    BY <1>3, <1>4, <1>5, <1>7, <2>1
<1> QED
  BY <1>6, <1>7

LEMMA WalkFromStep ==
  ASSUME NEW parent, IsParentMap(parent), NEW p \in Paths(parent)
  PROVE  WalkFrom(parent)[p] = WalkStep(WalkFrom(parent), p, parent)
<1>1. Walked(parent) = [q \in Paths(parent) |-> WalkStep(Walked(parent), q, parent)]
  <2>1. \A q \in Paths(parent) : Walked(parent)[q] = WalkStep(Walked(parent), q, parent)
    BY WalkedStep
  <2>2. Walked(parent) = [q \in Paths(parent) |-> Walked(parent)[q]]
    BY DEF Walked
  <2> QED
    BY <2>1, <2>2
<1>2. \E w : w = [q \in Paths(parent) |-> WalkStep(w, q, parent)]
  BY <1>1
<1>3. WalkFrom(parent) = [q \in Paths(parent) |-> WalkStep(WalkFrom(parent), q, parent)]
  BY <1>2, Zenon DEF WalkFrom
<1> QED
  BY <1>3

LEMMA SelectedIndex ==
  ASSUME NEW p, Len(p) \in Nat, NEW next, NEW i \in 1..Len(p), p[i] = next
  PROVE  \E k \in 1..Len(p) : SelectInSeq(p, LAMBDA c : c = next) = k /\ p[k] = next
<1> DEFINE I == {j \in 1..Len(p) : p[j] = next}
<1>1. SelectInSeq(p, LAMBDA c : c = next) = IF I # {} THEN Min(I) ELSE 0
  BY DEF SelectInSeq
<1>2. i \in I /\ I \in SUBSET Nat
  OBVIOUS
<1>3. Min(I) \in I
  <2> HIDE DEF I
  <2>1. \E m \in I : \A k \in I : m <= k
    BY <1>2, LeastNatural
  <2> QED
    BY <2>1 DEF Min
<1> QED
  BY <1>1, <1>2, <1>3

\* A cycle of parents, from a code back to it.
IsCycle(r, parent) ==
  /\ r \in Paths(parent) /\ Len(r) >= 2 /\ r[1] = r[Len(r)]
  /\ \A i \in 2..Len(r) : r[i] = parent[r[i - 1]]

IsChain(p, parent) ==
  /\ \A i, j \in 1..Len(p) : p[i] = p[j] => i = j
  /\ \A i \in 2..Len(p) : p[i] = parent[p[i - 1]]

LEMMA RepeatedIsCycle ==
  ASSUME NEW parent, NEW p \in Paths(parent), IsChain(p, parent),
         NEW next, next = parent[p[Len(p)]], NEW i \in 1..Len(p), p[i] = next
  PROVE  IsCycle(Repeated(p, next), parent)
<1>1. Len(p) \in Nat \ {0} /\ p \in Seq(DOMAIN parent) /\ next \in DOMAIN parent
  BY PathFacts DEF Paths
<1>2. PICK k \in 1..Len(p) : SelectInSeq(p, LAMBDA c : c = next) = k /\ p[k] = next
  BY <1>1, SelectedIndex
<1>3. PICK s : s = SubSeq(p, k, Len(p))
  OBVIOUS
<1>4. PICK n \in Nat : n = Len(p) - k + 1
  <2>1. Len(p) - k + 1 \in Nat
    BY <1>1
  <2> QED
    BY <2>1
<1>5. /\ s \in Seq(DOMAIN parent) /\ Len(s) = n
      /\ \A j \in 1..n : s[j] = p[k + j - 1]
  BY <1>1, <1>3, <1>4, SubSeqProperties
<1>6. PICK r : r = Append(s, next)
  OBVIOUS
<1>7. /\ r \in Seq(DOMAIN parent) /\ Len(r) = n + 1 /\ r[n + 1] = next
      /\ \A j \in 1..n : r[j] = p[k + j - 1]
  BY <1>1, <1>5, <1>6
<1>8. Repeated(p, next) = r
  BY <1>2, <1>3, <1>6 DEF Repeated
<1>9. n >= 1 /\ r # <<>>
  BY <1>1, <1>4, <1>7
<1>10. r[1] = r[Len(r)]
  <2>1. 1 \in 1..n /\ k + 1 - 1 = k
    BY <1>4, <1>9
  <2> QED
    BY <1>2, <1>7, <2>1
<1>11. ASSUME NEW j \in 2..Len(r)
       PROVE  r[j] = parent[r[j - 1]]
  <2>1. j \in Nat /\ j - 1 \in 1..n /\ j <= n + 1 /\ k \in Nat
    BY <1>4, <1>7
  <2>2. r[j - 1] = p[k + (j - 1) - 1]
    BY <1>7, <2>1
  <2>3. CASE j = n + 1
    <3>1. k + (j - 1) - 1 = Len(p)
      BY <1>1, <1>4, <2>1, <2>3
    <3> QED
      BY <1>7, <2>2, <2>3, <3>1
  <2>4. CASE j # n + 1
    <3>1. j \in 1..n /\ k + j - 1 \in 2..Len(p) /\ (k + j - 1) - 1 = k + (j - 1) - 1
      BY <1>1, <1>4, <2>1, <2>4
    <3>2. p[k + j - 1] = parent[p[(k + j - 1) - 1]]
      BY <3>1 DEF IsChain
    <3>3. r[j] = p[k + j - 1]
      BY <1>7, <3>1
    <3> QED
      BY <2>2, <3>1, <3>2, <3>3
  <2> QED
    BY <2>3, <2>4
<1>12. Len(r) >= 2
  BY <1>7, <1>9
<1> QED
  BY <1>7, <1>8, <1>9, <1>10, <1>11, <1>12 DEF IsCycle, Paths

LEMMA ChainIsShort ==
  ASSUME NEW parent, IsParentMap(parent), NEW p \in Paths(parent), IsChain(p, parent)
  PROVE  Cardinality(DOMAIN parent) \in Nat /\ Len(p) <= Cardinality(DOMAIN parent)
<1>1. Len(p) \in Nat \ {0} /\ p \in Seq(DOMAIN parent)
  BY PathFacts DEF Paths
<1>2. p \in Injection(1..Len(p), DOMAIN parent)
  <2>1. p \in [1..Len(p) -> DOMAIN parent]
    BY <1>1
  <2> QED
    BY <2>1 DEF Injection, IsInjective, IsChain
<1>3. IsFiniteSet(DOMAIN parent)
  BY DEF IsParentMap
<1>4. Cardinality(1..Len(p)) <= Cardinality(DOMAIN parent)
  BY <1>2, <1>3, FS_Injection
<1>5. Cardinality(1..Len(p)) = Len(p)
  BY <1>1, FS_Interval
<1> QED
  BY <1>3, <1>4, <1>5, FS_CardinalityType

Closed(nodes, parent) ==
  nodes \subseteq DOMAIN parent /\ \A c \in nodes : parent[c] \in nodes

\* What the walk from p, a chain, tells of the chart.
Tells(p, parent) ==
  LET r == WalkFrom(parent)[p]
  IN /\ r # <<>> => IsCycle(r, parent)
     /\ \A nodes : Closed(nodes, parent) /\ p[Len(p)] \in nodes => r # <<>>

LEMMA HaltedTells ==
  ASSUME NEW parent, IsParentMap(parent), NEW p \in Paths(parent), IsChain(p, parent),
         Halts(p, parent)
  PROVE  Tells(p, parent)
<1>1. PICK next, r : next = parent[p[Len(p)]] /\ r = WalkFrom(parent)[p]
  OBVIOUS
<1>2. Last(p) = p[Len(p)] /\ \A c : c \in Range(p) <=> \E i \in 1..Len(p) : p[i] = c
  BY PathFacts
<1>3. next = None \/ next \in Range(p)
  BY <1>1, <1>2 DEF Halts
<1>4. WalkFrom(parent)[p] = WalkStep(WalkFrom(parent), p, parent)
  BY WalkFromStep
<1>5. r = IF next = None THEN <<>>
          ELSE IF next \in Range(p) THEN Repeated(p, next)
          ELSE WalkFrom(parent)[Append(p, next)]
  BY <1>1, <1>2, <1>4 DEF WalkStep
<1>6. CASE next = None
  <2>1. \A nodes : Closed(nodes, parent) => p[Len(p)] \notin nodes
    BY <1>1, <1>6 DEF Closed, IsParentMap
  <2> QED
    BY <1>1, <1>5, <1>6, <2>1 DEF Tells
<1>7. CASE next # None
  <2>1. PICK i \in 1..Len(p) : p[i] = next
    BY <1>2, <1>3, <1>7
  <2>2. IsCycle(r, parent)
    BY <1>1, <1>3, <1>5, <1>7, <2>1, RepeatedIsCycle
  <2>3. r # <<>>
    BY <2>2 DEF IsCycle, Paths
  <2> QED
    BY <1>1, <2>2, <2>3 DEF Tells
<1> QED
  BY <1>6, <1>7

LEMMA UnhaltedTells ==
  ASSUME NEW parent, IsParentMap(parent), NEW p \in Paths(parent), IsChain(p, parent),
         ~Halts(p, parent)
  PROVE  \E more \in Paths(parent) :
           /\ Len(more) = Len(p) + 1 /\ IsChain(more, parent)
           /\ Tells(more, parent) => Tells(p, parent)
<1>1. PICK next, more : next = parent[p[Len(p)]] /\ more = Append(p, next)
  OBVIOUS
<1>2. /\ Len(p) \in Nat /\ Len(p) \in 1..Len(p) /\ p[Len(p)] \in DOMAIN parent
      /\ Last(p) = p[Len(p)]
  BY PathFacts
<1>3. more \in Paths(parent)
  BY <1>1, NextPath
<1>4. Len(more) = Len(p) + 1
  BY <1>1, NextPath
<1>5. \A i \in 1..Len(p) : more[i] = p[i]
  BY <1>1, NextPath
<1>6. more[Len(p) + 1] = next
  BY <1>1, NextPath
<1>7. \A i \in 1..Len(p) : p[i] # next
  BY <1>1 DEF Halts
<1>8. next # None /\ next \notin Range(p)
  BY <1>1, PathFacts DEF Halts
<1>9. IsChain(more, parent)
  <2>1. /\ \A i, j \in 1..Len(p) : p[i] = p[j] => i = j
        /\ \A i \in 2..Len(p) : p[i] = parent[p[i - 1]]
    BY DEF IsChain
  <2>2. ASSUME NEW i \in 1..Len(more), NEW j \in 1..Len(more), more[i] = more[j]
        PROVE  i = j
    <3>1. (i \in 1..Len(p) \/ i = Len(p) + 1) /\ (j \in 1..Len(p) \/ j = Len(p) + 1)
      BY <1>2, <1>4
    <3> QED
      BY <1>5, <1>6, <1>7, <2>1, <2>2, <3>1
  <2>3. ASSUME NEW i \in 2..Len(more)
        PROVE  more[i] = parent[more[i - 1]]
    <3>1. CASE i = Len(p) + 1
      <4>1. i - 1 = Len(p)
        BY <1>2, <3>1
      <4> QED
        BY <1>1, <1>2, <1>5, <1>6, <3>1, <4>1
    <3>2. CASE i # Len(p) + 1
      <4>1. i \in 2..Len(p) /\ i \in 1..Len(p) /\ i - 1 \in 1..Len(p)
        BY <1>2, <1>4, <3>2
      <4> QED
        BY <1>5, <2>1, <4>1
    <3> QED
      BY <3>1, <3>2
  <2> QED
    BY <2>2, <2>3 DEF IsChain
<1>10. WalkFrom(parent)[p] = WalkFrom(parent)[more]
  <2>1. WalkFrom(parent)[p] = WalkStep(WalkFrom(parent), p, parent)
    BY WalkFromStep
  <2> QED
    BY <1>1, <1>2, <1>8, <2>1 DEF WalkStep
<1>11. ASSUME NEW nodes, Closed(nodes, parent), p[Len(p)] \in nodes
       PROVE  more[Len(more)] \in nodes
  BY <1>1, <1>4, <1>6, <1>11 DEF Closed
<1>12. Tells(more, parent) => Tells(p, parent)
  BY <1>10, <1>11 DEF Tells
<1> QED
  BY <1>3, <1>4, <1>9, <1>12

LEMMA ChainsTell ==
  ASSUME NEW parent, IsParentMap(parent), NEW p \in Paths(parent), IsChain(p, parent)
  PROVE  Tells(p, parent)
<1> DEFINE n    == Cardinality(DOMAIN parent)
           Good == {m \in 0..(n + 1) : \A q \in Paths(parent) :
                      IsChain(q, parent) /\ Len(q) + m = n + 1 => Tells(q, parent)}
<1>1. n \in Nat /\ \A q \in Paths(parent) : IsChain(q, parent) => Len(q) <= n
  BY ChainIsShort
<1>2. \A q \in Paths(parent) : Len(q) \in Nat
  BY PathFacts
<1> HIDE DEF n
<1>3. 0 \in Good
  BY <1>1, <1>2
<1>4. ASSUME NEW m \in 0..(n + 1), m + 1 \in 0..(n + 1), m \in Good
      PROVE  m + 1 \in Good
  <2> SUFFICES ASSUME NEW q \in Paths(parent), IsChain(q, parent), Len(q) + (m + 1) = n + 1
               PROVE  Tells(q, parent)
    BY <1>4
  <2>1. CASE Halts(q, parent)
    BY <2>1, HaltedTells
  <2>2. CASE ~Halts(q, parent)
    <3>1. PICK more \in Paths(parent) :
            /\ Len(more) = Len(q) + 1 /\ IsChain(more, parent)
            /\ Tells(more, parent) => Tells(q, parent)
      BY <2>2, UnhaltedTells
    <3>2. Len(more) + m = n + 1
      BY <1>1, <1>2, <3>1
    <3> QED
      BY <1>4, <3>1, <3>2
  <2> QED
    BY <2>1, <2>2
<1>5. \A m \in 0..(n + 1) : m \in Good
  <2> HIDE DEF Good
  <2> QED
    BY <1>1, <1>3, <1>4, InductionTo
<1>6. PICK m \in 0..(n + 1) : Len(p) + m = n + 1
  <2>1. (n + 1) - Len(p) \in 0..(n + 1) /\ Len(p) + ((n + 1) - Len(p)) = n + 1
    BY <1>1, <1>2
  <2> QED
    BY <2>1
<1> QED
  BY <1>5, <1>6

\* Every walk of the validation, and what comes of it.
LEMMA WalksOfChart ==
  ASSUME NEW parent, IsParentMap(parent), NEW code \in DOMAIN parent,
         NEW r, r = FindAccountCycle(code, parent)
  PROVE  /\ r # <<>> => IsCycle(r, parent)
         /\ \A nodes : Closed(nodes, parent) /\ code \in nodes => r # <<>>
<1>1. PICK p : p = <<code>>
  OBVIOUS
<1>2. p \in Paths(parent) /\ Len(p) = 1 /\ p[1] = code
  BY <1>1 DEF Paths
<1>3. IsChain(p, parent)
  <2>1. 1..1 = {1} /\ 2..1 = {}
    OBVIOUS
  <2> QED
    BY <1>2, <2>1 DEF IsChain
<1>4. Tells(p, parent)
  BY <1>2, <1>3, ChainsTell
<1>5. r = WalkFrom(parent)[p]
  BY <1>1, FindAccountCycleWalks
<1> QED
  BY <1>2, <1>4, <1>5 DEF Tells

LEMMA ParentMapOfChart ==
  ASSUME NEW chart \in Charts, ParentsExist(chart)
  PROVE  IsParentMap(ParentMap(chart)) /\ DOMAIN ParentMap(chart) = CodesOf(chart)
<1>1. DOMAIN ParentMap(chart) = CodesOf(chart)
  BY DEF ParentMap
<1>2. PICK n \in Nat : chart \in [1..n -> Account]
  <2>1. PICK n \in 0..MaxAccounts : chart \in [1..n -> Account]
    BY DEF Charts, SeqOf
  <2> QED
    BY <2>1
<1>3. IsFiniteSet(CodesOf(chart))
  <2>1. PICK f : f = [i \in 1..n |-> chart[i].code]
    OBVIOUS
  <2>2. DOMAIN chart = 1..n
    BY <1>2
  <2>3. CodesOf(chart) = {chart[i].code : i \in 1..n}
    BY <2>2 DEF CodesOf
  <2>4. f \in [1..n -> CodesOf(chart)]
    BY <2>1, <2>3
  <2>5. \A c \in CodesOf(chart) : \E i \in 1..n : f[i] = c
    BY <2>1, <2>3
  <2>6. f \in Surjection(1..n, CodesOf(chart))
    BY <2>4, <2>5 DEF Surjection
  <2>7. IsFiniteSet(1..n)
    BY FS_Interval
  <2> QED
    BY <2>6, <2>7, FS_Surjection
<1>4. None \notin CodesOf(chart)
  BY <1>2, CoreModelsAssumption DEF CodesOf, Account
<1>5. ASSUME NEW code \in CodesOf(chart)
      PROVE  ParentMap(chart)[code] \in CodesOf(chart) \cup {None}
  <2>1. PICK at : at = CHOOSE i \in DOMAIN chart : chart[i].code = code
    OBVIOUS
  <2>2. \E i \in DOMAIN chart : chart[i].code = code
    BY DEF CodesOf
  <2>3. at \in DOMAIN chart
    BY <2>1, <2>2
  <2>4. ParentMap(chart)[code] = chart[at].parent
    BY <2>1 DEF ParentMap
  <2> QED
    BY <2>3, <2>4 DEF ParentsExist
<1> QED
  BY <1>1, <1>3, <1>4, <1>5 DEF IsParentMap

\* detect_account_cycles finds something exactly when some codes lead on to
\* each other for ever.
LEMMA HasCycleOfChart ==
  ASSUME NEW chart \in Charts, ParentsExist(chart)
  PROVE  HasCycle(AccountDependencyMap(chart))
           <=> \E nodes : nodes # {} /\ Closed(nodes, ParentMap(chart))
<1>1. PICK parent, graph : parent = ParentMap(chart) /\ graph = AccountDependencyMap(chart)
  OBVIOUS
<1>2. /\ DOMAIN graph = CodesOf(chart) /\ DOMAIN parent = CodesOf(chart)
      /\ None \notin CodesOf(chart)
      /\ \A c \in CodesOf(chart) : graph[c] = {parent[c]} \ {None}
  BY <1>1, ParentMapOfChart DEF AccountDependencyMap, IsParentMap
<1>3. ASSUME NEW nodes, nodes \subseteq CodesOf(chart)
      PROVE  (\A c \in nodes : graph[c] \cap nodes # {}) <=> (\A c \in nodes : parent[c] \in nodes)
  BY <1>2, <1>3
<1>4. HasCycle(graph)
        <=> \E nodes \in SUBSET CodesOf(chart) :
              nodes # {} /\ \A c \in nodes : graph[c] \cap nodes # {}
  BY <1>2 DEF HasCycle
<1>5. HasCycle(graph)
        <=> \E nodes : nodes # {} /\ nodes \subseteq CodesOf(chart)
                       /\ \A c \in nodes : parent[c] \in nodes
  BY <1>3, <1>4
<1> QED
  BY <1>1, <1>2, <1>5 DEF Closed

LEMMA CycleIsClosed ==
  ASSUME NEW parent, NEW r, IsCycle(r, parent)
  PROVE  \E nodes : nodes # {} /\ Closed(nodes, parent)
<1>1. /\ r \in Paths(parent) /\ Len(r) >= 2 /\ r[1] = r[Len(r)]
      /\ \A i \in 2..Len(r) : r[i] = parent[r[i - 1]]
  BY DEF IsCycle
<1>2. Len(r) \in Nat /\ \A i \in 1..Len(r) : r[i] \in DOMAIN parent
  BY <1>1, PathFacts
<1>3. PICK nodes : nodes = {r[i] : i \in 1..Len(r)}
  OBVIOUS
<1>4. \A i \in 2..Len(r) : i \in 1..Len(r)
  BY <1>2
<1>5. 1 \in 1..Len(r) /\ 2 \in 2..Len(r) /\ 2 - 1 = 1
  BY <1>1, <1>2
<1>6. ASSUME NEW i \in 1..Len(r)
      PROVE  parent[r[i]] \in nodes
  <2>1. CASE i = Len(r)
    <3>1. r[2] = parent[r[1]]
      BY <1>1, <1>5
    <3> QED
      BY <1>1, <1>3, <1>4, <1>5, <2>1, <3>1
  <2>2. CASE i # Len(r)
    <3>1. i + 1 \in 2..Len(r) /\ (i + 1) - 1 = i
      BY <1>2, <2>2
    <3>2. r[i + 1] = parent[r[i]]
      BY <1>1, <3>1
    <3> QED
      BY <1>3, <1>4, <3>1, <3>2
  <2> QED
    BY <2>1, <2>2
<1>7. nodes # {} /\ nodes \subseteq DOMAIN parent /\ \A c \in nodes : parent[c] \in nodes
  BY <1>2, <1>3, <1>5, <1>6
<1> QED
  BY <1>7 DEF Closed

LEMMA WalksFindCycles ==
  ASSUME NEW chart \in Charts, ParentsExist(chart)
  PROVE  (\A code \in CodesOf(chart) : FindAccountCycle(code, ParentMap(chart)) = <<>>)
           <=> ~HasCycle(AccountDependencyMap(chart))
<1>1. PICK parent : parent = ParentMap(chart)
  OBVIOUS
<1>2. IsParentMap(parent) /\ DOMAIN parent = CodesOf(chart)
  BY <1>1, ParentMapOfChart
<1>3. HasCycle(AccountDependencyMap(chart)) <=> \E nodes : nodes # {} /\ Closed(nodes, parent)
  BY <1>1, HasCycleOfChart
<1>4. ASSUME NEW nodes, nodes # {}, Closed(nodes, parent)
      PROVE  \E code \in CodesOf(chart) : FindAccountCycle(code, parent) # <<>>
  <2>1. PICK code \in nodes : code \in CodesOf(chart)
    BY <1>2, <1>4 DEF Closed
  <2>2. FindAccountCycle(code, parent) # <<>>
    BY <1>2, <1>4, <2>1, WalksOfChart
  <2> QED
    BY <2>1, <2>2
<1>5. ASSUME NEW code \in CodesOf(chart), FindAccountCycle(code, parent) # <<>>
      PROVE  \E nodes : nodes # {} /\ Closed(nodes, parent)
  <2>1. PICK r : r = FindAccountCycle(code, parent)
    OBVIOUS
  <2>2. IsCycle(r, parent)
    BY <1>2, <1>5, <2>1, WalksOfChart
  <2> QED
    BY <2>2, CycleIsClosed
<1> QED
  BY <1>1, <1>3, <1>4, <1>5

\* The enforcement of Book.__post_init__ and the diagnostics of core/validation
\* agree on a chart of any size, and a refusal names a real cycle of parents.
THEOREM ChartsAreForestsHolds == ModelsInit => ChartsAreForests
<1> SUFFICES ASSUME ModelsInit, given.of = "accounts"
             PROVE  ChartsAreForests
  BY DEF ChartsAreForests
<1>1. given.value \in Charts
  BY DEF ModelsInit, Arguments
<1>2. PICK chart : chart = given.value
  OBVIOUS
<1>3. ValidAccountCollection(chart)
        <=> /\ UniqueCodes(chart)
            /\ ParentsExist(chart)
            /\ ~HasCycle(AccountDependencyMap(chart))
  BY <1>1, <1>2, WalksFindCycles DEF ValidAccountCollection
<1>4. ASSUME ParentsExist(chart), NEW code \in CodesOf(chart), NEW path,
             path = FindAccountCycle(code, ParentMap(chart)), path # <<>>
      PROVE  /\ Last(path) = Head(path)
             /\ \A n \in 2..Len(path) : path[n] = ParentMap(chart)[path[n - 1]]
  <2>1. PICK parent : parent = ParentMap(chart)
    OBVIOUS
  <2>2. IsParentMap(parent) /\ DOMAIN parent = CodesOf(chart)
    BY <1>1, <1>2, <1>4, <2>1, ParentMapOfChart
  <2>3. IsCycle(path, parent)
    BY <1>4, <2>1, <2>2, WalksOfChart
  <2>4. path \in Seq(DOMAIN parent)
    BY <2>3 DEF IsCycle, Paths
  <2>5. Head(path) = path[1] /\ Last(path) = path[Len(path)]
    BY <1>4, <2>4 DEF Last
  <2> QED
    BY <2>1, <2>3, <2>5 DEF IsCycle
<1>5. ParentsExist(chart) =>
        \A code \in CodesOf(chart) :
          FindAccountCycle(code, ParentMap(chart)) # <<>> =>
            /\ Last(FindAccountCycle(code, ParentMap(chart)))
                 = Head(FindAccountCycle(code, ParentMap(chart)))
            /\ \A n \in 2..Len(FindAccountCycle(code, ParentMap(chart))) :
                 FindAccountCycle(code, ParentMap(chart))[n]
                   = ParentMap(chart)[FindAccountCycle(code, ParentMap(chart))[n - 1]]
  BY <1>4
<1> QED
  BY <1>2, <1>3, <1>5, Zenon DEF ChartsAreForests
=============================================================================
