------------------------------- MODULE Ledger -------------------------------
(***************************************************************************)
(* What SqliteLedgerStore promises: an append-only ledger in which every   *)
(* accepted write is one indivisible step, whatever threads, locks, row    *)
(* inserts, errors and crashes lie underneath.  A write that is not        *)
(* accepted has no step here, because it must leave no trace.              *)
(*                                                                         *)
(* SqliteLedgerStore.tla is the implementation; StoreReads.tla reads this  *)
(* ledger.                                                                 *)
(***************************************************************************)
EXTENDS LedgerData, SequencesExt

CONSTANTS Requests,       \* the write requests that callers make
          MaxLegislative  \* bound: the most legislative rows the audit log takes

ASSUME LedgerAssumption ==
  /\ Requests \subseteq Request
  /\ MaxLegislative \in Nat

VARIABLE ledger

-----------------------------------------------------------------------------
(* The conditions under which a write is accepted.                         *)

\* A row the schema's CHECK constraints let in.
Printable(tx) == \A i \in DOMAIN tx.lines : tx.lines[i].amount # NegativeZero

AccountCodes(d) == {r.key[1] : r \in RowsOf(d, "accounts")}

KnownAccounts(d, tx) ==
  /\ AccountCodes(d) # {}
  /\ \A i \in DOMAIN tx.lines : tx.lines[i].account \in AccountCodes(d)

CanCreate(d, r) ==
  /\ ValidBook(r.accounts, r.periods, r.transactions)
  /\ ~HasRow(d, "books", <<>>)
  /\ \A i, j \in DOMAIN r.transactions :
       i # j => r.transactions[i].ref # r.transactions[j].ref
  /\ \A tx \in Range(r.transactions) : Printable(tx)

CanAppend_AccountsUnchecked(d, tx) ==
  /\ ValidJournal(tx)
  /\ tx.state = "posted"
  /\ AccountCodes(d) # {}
  /\ ~HasTransaction(d, tx.ref)
  /\ Printable(tx)

CanAppend_Drafts(d, tx) ==
  /\ ValidJournal(tx)
  /\ KnownAccounts(d, tx)
  /\ ~HasTransaction(d, tx.ref)
  /\ Printable(tx)

CanAppend(d, tx) ==
  /\ ValidJournal(tx)
  /\ tx.state = "posted"
  /\ KnownAccounts(d, tx)
  /\ ~HasTransaction(d, tx.ref)
  /\ Printable(tx)

CanReverse(d, original, reversal) ==
  /\ HasTransaction(d, original)
  /\ ~IsReversed(d, original)
  /\ ~HasTransaction(d, reversal)

\* All the rows of a request, in the order they are inserted.
AllRows(d, r) ==
  CASE r.op = "create_book" ->
         MasterRows(r.accounts, r.periods)
           \o FlattenSeq([i \in DOMAIN r.transactions |-> TransactionRows(r.transactions[i])])
    [] r.op = "append_transaction" -> TransactionRows(r.tx)
    [] r.op = "append_reversal" -> TransactionRows(ReversalOf(d, r.original, r.reversal))
    [] r.op = "append_legislative_result" -> <<LegislativeRow(r.ref)>>

LegislativeCount(d) ==
  Cardinality({i \in DOMAIN d.audit : d.audit[i].table = "legislative_validation"})

-----------------------------------------------------------------------------
Init == ledger = EmptyDatabase

\* Rows and their audit rows become visible together.
Commit_TriggerMissing(rows, actor) ==
  ledger' = [rows |-> ledger.rows \cup {row \in Range(rows) : row.table \in CoreTables},
             audit |-> ledger.audit \o [i \in 1..(Len(rows) - 1) |-> Signed(rows[i], actor)]]

Commit(rows, actor) ==
  ledger' = [rows |-> ledger.rows \cup {row \in Range(rows) : row.table \in CoreTables},
             audit |-> ledger.audit \o [i \in DOMAIN rows |-> Signed(rows[i], actor)]]

CreateBook(r) ==
  /\ r.op = "create_book"
  /\ CanCreate(ledger, r)
  /\ Commit(AllRows(ledger, r), r.actor)

AppendTransaction(r) ==
  /\ r.op = "append_transaction"
  /\ CanAppend(ledger, r.tx)
  /\ Commit(AllRows(ledger, r), r.actor)

AppendReversal(r) ==
  /\ r.op = "append_reversal"
  /\ CanReverse(ledger, r.original, r.reversal)
  /\ Commit(AllRows(ledger, r), r.actor)

\* Neither the book nor the transaction of a legislative result is looked up.
AppendLegislativeResult(r) ==
  /\ r.op = "append_legislative_result"
  /\ LegislativeCount(ledger) < MaxLegislative
  /\ Commit(AllRows(ledger, r), r.actor)

Next == \E r \in Requests : \/ CreateBook(r)
                            \/ AppendTransaction(r)
                            \/ AppendReversal(r)
                            \/ AppendLegislativeResult(r)

Spec == Init /\ [][Next]_ledger

-----------------------------------------------------------------------------
(* Properties.                                                             *)

\* No half-written journal is ever visible: each stored transaction has its
\* entries numbered without a gap, they balance in every currency, and every
\* stored entry belongs to a stored transaction and a stored account of an
\* existing book (append_transaction, append_reversal, create_book).
WholeJournals ==
  /\ \A h \in RowsOf(ledger, "transactions") :
       LET lines == LinesOf(ledger, h.key[1])
       IN /\ \A n \in DOMAIN lines : n = 1 \/ n - 1 \in DOMAIN lines
          /\ Balanced(lines)
          /\ HasRow(ledger, "books", <<>>)
  /\ \A e \in RowsOf(ledger, "entries") :
       /\ HasTransaction(ledger, e.key[1])
       /\ HasRow(ledger, "accounts", <<e.data.account, 1>>)

\* The audit log is a faithful second copy of the ledger: each row of the five
\* tables was signed exactly once, and nothing was signed that is not there.
AuditedOnce ==
  /\ \A row \in ledger.rows :
       \E i \in DOMAIN ledger.audit :
         /\ Signed(row, ledger.audit[i].actor) = ledger.audit[i]
         /\ \A j \in DOMAIN ledger.audit :
              Signed(row, ledger.audit[j].actor) = ledger.audit[j] => i = j
  /\ \A i \in DOMAIN ledger.audit :
       \/ ledger.audit[i].table = "legislative_validation"
       \/ HasRow(ledger, ledger.audit[i].table, ledger.audit[i].key)

Reversals(d) == {h \in RowsOf(d, "transactions") : h.data.note = "reversal"}

SameButSides(lines1, lines2) ==
  /\ DOMAIN lines1 = DOMAIN lines2
  /\ \A i \in DOMAIN lines1 : /\ lines1[i].side # lines2[i].side
                               /\ lines1[i] = [lines2[i] EXCEPT !.side = lines1[i].side]

\* A reversal cancels its original exactly: the same lines with the opposite
\* sides, in the same period.
ReversalsCancel ==
  \A h \in Reversals(ledger) :
    /\ HasTransaction(ledger, h.data.of)
    /\ SameButSides(LinesOf(ledger, h.key[1]), LinesOf(ledger, h.data.of))
    /\ h.data.period = HeaderOf(ledger, h.data.of).period

\* load_book succeeds on every book the ledger holds: the stored rows satisfy
\* the domain model they are loaded into.
StoredBookLoads ==
  \A h \in RowsOf(ledger, "transactions") :
    /\ h.data.state = "posted"
    /\ h.data.period = None \/ HasRow(ledger, "periods", <<h.data.period, 1>>)
=============================================================================
