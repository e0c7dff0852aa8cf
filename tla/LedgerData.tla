----------------------------- MODULE LedgerData -----------------------------
(***************************************************************************)
(* The data the FinestVX ledger is made of, shared by every module that    *)
(* models the persistence layer: journal transactions as the domain model  *)
(* builds them (core/models.py), the SQLite rows they become               *)
(* (persistence/schema.py) and the append-only database those rows form.   *)
(*                                                                         *)
(* One book is modelled: every statement of store.py selects on book_code, *)
(* so the books of a file share nothing but the audit log.                 *)
(***************************************************************************)
EXTENDS Integers, Sequences, FiniteSets, Functions

CONSTANTS Refs,          \* transaction references
          Accounts,      \* account codes
          Periods,       \* fiscal periods
          Currencies,    \* currency codes
          Actors,        \* audit actors
          NegativeZero,  \* the amount Decimal("-0"): not negative, printed with a minus
          None           \* SQL NULL, Python None

ASSUME LedgerDataAssumption ==
  /\ None \notin Refs \cup Periods \cup Actors
  /\ NegativeZero \notin Nat

-----------------------------------------------------------------------------
(* Journal transactions.                                                   *)

Sides == {"Dr", "Cr"}
Amounts == Nat \cup {NegativeZero}
Line == [account: Accounts, side: Sides, amount: Amounts, currency: Currencies]

\* note is the description column: the caller's own words, or "Reversal of ..."
Journal == [ref: Refs, lines: Seq(Line), period: Periods \cup {None},
            of: Refs \cup {None}, note: {"caller", "reversal"},
            state: {"draft", "posted", "reversed"}]

Value(amount) == IF amount = NegativeZero THEN 0 ELSE amount

SideTotal(lines, currency, side) ==
  SumFunctionOnSet([i \in DOMAIN lines |-> Value(lines[i].amount)],
                   {i \in DOMAIN lines : /\ lines[i].currency = currency
                                         /\ lines[i].side = side})

\* At least two entries, and debits equal credits in every currency.
Balanced(lines) ==
  /\ \E i, j \in DOMAIN lines : i # j
  /\ \A c \in Currencies : SideTotal(lines, c, "Dr") = SideTotal(lines, c, "Cr")

\* What JournalTransaction(...) accepts.
ValidJournal(tx) ==
  /\ tx.of # tx.ref
  /\ tx.state = "posted" => Balanced(tx.lines)

\* What Book(...) accepts: the references need not be distinct.
ValidBook(accounts, periods, transactions) ==
  /\ IsInjective(accounts)
  /\ IsInjective(periods)
  /\ \A tx \in Range(transactions) :
       /\ ValidJournal(tx)
       /\ tx.state = "posted"
       /\ \A i \in DOMAIN tx.lines : tx.lines[i].account \in Range(accounts)
       /\ tx.period \in Range(periods) \cup {None}

-----------------------------------------------------------------------------
(* Rows, and the database they form.                                       *)

CoreTables == {"books", "accounts", "periods", "transactions", "entries"}

Header == [period: Periods \cup {None}, of: Refs \cup {None},
           note: {"caller", "reversal"}, state: {"draft", "posted", "reversed"}]

Row == [table: {"books"}, key: {<<>>}, data: {None}]
  \cup [table: {"accounts"}, key: Accounts \X {1}, data: {None}]
  \cup [table: {"periods"}, key: Periods \X {1}, data: {None}]
  \cup [table: {"transactions"}, key: Refs \X {0}, data: Header]
  \cup [table: {"entries"}, key: Refs \X (Nat \ {0}), data: Line]
  \cup [table: {"legislative_validation"}, key: Refs \X {0}, data: {None}]

AuditRow == [table: CoreTables \cup {"legislative_validation"},
             key: {<<>>} \cup (Accounts \X {1}) \cup (Periods \X {1}) \cup (Refs \X Nat),
             actor: Actors \cup {None}]

BookRow == [table |-> "books", key |-> <<>>, data |-> None]
AccountRow(a) == [table |-> "accounts", key |-> <<a, 1>>, data |-> None]
PeriodRow(p) == [table |-> "periods", key |-> <<p, 1>>, data |-> None]
HeaderRow(tx) ==
  [table |-> "transactions", key |-> <<tx.ref, 0>>,
   data |-> [period |-> tx.period, of |-> tx.of, note |-> tx.note, state |-> tx.state]]
EntryRow(tx, i) == [table |-> "entries", key |-> <<tx.ref, i>>, data |-> tx.lines[i]]
LegislativeRow(ref) == [table |-> "legislative_validation", key |-> <<ref, 0>>, data |-> None]

TransactionRows_LastEntryLost(tx) ==
  [n \in 1..Len(tx.lines) |-> IF n = 1 THEN HeaderRow(tx) ELSE EntryRow(tx, n - 1)]

\* The rows of one transaction in the order they are inserted; the code counts
\* line_no from 0, the model from 1.
TransactionRows(tx) ==
  [n \in 1..(Len(tx.lines) + 1) |-> IF n = 1 THEN HeaderRow(tx) ELSE EntryRow(tx, n - 1)]

\* The rows of a book before its opening transactions.
MasterRows(accounts, periods) ==
  <<BookRow>> \o [i \in DOMAIN accounts |-> AccountRow(accounts[i])]
              \o [i \in DOMAIN periods |-> PeriodRow(periods[i])]

\* A database: the rows of the five append-only tables, and the audit log,
\* whose seq numbers are the positions of the sequence.
EmptyDatabase == [rows |-> {}, audit |-> <<>>]
Database == [rows: SUBSET {r \in Row : r.table \in CoreTables}, audit: Seq(AuditRow)]

RowsOf(d, table) == {r \in d.rows : r.table = table}
HasRow(d, table, key) == \E r \in d.rows : r.table = table /\ r.key = key

\* The AFTER INSERT trigger of a table signs the row with the audit context.
Signed(row, actor) == [table |-> row.table, key |-> row.key, actor |-> actor]

\* The stored entries of a transaction, by line number.
LinesOf(d, ref) ==
  LET stored == {r \in RowsOf(d, "entries") : r.key[1] = ref}
  IN [n \in {r.key[2] : r \in stored} |-> (CHOOSE r \in stored : r.key[2] = n).data]

HeaderOf(d, ref) == (CHOOSE r \in RowsOf(d, "transactions") : r.key[1] = ref).data

HasTransaction(d, ref) == HasRow(d, "transactions", <<ref, 0>>)

IsReversed_StateOnly(d, ref) ==
  \E r \in RowsOf(d, "transactions") : r.data.of = ref /\ r.data.state = "reversed"

IsReversed(d, ref) == \E r \in RowsOf(d, "transactions") : r.data.of = ref

Opposite(side) == IF side = "Dr" THEN "Cr" ELSE "Dr"
Inverted_SidesKept(lines) == lines

Inverted(lines) == [i \in DOMAIN lines |-> [lines[i] EXCEPT !.side = Opposite(@)]]

\* The transaction append_reversal builds from the stored original.
ReversalOf(d, original, reversal) ==
  [ref |-> reversal, lines |-> Inverted(LinesOf(d, original)),
   period |-> HeaderOf(d, original).period, of |-> original,
   note |-> "reversal", state |-> "posted"]

-----------------------------------------------------------------------------
(* The write requests a store accepts.                                     *)

\* A transaction that a caller describes in its own words.
CallerJournal == {tx \in Journal : tx.note = "caller"}

CreateBookRequest == [op: {"create_book"}, accounts: Seq(Accounts), periods: Seq(Periods),
                      transactions: Seq(CallerJournal), actor: Actors]
AppendRequest == [op: {"append_transaction"}, tx: CallerJournal, actor: Actors]
ReversalRequest == [op: {"append_reversal"}, original: Refs, reversal: Refs, actor: Actors]
LegislativeRequest == [op: {"append_legislative_result"}, ref: Refs, actor: Actors]
Request == CreateBookRequest \cup AppendRequest \cup ReversalRequest \cup LegislativeRequest

\* A request as a caller can build it: the frozen dataclasses validate their
\* fields when they are constructed.
Constructible(r) ==
  /\ r.op = "create_book" => ValidBook(r.accounts, r.periods, r.transactions)
  /\ r.op = "append_transaction" => ValidJournal(r.tx)
=============================================================================
