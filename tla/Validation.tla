----------------------------- MODULE Validation -----------------------------
(***************************************************************************)
(* The reports of validation/service.py, next to the ledger whose writes   *)
(* they advise on.  A report is the set of its finding codes: every        *)
(* finding modelled here is an error, so a report is accepted when it is   *)
(* empty.                                                                  *)
(***************************************************************************)
EXTENDS Ledger

-----------------------------------------------------------------------------
(* The core report.                                                        *)

UnknownAccounts(accounts, tx) == {i \in DOMAIN tx.lines : tx.lines[i].account \notin accounts}

\* A transaction that does not balance is reported for that alone.
ValidateTransaction(accounts, tx) ==
  IF ~Balanced(tx.lines) THEN {"TRANSACTION_BALANCE_INVALID"}
  ELSE IF UnknownAccounts(accounts, tx) # {} THEN {"TRANSACTION_UNKNOWN_ACCOUNT"}
  ELSE {}

\* A Book is constructed before it is validated, so its chart is valid.
ValidateBook(accounts, transactions) ==
  UNION {ValidateTransaction(accounts, tx)
           \cup (IF UnknownAccounts(accounts, tx) # {}
                 THEN {"BOOK_UNKNOWN_ACCOUNT_REFERENCE"} ELSE {}) : tx \in transactions}

\* The transactions of the stored book, as a set.
StoredTransactions(d) ==
  {[ref |-> h.key[1], lines |-> LinesOf(d, h.key[1]), period |-> h.data.period,
    of |-> h.data.of, note |-> h.data.note, state |-> h.data.state] :
     h \in RowsOf(d, "transactions")}

-----------------------------------------------------------------------------
(* Properties.                                                             *)

\* The advice agrees with the ledger: a transaction with a finding is refused
\* by append_transaction, and a stored book, whatever was reversed in it, has
\* none (validate_transaction and validate_book against the store's own checks).
ReportsAgree ==
  /\ \A r \in {r \in Requests : r.op = "append_transaction"} :
       ValidateTransaction(AccountCodes(ledger), r.tx) # {} => ~CanAppend(ledger, r.tx)
  /\ ValidateBook(AccountCodes(ledger), StoredTransactions(ledger)) = {}
=============================================================================
