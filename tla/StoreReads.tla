----------------------------- MODULE StoreReads -----------------------------
(***************************************************************************)
(* The read side of persistence/store.py.  Callers borrow read-only        *)
(* connections from a bounded pool and read the ledger that the writer     *)
(* keeps extending (Ledger.tla, which SqliteLedgerStore.tla implements).   *)
(* A read method is several autocommit SELECTs: each sees one committed    *)
(* state, and the ledger may grow between two of them.                     *)
(***************************************************************************)
EXTENDS Ledger

CONSTANTS Readers,   \* threads that call the read methods
          Handles,   \* the reader connections of the pool
          Ops,       \* the read methods they call
          PageSize,  \* page_size of iter_audit_log_pages
          Starts     \* the values of start_seq

ASSUME ReadsAssumption ==
  /\ IsFiniteSet(Handles) /\ Handles # {}
  /\ Ops \subseteq {"load_book", "iter_audit_log", "iter_audit_log_pages", "debug_snapshot"}
  /\ PageSize \in Nat \ {0}
  /\ Starts \subseteq Nat

VARIABLES
  pool,     \* the reader connections that nobody has borrowed
  held,     \* per reader, the connections it has borrowed
  op,       \* per reader, the method it is in
  pc,       \* per reader, its next statement
  got,      \* per reader, what its SELECTs have returned so far
  outcome,  \* per reader, how its last call ended
  seen      \* history: per reader, the ledger states of its last call

reads == <<pool, held, op, pc, got, outcome>>
vars == <<ledger, reads, seen>>

Nothing == [accounts |-> {}, periods |-> {}, headers |-> {}, todo |-> {}, entries |-> {}]

ReadsInit ==
  /\ Init
  /\ pool = Handles
  /\ held = [t \in Readers |-> {}]
  /\ op = [t \in Readers |-> "none"]
  /\ pc = [t \in Readers |-> "idle"]
  /\ got = [t \in Readers |-> Nothing]
  /\ outcome = [t \in Readers |-> "none"]
  /\ seen = [t \in Readers |-> {}]

-----------------------------------------------------------------------------
(* Borrowing.                                                              *)

Goto(t, step) == pc' = [pc EXCEPT ![t] = step]

\* What a statement returned, and the statement that follows.
Got(t, result, step) ==
  /\ got' = [got EXCEPT ![t] = result]
  /\ Goto(t, step)
  /\ UNCHANGED <<ledger, pool, held, op, outcome, seen>>

FirstStatement(method) ==
  CASE method = "load_book" -> "book"
    [] method = "iter_audit_log" -> "log"
    [] method = "iter_audit_log_pages" -> "page"
    [] method = "debug_snapshot" -> "count books"

\* A method is called; the pages of the audit log start after start_seq.
CallRead(t, method, start) ==
  /\ pc[t] = "idle"
  /\ op' = [op EXCEPT ![t] = method]
  /\ outcome' = [outcome EXCEPT ![t] = "none"]
  /\ got' = [got EXCEPT ![t] = IF method = "iter_audit_log_pages"
                               THEN [start |-> start, last |-> start, records |-> <<>>]
                               ELSE Nothing]
  /\ seen' = [seen EXCEPT ![t] = {ledger}]
  /\ Goto(t, "borrow")
  /\ UNCHANGED <<ledger, pool, held>>

\* _borrow_all_readers takes the connections one by one.
Needed(method) == IF method = "debug_snapshot" THEN Cardinality(Handles) ELSE 1

Borrow(t, h) ==
  /\ pc[t] = "borrow"
  /\ h \in pool
  /\ pool' = pool \ {h}
  /\ held' = [held EXCEPT ![t] = @ \cup {h}]
  /\ IF Cardinality(held'[t]) = Needed(op[t]) THEN Goto(t, FirstStatement(op[t]))
                                              ELSE UNCHANGED pc
  /\ UNCHANGED <<ledger, op, got, outcome, seen>>

\* The finally blocks of _borrow_reader and _borrow_all_readers.
PutBack_NotOnTimeout(t) ==
  /\ held' = [held EXCEPT ![t] = {}]
  /\ IF pc[t] = "borrow" THEN UNCHANGED pool ELSE pool' = pool \cup held[t]

PutBack(t) ==
  /\ held' = [held EXCEPT ![t] = {}]
  /\ pool' = pool \cup held[t]

Finish(t, result) ==
  /\ outcome' = [outcome EXCEPT ![t] = result]
  /\ Goto(t, "idle")
  /\ PutBack(t)
  /\ UNCHANGED <<ledger, op, got, seen>>

BorrowTimeout_NotForAll(t) ==
  /\ pc[t] = "borrow"
  /\ pool = {}
  /\ op[t] # "debug_snapshot"
  /\ Finish(t, "TimeoutError")

\* The pool stays empty for reader_checkout_timeout seconds.
BorrowTimeout(t) ==
  /\ pc[t] = "borrow"
  /\ pool = {}
  /\ Finish(t, "TimeoutError")

-----------------------------------------------------------------------------
(* load_book.                                                              *)

SelectBook(t) ==
  /\ pc[t] = "book"
  /\ IF HasRow(ledger, "books", <<>>) THEN Got(t, got[t], "accounts")
                                      ELSE Finish(t, "KeyError")

PeriodsOf(d) == {r.key[1] : r \in RowsOf(d, "periods")}

SelectAccounts(t) ==
  /\ pc[t] = "accounts"
  /\ Got(t, [got[t] EXCEPT !.accounts = AccountCodes(ledger)], "periods")

SelectPeriods(t) ==
  /\ pc[t] = "periods"
  /\ Got(t, [got[t] EXCEPT !.periods = PeriodsOf(ledger)], "transactions")

SelectTransactions(t) ==
  LET headers == RowsOf(ledger, "transactions")
  IN /\ pc[t] = "transactions"
     /\ Got(t, [got[t] EXCEPT !.headers = headers, !.todo = {h.key[1] : h \in headers}],
            "entries")

\* One SELECT for each transaction.
SelectEntries(t, ref) ==
  /\ pc[t] = "entries"
  /\ ref \in got[t].todo
  /\ Got(t, [got[t] EXCEPT !.todo = @ \ {ref},
                           !.entries = @ \cup {<<ref, LinesOf(ledger, ref)>>}],
         "entries")

EntriesRead(t) ==
  /\ pc[t] = "entries"
  /\ got[t].todo = {}
  /\ Got(t, got[t], "build")

\* A book that satisfies what core.models demands of it.
Loadable(book) ==
  /\ \A h \in book.headers : /\ h.data.state = "posted"
                             /\ h.data.period \in book.periods \cup {None}
  /\ \A e \in book.entries : /\ Balanced(e[2])
                             /\ \A n \in DOMAIN e[2] : e[2][n].account \in book.accounts
  /\ {e[1] : e \in book.entries} = {h.key[1] : h \in book.headers}

\* The payload is deserialized and validated while the connection is held.
BuildBook_HeadersReadAgain(t) ==
  /\ pc[t] = "build"
  /\ got' = [got EXCEPT ![t].headers = RowsOf(ledger, "transactions")]
  /\ outcome' = [outcome EXCEPT ![t] = IF Loadable(got'[t]) THEN "ok"
                                       ELSE "PersistenceIntegrityError"]
  /\ Goto(t, "idle")
  /\ PutBack(t)
  /\ UNCHANGED <<ledger, op, seen>>

BuildBook(t) ==
  /\ pc[t] = "build"
  /\ Finish(t, IF Loadable(got[t]) THEN "ok" ELSE "PersistenceIntegrityError")

-----------------------------------------------------------------------------
(* The audit log, whole and page by page.                                  *)

SelectLog(t) ==
  /\ pc[t] = "log"
  /\ got' = [got EXCEPT ![t] = [records |-> ledger.audit]]
  /\ outcome' = [outcome EXCEPT ![t] = "ok"]
  /\ Goto(t, "idle")
  /\ PutBack(t)
  /\ UNCHANGED <<ledger, op, seen>>

\* The rows after the last one seen, at most a page of them.
PageAfter(last) ==
  SubSeq(ledger.audit, last + 1,
         IF last + PageSize < Len(ledger.audit) THEN last + PageSize ELSE Len(ledger.audit))

LastSeq_ByPageSize(last, page) == last + PageSize

LastSeq(last, page) == last + Len(page)

\* The connection goes back before the page is yielded; an empty page ends it.
SelectPage(t) ==
  LET page == PageAfter(got[t].last)
      end == page = <<>>
  IN /\ pc[t] = "page"
     /\ got' = IF end THEN got
               ELSE [got EXCEPT ![t].records = @ \o page,
                                ![t].last = LastSeq(@, page)]
     /\ outcome' = [outcome EXCEPT ![t] = IF end THEN "ok" ELSE @]
     /\ Goto(t, IF end THEN "idle" ELSE "yielded")
     /\ PutBack(t)
     /\ UNCHANGED <<ledger, op, seen>>

\* The consumer asks for the next page, or drops the generator.
NextPage(t) ==
  /\ pc[t] = "yielded"
  /\ Got(t, got[t], "borrow")

DropPages(t) ==
  /\ pc[t] = "yielded"
  /\ Finish(t, "dropped")

-----------------------------------------------------------------------------
(* debug_snapshot: four COUNTs on the first of the borrowed connections.   *)

Count(t, step, name, n, next) ==
  /\ pc[t] = step
  /\ Got(t, name :> n @@ got[t], next)

CountBooks(t) ==
  Count(t, "count books", "books", Cardinality(RowsOf(ledger, "books")), "count transactions")

CountTransactions(t) ==
  Count(t, "count transactions", "transactions",
        Cardinality(RowsOf(ledger, "transactions")), "count entries")

\* "entries" is taken by the result of load_book.
CountEntries(t) ==
  Count(t, "count entries", "lines", Cardinality(RowsOf(ledger, "entries")), "count audit")

CountAudit(t) ==
  /\ pc[t] = "count audit"
  /\ got' = [got EXCEPT ![t] = "audit" :> Len(ledger.audit) @@ @]
  /\ outcome' = [outcome EXCEPT ![t] = "ok"]
  /\ Goto(t, "idle")
  /\ PutBack(t)
  /\ UNCHANGED <<ledger, op, seen>>

-----------------------------------------------------------------------------
Load(t) == \/ SelectBook(t)
           \/ SelectAccounts(t)
           \/ SelectPeriods(t)
           \/ SelectTransactions(t)
           \/ \E ref \in Refs : SelectEntries(t, ref)
           \/ EntriesRead(t)
           \/ BuildBook(t)

Debug(t) == \/ CountBooks(t)
            \/ CountTransactions(t)
            \/ CountEntries(t)
            \/ CountAudit(t)

\* What a thread does by itself once it is in a call.
Proceed(t) == \/ \E h \in Handles : Borrow(t, h)
              \/ BorrowTimeout(t)
              \/ Load(t)
              \/ SelectLog(t)
              \/ SelectPage(t)
              \/ Debug(t)

\* What the caller decides.
Choose(t) == \/ \E method \in Ops : \E start \in Starts : CallRead(t, method, start)
             \/ NextPage(t)
             \/ DropPages(t)

\* A write becomes visible: every read call in progress may see it.
Written ==
  /\ Next
  /\ seen' = [t \in Readers |-> IF pc[t] = "idle" THEN seen[t] ELSE seen[t] \cup {ledger'}]
  /\ UNCHANGED reads

ReadsNext == \/ \E t \in Readers : Proceed(t) \/ Choose(t)
             \/ Written

ReadsSpec == ReadsInit /\ [][ReadsNext]_vars

\* SELECTs end and the pool's timeout expires; callers are free to stop.
ReadsFairSpec == ReadsSpec /\ \A t \in Readers : WF_vars(Proceed(t))

-----------------------------------------------------------------------------
(* Properties.                                                             *)

\* No connection is lost or lent twice, through timeouts with part of the pool
\* in hand, pages yielded in between and errors.
PoolConserved ==
  /\ pool \cup UNION {held[t] : t \in Readers} = Handles
  /\ \A t \in Readers : /\ held[t] \cap pool = {}
                        /\ pc[t] \in {"idle", "yielded"} => held[t] = {}
                        /\ \A u \in Readers \ {t} : held[t] \cap held[u] = {}

\* The book that a load of the state d would return.
BookOf(d) ==
  [accounts |-> AccountCodes(d), periods |-> PeriodsOf(d), headers |-> RowsOf(d, "transactions"),
   todo |-> {}, entries |-> {<<h.key[1], LinesOf(d, h.key[1])>> : h \in RowsOf(d, "transactions")}]

\* load_book returns the book as it was at one moment of the call, although it
\* is put together from many SELECTs without a transaction around them, and a
\* load that overlaps writes never fails an integrity check.
LoadIsAtomic ==
  \A t \in Readers : op[t] = "load_book" =>
    /\ outcome[t] = "ok" => \E d \in seen[t] : got[t] = BookOf(d)
    /\ outcome[t] # "PersistenceIntegrityError"

\* The pages of the audit log, put together, are the log from start_seq on:
\* nothing is skipped or repeated when rows are appended between two pages, and
\* an iteration that ends has yielded the whole log of one moment of the call.
PagesAreGapFree ==
  \A t \in Readers : op[t] = "iter_audit_log_pages" =>
    LET from == got[t].start + 1
        records == got[t].records
    IN /\ records = SubSeq(ledger.audit, from, got[t].start + Len(records))
       /\ outcome[t] = "ok" =>
            \E d \in seen[t] : records = SubSeq(d.audit, from, Len(d.audit))

\* Whoever has borrowed a connection gives it back: no caller waits for ever
\* for connections that another waiting caller has, two debug snapshots included.
HandlesReturn == \A t \in Readers : held[t] # {} ~> held[t] = {}
=============================================================================
