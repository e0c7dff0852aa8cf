# A TLA+ verification of FinestVX

FinestVX is an accounting core in Python: immutable domain objects, an append-only
ledger in SQLite (through `apsw`), a single-writer runtime on top of it, and a service
facade for validation and export. This directory holds TLA+ models of its stateful
core, the TLC configurations that check them, and TLAPS proofs of every safety property and
refinement that the configurations check.

Paths below are relative to the package, `src/finestvx/`.

## 1. The system

### 1.1 Components

| Component | State it keeps | Operations | What makes it correct |
|---|---|---|---|
| Domain model, `core/models.py`, `core/validation.py` | none: frozen dataclasses that validate themselves | constructing `LedgerEntry`, `JournalTransaction`, `Book` | a posted transaction has at least two entries and balances in every currency; a book's transactions refer to its accounts and periods; accounts form a forest; periods do not overlap |
| `SqliteLedgerStore`, writes, `persistence/store.py`, `schema.py` | writer connection, `_writer_lock`, `_audit_state`; the file: five append-only tables and `audit_log`, SQLite's write lock | `create_book`, `append_transaction`, `append_reversal`, `append_legislative_result`, `create_snapshot`, `close` | each write is atomic under errors, crashes and other writers; each row is audited once with the caller's context; a transaction is reversed at most once; what was acknowledged stays |
| `SqliteLedgerStore`, reads | `_reader_pool`, a queue of read-only connections | `load_book`, `iter_audit_log`, `iter_audit_log_pages`, `debug_snapshot`, `list_book_codes` | connections are conserved; what a read returns is one state of the ledger although it takes many SELECTs |
| `LedgerRuntime`, `runtime/service.py` | `_queue`, writer thread, `_stop_event`, `_started`, lifecycle `RWLock`, a future per command | writes (submit and wait), reads, `start`, `close` | order of submission is order of commit; answers are true; stopping strands nobody; everything returns |
| `MultiBookRuntime`, `runtime/multi_book.py` | `_runtimes` under an `RWLock` | `create_book`, `open_book`, `close_book`, routed calls, `close` | no runtime is leaked, used after close, or opened twice |
| `ReadReplica`, `AsyncLedgerReader`, `persistence/replica.py` | `_reader`, `_last_refresh` | reads that may refresh first, `refresh`, `close` | every connection is closed once, and never under a read |
| `FinestVXService`, `gateway/service.py` | a runtime and an interpreter pool | `post_transaction`, `post_reversal`, reads, validations, exports, `close` | a posted transaction gets its legislative row, once and after it, or its caller knows that it did not |
| WAL and snapshots, `store.py`, `persistence/backup.py` | WAL size, temporary files | checkpoints, `create_snapshot` | an acknowledged snapshot is on disk and is one state of the ledger; the ledger's own file is left alone |
| Legislative packs, `legislation/` | a registry, ftllexengine's interpreter pool | `resolve`, `validate` | verdicts are those of the pack |
| Validation reports, serialization, export, `validation/`, `core/serialization.py`, `export/` | none | pure conversions | lossless, deterministic |

### 1.2 How they interact

A service call goes `FinestVXService` -> `LedgerRuntime` (queue, then the writer thread)
-> `SqliteLedgerStore` (writer lock, then SQLite's write lock) -> schema triggers, which
call back into Python for the audit context. Reads bypass the queue: they take the
runtime's lifecycle lock for reading, borrow a connection from the pool and see whatever
is committed at each SELECT. Two stores may be open on one file (two processes, or two
runtimes): then SQLite's write lock, taken by `BEGIN IMMEDIATE`, is all they share.

### 1.3 What is hard

* *Shared state under a lock that is released on every path*: the writer lock, the
  connection's transaction and the audit context are taken and undone together.
* *Check then act*: `append_transaction` and `append_reversal` decide on reads made
  before their SQLite transaction.
* *Reads in several statements* while the writer commits.
* *Timeouts that end the wait but not the work*: a queued command outlives its caller,
  a join outlives its thread.
* *Closing under load*, and calls after a close.
* *Crashes* between any two statements.

Every such place is listed with its line in `PROJECT.json` under `hazards`.

## 2. The modules

| Module | Models | Built on |
|---|---|---|
| `LedgerData` | transactions, rows, the database, requests | |
| `LedgerDataProofs` | lemmas about rows, journals and databases, and about sequences | `LedgerData` |
| `Ledger` | what the store promises: every accepted write is one step | `LedgerData` |
| `SqliteLedgerStore` | the write path, statement by statement; refines `Ledger` | `LedgerData`, `INSTANCE Ledger` |
| `SqliteLedgerStoreProofs` | theorems about `SqliteLedgerStore` | `SqliteLedgerStore`, `LedgerDataProofs` |
| `StoreReads` | the reader pool and the read methods over a growing `Ledger` | `Ledger` |
| `StoreReadsProofs` | theorems about `StoreReads` | `StoreReads`, `LedgerProofs` |
| `RuntimeLifecycle` | what a runtime promises about its life: who is inside, who closes, whether it is open | |
| `LedgerRuntime` | queue, writer thread, lifecycle lock, close; refines `RuntimeLifecycle` | `INSTANCE RuntimeLifecycle` |
| `LedgerRuntimeProofs` | theorems about the lifecycle of `LedgerRuntime` and its writes: order, answers, stopping | `LedgerRuntime` |
| `MultiBookRuntime` | the dictionary of open books over runtimes of that lifecycle | `INSTANCE RuntimeLifecycle` |
| `MultiBookRuntimeProofs` | theorems about `MultiBookRuntime` | `MultiBookRuntime` |
| `Validation` | the reports on books and transactions, next to the ledger they advise on | `Ledger` |
| `CoreModels` | pure algorithms: account cycles, overlapping periods, currency conversions | `LedgerData` |
| `LedgerProofs` | theorems about `Ledger`, `Validation` and `CoreModels` | these and `LedgerDataProofs` |
| `FinestVXService` | posting as a sequence of calls to runtime, ledger and interpreter pool | `Validation`, `Ledger` |
| `FinestVXServiceProofs` | theorems about `FinestVXService` | `FinestVXService`, `LedgerProofs` |
| `ReadReplica` | refreshing and reading between the awaits of one event loop | |
| `ReadReplicaProofs` | theorems about `ReadReplica` | `ReadReplica` |
| `Snapshots` | `create_snapshot` and the directory it writes to | |
| `MCLedgerData`, `MCLedger`, `MCSqliteLedgerStore`, `MCStoreReads`, `MCLedgerRuntime`, `MCMultiBookRuntime`, `MCFinestVXService`, `MCReadReplica`, `MCSnapshots` | constants for TLC | |

The composition is by refinement: `SqliteLedgerStore` implements `Ledger`, so `StoreReads`
reads `Ledger` and need not see rows being inserted. `LedgerRuntime` reduces the store to
what the runtime can see of it: open or closed, and a write that commits, raises, or commits
and then raises.
`LedgerRuntime` in turn implements `RuntimeLifecycle` (`ImplementsLifecycle`), which is all
that `MultiBookRuntime` knows of the runtimes it holds: each of its runtimes takes steps of
that lifecycle only (`UsesLifecycle`). `FinestVXService` composes the actions of `Ledger`
with a queue and a lifecycle lock that behave as `LedgerRuntime` promises.

Definitions named `X_Something` that stand before a definition `X` are plausible
programming errors in `X`; each is used to confirm that a property would notice it. They
are part of no specification.

### 2.1 LedgerData and Ledger

One book is modelled; every statement of the store selects on `book_code`, so books of one
file share only the audit log. References, accounts, periods, currencies and actors are
elements of constant sets. An amount is a natural number, or `NegativeZero`: the domain
model accepts `Decimal("-0")` because it is not less than zero, and the schema rejects the
text `-0` it is stored as. That row makes an insert fail in the middle of a transaction.
The description column is kept only as far as it tells a reversal written by
`append_reversal` from a caller's own transaction; `posted_at`, tax rates, names, audit
reasons, sessions, clocks and signatures are left out.

`ledger.rows` is the five tables, `ledger.audit` the audit log; a position in that sequence
is its `seq`. Keys: `<<>>` for the book, `<<reference, 0>>` for a transaction,
`<<reference, n>>` for its n-th entry. A legislative result goes to the audit log alone.

`CanCreate`, `CanAppend` and `CanReverse` are the conditions under which a write succeeds:
the constructor's checks, the method's checks and the schema's constraints. There is no
action for a write that fails, because it must leave no trace.

Properties: `WholeJournals`, `AuditedOnce`, `ReversalsCancel`, `StoredBookLoads`, and
`ReportsAgree` of `Validation`: a transaction that `validate_transaction` faults is refused
by the store, and `validate_book` never faults a book that is stored.

### 2.2 SqliteLedgerStore

| Code | Model |
|---|---|
| `_writer_lock` | `writerLock[s]`, taken by `Acquire`, freed by `Release` |
| `_audit_state` | `auditState[s]`, set by `Begin`, restored by `Release` |
| committed file, open transaction | `db`, `work` |
| SQLite's write lock | `dbLock` |
| autocommit SELECTs of `append_transaction`, `append_reversal` | `SelectAccounts`, `SelectOriginal`, `SelectReversal`, `SelectDuplicate`, `SelectEntries` |
| `with self._writer_connection:` | `Begin`/`BeginBusy`, then `Commit` or, through `Raise`, `Rollback` |
| `execute("INSERT ...")` with constraints and trigger | `InsertRow`, `InsertRejected`, `NextJournal` |
| full or failing disk | `WriteFails` |
| death and restart of the process | `Crash` |
| the receipt, read from the connection after COMMIT | `Return`, or `ReceiptFails` when a changeset, a patchset or the data version cannot be read |

The stores of one model share one process as far as `Crash` goes: it is the crash of all of
them, which leaves the committed file (`journal_mode=WAL`, `synchronous=FULL`). The busy
timeout is a choice: while another connection holds the write lock, `BEGIN` waits or
raises. With `transaction_mode` set to `DEFERRED` the lock is taken by the first INSERT,
before which the transaction reads nothing, so the default `IMMEDIATE` stands for both.

`outcome[t]` is forgotten at the next call and by a crash. What a receipt was returned for
is therefore kept in the history variable `receipts`, which nothing takes back:
`AcknowledgedIsStored` says of every receipt ever returned that its whole request is in the
file. A write whose receipt failed is committed too, but nobody was told.

Properties: `OneWriter`, `AcknowledgedIsStored`, `ReversedOnce`, `AttributedToCaller`,
`FileOnlyGrows`, `ImplementsLedger`, `LockIsReleased`.

### 2.3 StoreReads

A read method is `CallRead`, then `Borrow` (once, or once per connection for
`debug_snapshot`), then one action per SELECT, then `PutBack`, with `BorrowTimeout` while
the pool is empty. A page is yielded after its connection is back; the consumer may then
ask for the next (`NextPage`) or drop the generator (`DropPages`). `Written` is any step of
`Ledger`; the history variable `seen` collects the states a call may have seen.

`load_book` needs no transaction because a write is atomic, rows are immutable, and every
SELECT after the one on `transactions` concerns transactions that are already whole:
`LoadIsAtomic` states this; TLC checks it and section 4 proves it. The four counters of
`debug_snapshot` have no such excuse: a write between two of them tears the snapshot.

Properties: `PoolConserved`, `LoadIsAtomic`, `PagesAreGapFree`, `HandlesReturn`.

### 2.4 LedgerRuntime

| Code | Model |
|---|---|
| `_queue` with `None` to wake the thread | `queue` |
| `_writer_loop` | `TestLoop`, `GetCommand`, `GetEmpty` |
| `_dispatch_command` | `EnterStore`, `Execute`, `Resolve` |
| the command's `Future` | `future[c]` |
| `_lock.read`, `_lock.write` | `readers`, `lockWriter` |
| a write method | `CallWrite`, `GateForWrite`, `Submit`, `Answer` or `AnswerTimeout` |
| a read method | `CallRead`, `GateForRead`, `Read` |
| `iter_audit_log_pages` | `CallPages`, `LastPage`: no lock |
| `close` | `CallClose`, `GateForClose`, `SetStop`, `PutPoison`, `Join`, `CloseStore` or `CloseStoreFails` |
| lock timeouts | `GateTimeout`, `CloseTimeout` |

`RWLock` is ftllexengine's and not in the repository; it is modelled from its use, without
deciding whether readers may overtake a waiting writer. `Join` may return at any time,
because `Thread.join(timeout)` returns both when the thread has ended and when it has not,
and its result is ignored. `CloseStore` waits for the store's writer lock, as `close()` of
the store does. `CloseStoreFails` is the close that raises before it has closed anything, at
`pragma optimize`: the stop flag stays set and the thread ends, while the store stays open
and `_started` true, so that nothing starts the thread again. `committed`, `submitted`,
`late` and `found` are what the properties are stated with.

The store reads the receipt of a write after its COMMIT and inside the same call, so
`Execute` has three outcomes: committed with a result, not committed with an exception, and
committed with an exception. `AnswersAreTrue` promises what is left: a result only for what
is committed, "closed" only for what never is, and no effect after any answer.

Properties: `CommittedInOrder`, `AnswersAreTrue`, `CloseWaitsForCalls`,
`NothingStranded`, `ClosedIsFinal`, `AcceptedIsAnswered`, `CallsReturn`,
`ImplementsLifecycle`.

### 2.5 MultiBookRuntime

| Code | Model |
|---|---|
| `_lock` | `readers`, `writer`; `Gate`, `GateTimeout` |
| `_runtimes` | `runtimes` |
| `_runtime_config_for`, a file for each book | `bookOf[i]`, `file[b]` |
| `create_book` | `Create`, `Persist`, `Persisted` or `NotPersisted`, `Register`: all inside the lock |
| `open_book` | `Open`, `ConstructFails`, `Register`: all inside the lock |
| `close_book`, `close` | `Pop` or `Drain` inside the lock, then `CloseNext`, `RuntimeGate` or `RuntimeGateTimeout`, `Stop` or `StopFails` outside of it |
| `_require_runtime` and the routing methods | `Lookup` inside the lock, `CallGate` or `CallGateTimeout`, `Served` outside of it |
| `list_book_codes`, `debug_snapshot` | `List`; `Debug` and `Look` or `LookFails` inside the lock |
| a runtime serving a create command whose caller gave up | `ServeLate` |

A thread that looked a runtime up keeps it in `runtime[t]`, whatever happens to the
dictionary meanwhile; a thread that closes has the runtimes still to be closed in
`todo[t]`. `orphans` is a history variable: the runtimes that a failed `create_book`,
`close_book` or `close` left running outside the dictionary, whether the close timed out at
the runtime's lock or its store did not close (`StopFails`). `NoneForgotten` says that there
are no others. The model shows with it what the code does not do: nothing ever closes an
orphan.

A runtime's own lock is refused to callers by who closes it, holding the lock or waiting for
it (`CloserAt`). `CallGateTimeout` and `Look` test it alike, so `SnapshotsAnswer` says that
`debug_snapshot` finds each runtime of its list open and its lock free of closers: the
timeout that `runtime.debug_snapshot()` could raise at `multi_book.py:356` does not occur.
Other failures of that call do (`LookFails`).

Properties: `RegisteredRuns`, `NoneForgotten`, `SnapshotsAnswer`, `UsesLifecycle`,
`CallsReturn`.

### 2.6 FinestVXService

| Code | Model |
|---|---|
| `post_transaction`, `post_reversal` | `CallWrite`, `SubmitWrite`, `Answered`, `Load`, `Acquire`, `Validate`, `SubmitResult`, `PostingDone` |
| what may end them early | `GateTimeout`, `Refused`, `AnswerTimeout`, `LoadFails`, `AcquireFails`, `ValidateFails`, `Crash` |
| `_queue` and the writer thread | `queue`, `ServeAccepted`, `ServeRefused` and, committed without a receipt, `ServeUnreceipted`, on the actions of `Ledger` |
| `get_book`, `validate_transaction`, `validate_transaction_isolated` | `CallRead`, `Load`, then `ValidateInProcess`, or `Acquire` and `Validate` |
| `InterpreterPool` | `poolOpen`, `CheckedOut`, `PoolMax` |
| the service's registry and the one a subinterpreter builds | `Registry`, `DefaultRegistry` |
| `close` | `CallClose`, `CloseRuntime` or `CloseFails`, `ClosePool` |

A command whose caller gave up stays in the queue with nobody to tell (`client` is `None`)
and may be committed at any later time, or never after a close. The history variables
`returned` are the transactions whose callers got a result, `raised` the requests whose
callers got an exception or died.
The code does not promise that every posted transaction gets its legislative row, and the
model shows why not: any of the steps after the commit may fail, and a retry is refused as
a duplicate. `GapsAreReported` states what is left of the promise: for every posted
transaction without its row, a call of the actor who signed it is still running, or has
raised. An exception to somebody else who tried the same reference does not count.

Properties: `ReturnedIsRecorded`, `ResultsFollowPostings`, `GapsAreReported`.

### 2.7 ReadReplica

A coroutine runs from one await to the next; each await is a step boundary, and other tasks
run there. `CallRead` and `CallRefresh` begin a call, `Connect` and `Opened` are
`AsyncLedgerReader.open` inside `refresh`, `ConnectFails`, `CheckFails` and `OpenCut` the
ways it ends without a reader, `LoadStep`, `SelectDone` and `Page` the SELECTs of a read on
the connection it began with (`uses[t]`), `ReadFails` the exception of a closed connection.
`due` abstracts the clock: `Tick` is the end of a checkpoint interval. `lost` collects the
connections that no variable of the program refers to any more.

Properties: `CurrentIsOpen`, `OnlyKnownLeaks`, `PagesAreServed` (violated).

### 2.8 Snapshots

The directory is a map from names, a stem and one of two suffixes, to contents; the ledger's
own file is one of them. `Checkpoint`, `BeginBackup` and `EndBackup` happen under the writer
lock, `ReadBytes`, `WriteBytes` and `Unlink` after it is released. The writer connection
keeps its file when the name is unlinked, as POSIX has it.

Property: `SnapshotIsThere` (violated).

### 2.9 CoreModels

Three pure algorithms, each checked against a definition that says what it is for:
`FindAccountCycle` against the absence of a cycle in the graph that the diagnostics search,
`ValidPeriodCollection` against pairwise disjointness, `ValidateFx` against rounding to the
minor unit of the counter currency. Their arguments are enumerated by the initial states of
the run `ledger` (the variable `given`), from which nothing else happens. The walk is a
recursive function on the paths of the chart, as the loop of the code keeps its path;
sorting is any order of the periods in which no neighbours are out of order, which is what
`sorted` with the code's key promises and all that the check uses.

Amounts of a conversion are totals in minor units; `MinorUnits` are the possible numbers of
them in one unit of a currency (1, 100, 1000 and 10000 for the decimal digits of ISO 4217).
`ValidateFx` rounds as Decimal does: the product, and again the difference, to the digits of
the context, half to even. `ContextLimit` is the least number that has too many digits and
`Tens` the powers of ten that last digits may stand for. The booked amount is any whole number of
minor units. `FxAcceptsRoundings` is restricted to amounts with no more digits than the
context keeps; TLC confirms that it is false without this restriction, as it must be once
the last digit of the product is worth more than a minor unit.

Properties: `ChartsAreForests`, `PeriodsAreDisjoint`, `FxAcceptsRoundings`.

## 3. What is checked

| Run | Bounds | Shows |
|---|---|---|
| `ledger` | 3 references, 2 accounts, 2 periods, 2 currencies, 19 requests of every kind, 2 legislative rows; charts of up to 4 accounts over 4 codes, collections of up to 3 periods in 4 days, conversions of up to 120 minor units at 5 rates between currencies of 0, 2, 3 and 4 digits, with a Decimal of 3 digits | every sequence of accepted writes keeps the ledger whole, audited, cancelled exactly by its reversals, loadable and free of findings; the pure algorithms do what they are for |
| `ledger_periods` (violated) | the same and one append into a period the book does not have | finding 1 |
| `store` | 2 threads on 1 store, 6 requests, crash at any point | the write path implements `Ledger`, everything a receipt was ever returned for stays stored through errors and crashes, rows are signed by their caller |
| `two_stores` | 2 stores, a thread each, 5 requests to create and append, none legislative, busy timeouts | the same refinement across stores for creation and appends, and a writer lock that is always released |
| `two_stores_reversal` (violated) | 2 stores, 2 competing reversals | finding 2 |
| `reads` | 2 callers, 2 connections, 2 writes, pages of 4 rows over a log of up to 11 | loads and pages are consistent, connections are conserved and returned |
| `runtime` | 2 clients, two write commands; one of the clients reads and restarts, the other takes pages; both write and close, and a close may fail | order and completeness of answers, and what an answer says of the commit; close waits; all calls return |
| `multi_book` | 2 threads, 2 books, 3 runtimes; one thread creates, closes all and takes debug snapshots, the other opens, closes, uses and lists | what is in the dictionary runs, nothing is lost while calls succeed, snapshots never meet a closed store or a runtime's closer, runtimes are closed once and not around a call, all calls return |
| `service` | 2 clients, 1 interpreter, a book, two posts under one reference (one in a period the book does not have) and a reversal, a pack that may be the service's own, 1 command queued before another call begins, crashes | what is returned is recorded; results follow their transactions once; no gap is silent |
| `replica` | 3 tasks, 3 connections, symmetry on both | the current connection is open until `close`; connections leak in two known ways |
| `replica_pages` (violated) | 2 tasks, 3 connections | finding 3 |
| `snapshots` (violated) | 2 callers, 2 stems, destinations beside the ledger and of suffix `.sqlite3` | finding 4 |

Why the bounds are enough. Three references allow a transaction, its reversal and a third
that competes with or reverses the reversal. Two threads are enough for any interference
between two calls; a third would only wait for the same locks. Two connections give a debug
snapshot part of a pool to hold while it waits for the other half. One write before a read
and one during it is the least that can tear it; a page size of 4 makes full, partial and
empty pages over the 7 and then 11 audit rows. In the runtime a client that gave up on one
command submits the other, so that two commands can be in the queue, and the second close
meets a closed store. Two books let a `close` that fails on the first leave the second
behind, and three runtimes let a book be opened again beside a second book. Two clients of
the service compete for one reference and one interpreter, and one of them can reverse or
close while the other is between any two of its calls. Three tasks are two refreshes that
overlap and a read under them; the third connection is the second refresh's. A cycle of
three accounts with a tail into it needs four accounts, and three periods one that spans
two others. Three digits of Decimal make the products of the run lose up to six digits at
their end, with ties, as 28 digits do with larger amounts; the amounts stay below 1000 minor
units where the property speaks, and above it elsewhere.

Named bounds: `MaxLegislative` (legislative rows have no key, so their number must be
limited), `Requests`, `Commands` (each command is submitted at most once) and `Runtimes`
(the runtimes that may be constructed; a call that constructs one begins only while one is
left for it), `MaxQueue` (no call begins while more commands are queued), `MaxBacklog` (a
close of a runtime fails with at most so many commands queued; 0 in the run, where the
thread may still have a command in its hands or have ended, and commands queued later find
no thread; the theorems hold for every value of it), `Connections` (those that are ever
opened), `MaxCommits`, `ContextLimit` and `Tens` (digits of Decimal, and of the numbers that
are rounded), and `MaxAccounts`, `MaxDay`, `MaxPeriods`, `MaxUnits` for the arguments of the
pure algorithms. `CHECK_DEADLOCK FALSE` is set where a model runs out of what is bounded and
may stop: `ledger` and `ledger_periods` (references, and arguments from which nothing
happens), `service` (references and legislative rows), `replica` and `replica_pages`
(connections: the last refresh waits for one), `snapshots`. All other runs check for
deadlock.

Fairness. `SqliteLedgerStore`: weak fairness of each thread inside a write, justified by
SQLite statements that end and by the busy timeout on `BEGIN`; none for acquiring the
Python lock, and none for callers. `StoreReads`: weak fairness of a reader in a call,
justified by `reader_checkout_timeout`. `LedgerRuntime`: weak fairness of the writer thread
and of each caller in a call, justified by the timeouts of the lock, the future, the queue
poll and the join. `MultiBookRuntime`: weak fairness of a thread inside a call, justified by
the timeouts of both locks and of the futures it waits for; none for callers, nor for late
commands. A configuration with `read_lock_timeout=None` waits without limit and is
outside of this assumption.

### Findings

1. `append_transaction` never looks at the fiscal period. A posted transaction in a period
   that the book does not have is stored, and from then on `load_book` raises
   `PersistenceIntegrityError`, which the docs explain by a "schema migration gap or storage
   tampering".
2. `append_reversal` makes its checks before its SQLite transaction. With one store the
   writer lock covers both; two stores on one file reverse a transaction twice, although
   the docstring says "all within a single SQLite transaction".
3. `ReadReplica.iter_audit_log_pages` runs on the connection that was current when it
   began. A refresh, which any other read triggers when the interval has elapsed, closes
   that connection: the generator, and likewise a `load_book` in progress, raises although
   nobody closed the replica. The docs promise the semantics of `AsyncLedgerReader`, whose
   connection nobody replaces.
4. `create_snapshot(path, compress=True)`, the default, backs up to `path` with the suffix
   `.sqlite3`, compresses that file to `path` and deletes it. If `path` ends in `.sqlite3`
   the snapshot itself is deleted, and a `DatabaseSnapshot` returned. If `path` is
   `<book>.zst` in the directory where `MultiBookRuntime` keeps `<book>.sqlite3`, the file
   that is deleted is the ledger: the model reaches that state in the same seven steps. And
   two snapshots of one stem share the file, since all of this happens after the writer
   lock is released.

Further disagreements were met while modelling; the models contain the steps, but no run
is kept for them:

5. `SqliteLedgerStore.debug_snapshot` counts in four statements without a transaction, and
   the counters may belong to four states, although the docstring of `_borrow_all_readers`
   speaks of "a consistent debug snapshot".
6. `LedgerRuntime.iter_audit_log_pages` takes no lifecycle lock, unlike every public method
   according to `DOC_05_Errors.md`, and is cut off by `close()`.
7. `LedgerRuntime.close()` does not check that its join succeeded: it may close the store
   and return with the thread alive and commands queued, which then fail one by one.
8. `MultiBookRuntime.close_book` takes a runtime out of the dictionary before it is closed,
   and the close gives up while a call stays inside. `open_book` then starts a second
   writer thread on the same file, although the docstring says "Write serialization is
   per-book".
9. `CHANGELOG.md` says of `post_reversal` that it writes the reversal and runs legislative
   validation "all in a single SQLite transaction". They are two transactions with a load
   and an interpreter call between them.
10. A subinterpreter resolves packs in a registry that it builds itself, so a pack
   registered with the service only passes `validate_transaction`, and fails in
   `post_transaction` after the transaction has been committed.
11. A write may commit and then raise. `create_book`, `append_transaction` and
   `append_reversal` return from their SQLite transaction before they read the changeset, the
   patchset and the data version for the receipt; an error there is the answer of a write
   that is stored, and reaches the caller of the runtime and of the service through
   `Future.set_exception`. An exception therefore does not license a blind retry.
12. `set_wal_hook` replaces the hook by which SQLite checkpoints automatically, so
   `wal_auto_checkpoint` has no effect on the writer connection.

## 4. What is proved

Every invariant, action property and refinement of a passing run is a theorem, for all
values of the constants. The assumptions are those that the specifications state
(`LedgerDataAssumption`, `LedgerAssumption`, `StoreAssumption`, ...), which TLC evaluates on
every run; four theorems take one hypothesis more, on the requests or the stores, and say
why below. `ServiceAssumption` has `None \notin Clients`, so that a command that has lost its
caller is no client's.

The prover has no induction over data, but it has well-founded induction over sets of
naturals without an operator parameter. `LedgerDataProofs` derives from it `LeastNatural` and
`InductionTo` (a set that contains 0 and with each number the next contains all up to n);
every induction below is one of these, over a set that is written out.

### 4.1 The ledger

`LedgerDataProofs` has no theorem of its own but the lemmas that the others need: what
`FlattenSeq` of the rows of journals contains, where each row lies, that swapping sides
keeps a journal balanced, and `WriteIsSound`: rows that a sound database accepts leave it
sound and audited. `LedgerProofs` proves, for all sets of references, accounts, periods,
currencies, actors and requests:

| Theorem | Statement | Inductive invariant |
|---|---|---|
| `WholeJournalsHolds` | `Spec => []WholeJournals` | `LedgerInv`: the type of the ledger, `Sound` and `Audited` |
| `AuditedOnceHolds` | `Spec => []AuditedOnce` | `LedgerInv` |
| `ReportsAgreeHolds` | `Spec => []ReportsAgree` | `LedgerInv` |
| `ReversalsCancelHolds` | `Spec => []ReversalsCancel` | `LedgerInv` and itself |
| `StoredBookLoadsHolds` | under `PeriodsAgree`: `Spec => []StoredBookLoads` | `LedgerInv`, `PeriodInv` |

The argument. The properties speak of journals, the steps of rows. `Sound` says of the rows
that their keys are unique, that each entry has its header and its account, and that the
entries of a header, put together by their line numbers, are a sequence that balances; and
`Audited` that each row was signed at one place of the log. A write adds rows with new keys,
and `LinesOf` of a stored journal depends on the rows with its reference alone: so it keeps
its lines, and the new ones get the lines of their request. A reversal reads the lines of
its original with `LinesOf`, swaps their sides and writes them as rows; what were the debits
of a currency are now its credits, over the same lines, so the journal still balances.
`WholeJournals` alone is not inductive: it does not say that keys are unique, and two headers
of one reference would mix their entries.
`PeriodsAgree` says that requests append only to periods of the book that another request
creates. The code does not check it (finding 1), and without it `StoredBookLoads` is false:
that is the run `ledger_periods`.

`LedgerProofs` also proves the pure algorithms, for arguments of any size:

| Theorem | Statement | Argument |
|---|---|---|
| `FxAcceptsRoundingsHolds` | `ModelsInit => FxAcceptsRoundings` | division with remainder, and rounding to places that divide a minor unit |
| `PeriodsAreDisjointHolds` | `ModelsInit => PeriodsAreDisjoint` | a sorted order exists, and in it the comparison of neighbours is transitive |
| `ChartsAreForestsHolds` | `ModelsInit => ChartsAreForests` | the walk's recursion has a solution, and its result is a cycle or its end is a root |

Of conversions two assumptions say what is needed of powers of ten: of any two one divides
the other (`TensAssumption`); the minor units of the currencies, the denominators of the
rates and the products of the two are among them, and the limit of the context is at least
10 (`CoreModelsAssumption`). A number
that has no more digits before the minor unit than the context keeps is rounded at a place
that divides the minor unit (`LastPlaceDivides`), so the rounding carries it past no whole
number of minor units (`RoundingStaysBetween`): an amount booked between two of them stays
between them, and the tolerance of one unit holds whatever digits the product lost.

`given` is a constant argument, so a statement about the initial states is one about all.
That an order of the periods exists is itself proved, by inserting one period after the
other (`SortOneMore`): otherwise the `CHOOSE` of the model would be an arbitrary value. The
same holds of the walk: a recursive function means nothing until one knows that some
function satisfies its equation. `Walked` gives it in closed form, from the set of walks
that extend a path and have halted, `UnhaltedEnds` shows that one step keeps that set, and
so `WalkFrom` satisfies the equation (`WalkFromStep`). The induction is on the number of
accounts less the length of the path: a path without repetition is no longer than the chart.

### 4.2 The store

`SqliteLedgerStoreProofs` proves, for all finite or infinite sets of threads, stores,
references, accounts, periods and requests:

| Theorem | Statement | Inductive invariant |
|---|---|---|
| `TypeCorrect` | `Spec => []TypeOK` | `TypeInv`: `TypeOK` and that a thread in a call has a request of a kind that fits its statement |
| `OneWriterHolds` | `Spec => []OneWriter` | `OneWriter` itself, given `TypeInv` |
| `FileOnlyGrowsHolds` | `Spec => FileOnlyGrows` | `AuditInv` |
| `AttributedToCallerHolds` | `Spec => AttributedToCaller` | `AuditInv` |
| `ReversedOnceHolds` | one store: `Spec => []ReversedOnce` | `ReversalInv` |
| `AcknowledgedIsStoredHolds` | `Spec => []AcknowledgedIsStored` | `StoreInv`: the file is `Sound` and `Audited`, and every call keeps `CallInv` |
| `FileIsSoundHolds` | `Spec => [](Sound(db) /\ Audited(db))` | `StoreInv` |
| `ImplementsLedgerHolds` | under `NoLateReversals`: `Spec => ImplementsLedger` | `StoreInv`, `RoomLeft`, `ReversalsOpen` |

The argument. `OneWriter` ties the three locks together: a thread past the writer lock
holds it, a thread inside the transaction holds SQLite's lock, and with no transaction open
`work = db`. `OneWriter` is what makes the rest local: from it follow `Exclusion` (two
threads of a store are never both past the lock) and `Protected` (the step of one thread
changes nothing that another's open transaction depends on). `AuditInv` then says of the
open transaction alone that `work` extends `db`, that every audit row beyond those of `db`
has the caller's actor, and that the audit context is the caller's. `FileOnlyGrows` alone
is not inductive, since `Commit` sets `db` to `work`, about which it says nothing.
`ReversalInv` carries what `append_reversal` has read through its later statements: past
`SelectReversal` no reversal of its original is in `db`, and none is in `work` until it
inserts the header itself. That is stable only because no other thread of the *same* store
can commit in between, which is where the assumption of one store is used.

`StoreInv` ties the transaction of a call to its request. `Inserting` says of an open
transaction that there is a number n such that `work` is `db` with the first n rows of the
request, in order, and that `rows` and `journals` of the thread hold the rest; `Placed` that
their keys are still free. A commit happens when nothing is left, so it stores the whole
request, and `RequestAccepted` concludes from what the method checked (`Checked`) and from
what the constraints let through that the abstract ledger accepts it. What a call has read
stays true since the file only grows: this needs no lock, and so `AcknowledgedIsStored` and
`FileIsSound` hold for any number of stores. A receipt is returned for what the call has
committed, and since neither a rollback, an error nor a crash takes anything from `db`, what
`receipts` says once is true from then on.

The refinement needs two facts more. The abstract `AppendReversal` wants its original
unreversed at the moment of the commit, while `append_reversal` has checked that before:
`ReversalsOpen` keeps it true when there is one store, or when nobody reverses
(`NoLateReversals`). With two stores it is false, which is finding 2 and the run
`two_stores_reversal`; the run `two_stores` checks the refinement without reversals.
The bound on legislative rows is tested when a call begins, and `RoomLeft` says that the
rows stored and the calls on their way stay within it together.

### 4.3 The runtime

`LedgerRuntimeProofs` proves, for all sets of clients, commands and calls:

| Theorem | Statement | Inductive invariant |
|---|---|---|
| `TypeCorrect` | `Spec => []TypeOK` | `TypeInv`: `TypeOK` and that a writer thread that serves, and a client that writes, has a command |
| `CloseWaitsForCallsHolds` | `Spec => []CloseWaitsForCalls` | `IInv`: `TypeInv`, `LockInv`, `OpenInv` |
| `ImplementsLifecycleHolds` | `Spec => ImplementsLifecycle` | `IInv` |

The argument. `LockInv` says what the lifecycle lock is for: a client inside a call is a
reader, a client between the gate of `close` and its end is the writer (unless the store is
closed already), and the two exclude each other. `OpenInv` adds that while the store is open
no command has been answered "closed", and that a call that got in while it was open still
finds it open, since only the holder of the lock closes it. `CloseWaitsForCalls` alone is
not inductive: it does not say that the closer has the lock. The refinement needs no more:
`BeginClose` of `RuntimeLifecycle` is `GateForClose`, `EndClose` is `CloseStore`, `AbortClose`
is `CloseStoreFails`, and every other step enters, leaves or stutters.

And of what a write is promised:

| Theorem | Statement | Inductive invariant |
|---|---|---|
| `NothingStrandedHolds` | `Spec => []NothingStranded` | `StopInv`, `LockInv` |
| `ClosedIsFinalHolds` | `Spec => ClosedIsFinal` | `StopInv` |
| `CommittedInOrderHolds` | `Spec => []CommittedInOrder` | `OrderInv` |
| `AnswersAreTrueHolds` | `Spec => []AnswersAreTrue` | `AnswerInv`: `CallersInv`, `OwnersInv`, `QueueInv`, `CurrentInv`, `FutureInv` |

The argument. `StopInv` ties the thread to the store: it executes only while the store is
open, it ends only after the stop flag was set, and it leaves nothing in the queue but what
came later (`late`). The flag is set by a closer that holds the lifecycle lock, so no client
is then between the gate and the queue; it stays set when the store fails to close, and a
write that finds the store open after that is queued for a thread that ends. `OrderInv` puts
the committed commands, the current one and the queue in one line, in the order of
submission; a command that its caller gave up stays in it. `AnswerInv` says that a command
is in one place at a time, with its client, in the queue, with the thread or in its answered
future, so it is executed once and the future says what that execution did. `AnswersAreTrue`
alone does not say that a command that waits is not committed already.

### 4.4 The dictionary of books

`MultiBookRuntimeProofs` proves, for all sets of threads, books and runtimes:

| Theorem | Statement | Inductive invariant |
|---|---|---|
| `RegisteredRunsHolds` | `Spec => []RegisteredRuns` | `IInv`: `TypeInv`, `CallsInv`, `LockInv`, `RuntimesInv` |
| `NoneForgottenHolds` | `Spec => []NoneForgotten` | `IInv` |
| `SnapshotsAnswerHolds` | `Spec => []SnapshotsAnswer` | `IInv` |
| `UsesLifecycleHolds` | `Spec => UsesLifecycle` | `IInv` and its own `StopInv` |

The argument. `LockInv` says that a thread between the gate and the end of `create_book` or
`open_book` is the only writer, and that a thread in `debug_snapshot` is a reader whose list
is part of the dictionary. `FreshInv` says of the runtime that such a writer has made that
no other thread and no entry of the dictionary knows it, and that its book is still absent:
`_runtimes[book] = runtime` overwrites nothing and never adds what somebody closes.
`HandsInv` and `UnusedInv` keep the runtimes that are closed apart from those not yet
constructed. `SnapshotsAnswer` is then `RegisteredRuns` seen from a reader: a closer has
taken its runtime out of the dictionary first, which the reader's lock forbids. For
`UsesLifecycle`, `StopInv` adds that two threads never close the same runtime at once,
though two may hold it; `StopFails` is `AbortClose`. Together with
`ImplementsLifecycleHolds` this closes the composition: the runtime implements the lifecycle
and the dictionary uses no more than it.

### 4.5 Reads

`StoreReadsProofs` proves, for all sets of readers and connections and all page sizes:

| Theorem | Statement | Inductive invariant |
|---|---|---|
| `PoolConservedHolds` | `ReadsSpec => []PoolConserved` | `PoolInv` |
| `LoadIsAtomicHolds` | under `PeriodsAgree`: `ReadsSpec => []LoadIsAtomic` | `ReadersInv` |
| `PagesAreGapFreeHolds` | `ReadsSpec => []PagesAreGapFree` | `LedgerInv`, `PagingInv` |

The argument of `LoadIsAtomic`. The moment at which the book returned was the stored one is
that of the SELECT on `transactions`. What was read before it, the book with its accounts
and periods, is frozen once the book exists; what is read after it concerns headers that
were committed, whose entries never change. `ReadersInv` carries this from SELECT to SELECT
while `Written` may be any step of `Ledger`. That the integrity checks pass needs
`WholeJournals` and `StoredBookLoads`: `ReadsImplementLedger` (`ReadsSpec => Spec`) brings
them in from `LedgerProofs`, the second with its hypothesis on periods.

The argument of `PagesAreGapFree`. A page is the rows after the last one taken, sorted by
`seq` and cut at the page size. `PageIsNext` shows that this is the next stretch of the log,
and `Paging` that what was taken so far begins after `start` and ends where the next page
begins. The log only grows at its end, so both survive any write between two pages.

### 4.6 The service

`FinestVXServiceProofs` proves, for all sets of clients and requests, any capacity of the
queue and the interpreter pool, and any crashes:

| Theorem | Statement | Inductive invariant |
|---|---|---|
| `ServiceKeepsLedger` | `ServiceSpec => [](WholeJournals /\ AuditedOnce /\ ReportsAgree)` | `LedgerInv` |
| `ReturnedIsRecordedHolds` | `ServiceSpec => []ReturnedIsRecorded` | `ReturnInv` with the rest of `ServiceInv` |
| `ResultsFollowPostingsHolds` | `ServiceSpec => []ResultsFollowPostings` | `CallsInv`, `QueueInv`, `FollowInv` |
| `GapsAreReportedHolds` | `ServiceSpec => []GapsAreReported` | `CallsInv`, `QueueInv`, `GapInv` |

The argument. `Owns(c)` is that the call of c has posted its transaction and has not
returned. `OwnerInv` says that it owns it alone and that the result is recorded exactly when
c was told so; `ClientInv` that a command in the queue is the one its client waits for, or
that nobody waits and the posting was reported; `ResultInv` that a queued result is of a
posted transaction, in its poster's name, not yet recorded and not queued twice. Ownership
passes from the reply of the commit to the queued result and back; a timeout cuts the
command from its client and puts the request among `raised`, so a late commit finds its gap
already reported, to the actor who signs it; and a commit without a receipt
(`ServeUnreceipted`) reports it as it opens. None of the three properties is inductive: they
do not mention the queue, where all that may still happen is waiting.

### 4.7 The replica

`ReadReplicaProofs` proves, for all sets of tasks and connections and all bounds:

| Theorem | Statement | Inductive invariant |
|---|---|---|
| `CurrentIsOpenHolds` | `Spec => []CurrentIsOpen` | `IInv`: `TypeInv`, `FreshInv`, `OldInv` and the two properties |
| `OnlyKnownLeaksHolds` | `Spec => []OnlyKnownLeaks` | `IInv` |

The argument. `CurrentIsOpen` says nothing of the connection that a refresh is about to
install, nor of the one it will close. `FreshInv` adds that a fresh connection is open,
belongs to one refresh and is not yet current; `OldInv` that what a refresh has captured to
close was in use before, so that it is never what another refresh holds fresh. Then
`Opened` installs an open connection and closes a different one, however many refreshes
have captured the same old connection.

## 5. What is only model-checked

* All liveness properties: `LockIsReleased`, `HandlesReturn`, `AcceptedIsAnswered`,
  `CallsReturn` of `LedgerRuntime` and of `MultiBookRuntime`. The prover knows neither
  fairness nor `ENABLED`.
* The runs that expect a violation refute one property each; nothing is proved of
  `Snapshots`, whose one property is of that kind.
* That the hypotheses `PeriodsAgree` and `NoLateReversals` cannot be dropped: the runs
  `ledger_periods` and `two_stores_reversal`.
* Liveness of `FinestVXService`: a caller of the interpreter pool waits without a timeout,
  and that it gets its turn would be an assumption about ftllexengine's pool. The calls of
  the runtime that it consists of all return (`CallsReturn` of `LedgerRuntime`).

## 6. Plan

In this order, the most important behaviour first:

1. *Done*: `LedgerData`, `Ledger`, `SqliteLedgerStore`, `StoreReads`, `RuntimeLifecycle`,
   `LedgerRuntime`, `MultiBookRuntime`, `Validation`, `CoreModels`, `FinestVXService`,
   `ReadReplica`, `Snapshots`, and the proofs of section 4.
2. What a service call adds to what its runtime promises: that the queue and the writer
   thread of `FinestVXService` are those of `LedgerRuntime`, as a refinement.
3. What is true of `Snapshots` when destinations are kept apart: a returned snapshot is the
   ledger of one moment of its call, with the theorem that it is.

## 7. What is not modelled, and why

Serialization, export and SQL rendering are stateless conversions whose correctness is about
text; configuration objects only check their fields. Of the legislative packs the issues of
the Latvian stub, one comparison per entry, and the booting of localizations are left out,
and of the reports those on localization resources: all of it is decided by ftllexengine.
Fields that a constructor checks one by one (types, currency codes, digits of an amount,
fiscal calendars) are not modelled either. `apsw`, SQLite and ftllexengine are taken from
how the code uses them: SQLite's transactions are atomic, isolated and durable, autocommit
reads see one committed state, `BEGIN IMMEDIATE` excludes other writers. Telemetry (trace,
profile, WAL hook) is left out, and so are the fields of an audit row other than its table,
key and actor. `SqliteLedgerStore.close` has the two outcomes that `LedgerRuntime`
distinguishes; a reader connection that does not close after the writer's has is not one of
them. Sums of amounts are exact: only `validate_fx_conversion` has Decimal's rounding, on
totals that are given and are whole numbers of minor units. Books other than one, and
several processes crashing independently, are not modelled.
