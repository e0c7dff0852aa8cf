--------------------------- MODULE FinestVXService ---------------------------
(***************************************************************************)
(* gateway/service.py over the parts it composes: a LedgerRuntime (its     *)
(* queue, its one writer thread and its lifecycle lock, LedgerRuntime.tla  *)
(* in detail), the ledger it writes, and the pool of interpreters in which *)
(* the legislative pack rules on a transaction.  Posting is a sequence of  *)
(* calls to these parts: append, load the book, rule, append the result.   *)
(* Every wait of it may time out, and the process may die in between.      *)
(***************************************************************************)
EXTENDS Validation

\* The code of the shipped pack, lv/standard_2026.py.
LatviaPack == "lv.standard.2026"

CONSTANTS Clients,   \* threads that call the service
          PoolMax,   \* legislative_interpreter_pool_max_size
          Packs,     \* legislative packs that books name
          Registry,  \* packs registered with the service's own registry
          MaxQueue   \* bound: nobody calls while that many commands are queued

ASSUME ServiceAssumption ==
  /\ None \notin Clients
  /\ PoolMax \in Nat \ {0}
  /\ MaxQueue \in Nat
  /\ LatviaPack \in Registry
  /\ \A r \in Requests : r.op # "append_legislative_result"

VARIABLES
  pack,      \* the legislative pack of the book
  queue,     \* commands for the writer thread, with the client that waits or None
  open,      \* the runtime's store is open
  poolOpen,  \* the interpreter pool is open
  pc,        \* per client, where its call is
  op,        \* per client, the method it called
  req,       \* per client, the request of its call
  answer,    \* per client, the result of its future
  returned,  \* history: transactions whose caller got a PostedTransactionResult
  raised     \* history: postings whose caller got an exception or died

parts == <<ledger, pack, queue, open, poolOpen>>
call == <<op, req, answer, returned, raised>>
serviceVars == <<parts, pc, call>>

Posting == {"post_transaction", "post_reversal"}

-----------------------------------------------------------------------------
ServiceInit ==
  /\ Init
  /\ pack \in Packs
  /\ queue = <<>>
  /\ open = TRUE
  /\ poolOpen = TRUE
  /\ pc = [c \in Clients |-> "idle"]
  /\ op = [c \in Clients |-> "none"]
  /\ req = [c \in Clients |-> None]
  /\ answer = [c \in Clients |-> "none"]
  /\ returned = {}
  /\ raised = {}

Goto(c, step) == pc' = [pc EXCEPT ![c] = step]

\* The transaction that a posting request adds.
RefOf(r) == IF r.op = "append_reversal" THEN r.reversal ELSE r.tx.ref

\* A posting that is past its submission.
Underway(c) == /\ op[c] \in Posting
             /\ pc[c] \notin {"idle", "submit"}

Leave(c) ==
  /\ Goto(c, "idle")
  /\ op' = [op EXCEPT ![c] = "none"]
  /\ req' = [req EXCEPT ![c] = None]
  /\ answer' = [answer EXCEPT ![c] = "none"]

Return(c) ==
  /\ Leave(c)
  /\ returned' = IF op[c] \in Posting THEN returned \cup {RefOf(req[c])} ELSE returned
  /\ UNCHANGED raised

\* The caller of a posting learns that it may be stored without its result.
Raise(c) ==
  /\ Leave(c)
  /\ raised' = IF Underway(c) THEN raised \cup {req[c]} ELSE raised
  /\ UNCHANGED returned

-----------------------------------------------------------------------------
(* Calls.                                                                  *)

MethodOf(r) ==
  CASE r.op = "create_book" -> "create_book"
    [] r.op = "append_transaction" -> "post_transaction"
    [] r.op = "append_reversal" -> "post_reversal"

Call(c, method, r, first) ==
  /\ pc[c] = "idle"
  /\ op' = [op EXCEPT ![c] = method]
  /\ req' = [req EXCEPT ![c] = r]
  /\ Goto(c, first)
  /\ UNCHANGED <<parts, answer, returned, raised>>

CallWrite(c) ==
  /\ Len(queue) < MaxQueue
  /\ \E r \in Requests : Call(c, MethodOf(r), r, "submit")

CallRead(c) ==
  \E method \in {"get_book", "validate_transaction", "validate_transaction_isolated"} :
    Call(c, method, None, "load")

CallClose(c) == Call(c, "close", None, "close_runtime")

-----------------------------------------------------------------------------
(* The runtime.                                                            *)

\* In a call of the runtime, waiting for the future of a command.
Waiting(c) == pc[c] \in {"await", "await_result"}

\* A writer that waits for the lifecycle lock, or has it, keeps readers out.
Closing == \E c \in Clients : pc[c] = "close_runtime"

Submit(c, r, next) ==
  /\ ~Closing
  /\ queue' = Append(queue, [client |-> c, request |-> r])
  /\ Goto(c, next)
  /\ UNCHANGED <<ledger, pack, open, poolOpen, call>>

SubmitWrite(c) ==
  /\ pc[c] = "submit"
  /\ Submit(c, req[c], "await")

\* The result is written in the name of the caller.
SubmitResult(c) ==
  /\ pc[c] = "submit_result"
  /\ Submit(c, [op |-> "append_legislative_result", ref |-> RefOf(req[c]),
                actor |-> req[c].actor], "await_result")

GateTimeout(c) ==
  /\ pc[c] \in {"submit", "submit_result", "load"}
  /\ Closing
  /\ Raise(c)
  /\ UNCHANGED parts

Write(r) ==
  CreateBook(r) \/ AppendTransaction(r) \/ AppendReversal(r) \/ AppendLegislativeResult(r)

Served(result) ==
  LET c == Head(queue).client
  IN /\ queue' = Tail(queue)
     /\ answer' = IF c = None THEN answer ELSE [answer EXCEPT ![c] = result]
     /\ UNCHANGED <<pack, open, poolOpen, pc, op, req, returned, raised>>

\* The writer thread executes a command, whether or not somebody still waits.
ServeAccepted ==
  /\ open
  /\ queue # <<>>
  /\ Write(Head(queue).request)
  /\ Served("ok")

\* The command is committed, and reading its receipt raises.
ServeUnreceipted ==
  /\ open
  /\ queue # <<>>
  /\ Write(Head(queue).request)
  /\ Served("error")

\* The store refuses the command, or the disk fails under it.
ServeRefused ==
  /\ open
  /\ queue # <<>>
  /\ Served("error")
  /\ UNCHANGED ledger

\* create_book returns the receipt; a posting goes on and loads the book.
Answered(c) ==
  /\ pc[c] = "await"
  /\ answer[c] = "ok"
  /\ IF op[c] \in Posting
       THEN /\ Goto(c, "load")
            /\ answer' = [answer EXCEPT ![c] = "none"]
            /\ UNCHANGED <<op, req, returned, raised>>
       ELSE Return(c)
  /\ UNCHANGED parts

Refused_ResultIgnored(c) ==
  /\ Waiting(c)
  /\ answer[c] = "error"
  /\ IF pc[c] = "await" THEN Raise(c) ELSE Return(c)
  /\ UNCHANGED parts

\* The caller gets the store's exception: of its transaction, or of its result.
Refused(c) ==
  /\ Waiting(c)
  /\ answer[c] = "error"
  /\ Raise(c)
  /\ UNCHANGED parts

AnswerTimeout_Retried(c) ==
  /\ pc[c] = "await_result"
  /\ answer[c] = "none"
  /\ Goto(c, "submit_result")
  /\ queue' = [i \in DOMAIN queue |->
                 IF queue[i].client = c THEN [queue[i] EXCEPT !.client = None] ELSE queue[i]]
  /\ UNCHANGED <<ledger, pack, open, poolOpen, call>>

\* The caller gives up; its command stays in the queue.
AnswerTimeout(c) ==
  /\ Waiting(c)
  /\ answer[c] = "none"
  /\ Raise(c)
  /\ queue' = [i \in DOMAIN queue |->
                 IF queue[i].client = c THEN [queue[i] EXCEPT !.client = None] ELSE queue[i]]
  /\ UNCHANGED <<ledger, pack, open, poolOpen>>

-----------------------------------------------------------------------------
(* The book and the ruling.                                                *)

AfterLoad(method) ==
  CASE method = "validate_transaction" -> "in_process"
    [] method \in Posting \cup {"validate_transaction_isolated"} -> "acquire"

Loadable == open /\ HasRow(ledger, "books", <<>>) /\ StoredBookLoads

\* load_book is atomic (StoreReads.tla).
Load(c) ==
  /\ pc[c] = "load"
  /\ ~Closing
  /\ Loadable
  /\ IF op[c] = "get_book" THEN Return(c) ELSE Goto(c, AfterLoad(op[c])) /\ UNCHANGED call
  /\ UNCHANGED parts

\* No such book, a book that does not load, a closed store, or no free reader.
LoadFails(c) ==
  /\ pc[c] = "load"
  /\ Raise(c)
  /\ UNCHANGED parts

\* validate_legislative_transaction resolves the pack in the service's registry.
ValidateInProcess(c) ==
  /\ pc[c] = "in_process"
  /\ IF pack \in Registry THEN Return(c) ELSE Raise(c)
  /\ UNCHANGED parts

CheckedOut == {c \in Clients : pc[c] = "validate"}

Acquire(c) ==
  /\ pc[c] = "acquire"
  /\ poolOpen
  /\ Cardinality(CheckedOut) < PoolMax
  /\ Goto(c, "validate")
  /\ UNCHANGED <<parts, call>>

AcquireFails(c) ==
  /\ pc[c] = "acquire"
  /\ ~poolOpen
  /\ Raise(c)
  /\ UNCHANGED parts

\* The subinterpreter builds its own registry, with the shipped pack in it.
DefaultRegistry == {LatviaPack}

\* A result with issues is a result: it is recorded, nothing is undone.
Validate(c) ==
  /\ pc[c] = "validate"
  /\ pack \in DefaultRegistry
  /\ IF op[c] \in Posting THEN Goto(c, "submit_result") /\ UNCHANGED call ELSE Return(c)
  /\ UNCHANGED parts

ValidateFails_Swallowed(c) ==
  /\ pc[c] = "validate"
  /\ Return(c)
  /\ UNCHANGED parts

\* An unknown pack, or an interpreter that fails; the pool gets it back.
ValidateFails(c) ==
  /\ pc[c] = "validate"
  /\ Raise(c)
  /\ UNCHANGED parts

\* Both receipts and the result are returned together.
PostingDone(c) ==
  /\ pc[c] = "await_result"
  /\ answer[c] = "ok"
  /\ Return(c)
  /\ UNCHANGED parts

-----------------------------------------------------------------------------
(* The end.                                                                *)

\* The join may time out with commands left in the queue: nobody serves them.
CloseRuntime(c) ==
  /\ pc[c] = "close_runtime"
  /\ open
  /\ \A d \in Clients : ~Waiting(d)
  /\ open' = FALSE
  /\ Goto(c, "close_pool")
  /\ UNCHANGED <<ledger, pack, queue, poolOpen, call>>

\* The lifecycle lock times out, or the runtime was closed before; the pool is
\* not reached.
CloseFails(c) ==
  /\ pc[c] = "close_runtime"
  /\ ~open \/ \E d \in Clients : Waiting(d)
  /\ Raise(c)
  /\ UNCHANGED parts

ClosePool(c) ==
  /\ pc[c] = "close_pool"
  /\ poolOpen' = FALSE
  /\ Return(c)
  /\ UNCHANGED <<ledger, pack, queue, open>>

\* The process dies and a new service is constructed on the same file.
Crash ==
  /\ queue' = <<>>
  /\ open' = TRUE
  /\ poolOpen' = TRUE
  /\ pc' = [c \in Clients |-> "idle"]
  /\ op' = [c \in Clients |-> "none"]
  /\ req' = [c \in Clients |-> None]
  /\ answer' = [c \in Clients |-> "none"]
  /\ raised' = raised \cup {req[c] : c \in {c \in Clients : Underway(c)}}
  /\ UNCHANGED <<ledger, pack, returned>>

-----------------------------------------------------------------------------
Begin(c) == CallWrite(c) \/ CallRead(c) \/ CallClose(c)

\* What a thread inside a call does next.
Proceed(c) ==
  \/ SubmitWrite(c) \/ SubmitResult(c) \/ GateTimeout(c)
  \/ Answered(c) \/ Refused(c) \/ AnswerTimeout(c) \/ PostingDone(c)
  \/ Load(c) \/ LoadFails(c) \/ ValidateInProcess(c)
  \/ Acquire(c) \/ AcquireFails(c) \/ Validate(c) \/ ValidateFails(c)
  \/ CloseRuntime(c) \/ CloseFails(c) \/ ClosePool(c)

ServiceNext == \/ \E c \in Clients : Begin(c) \/ Proceed(c)
               \/ ServeAccepted
               \/ ServeUnreceipted
               \/ ServeRefused
               \/ Crash

ServiceSpec == ServiceInit /\ [][ServiceNext]_serviceVars

-----------------------------------------------------------------------------
(* Properties.                                                             *)

ResultRows(ref) ==
  {i \in DOMAIN ledger.audit : /\ ledger.audit[i].table = "legislative_validation"
                               /\ ledger.audit[i].key[1] = ref}
HeaderRows(ref) ==
  {i \in DOMAIN ledger.audit : /\ ledger.audit[i].table = "transactions"
                               /\ ledger.audit[i].key[1] = ref}

\* What post_transaction and post_reversal return is true, and remains so: the
\* transaction is stored and its result recorded.
ReturnedIsRecorded ==
  \A ref \in returned : HasTransaction(ledger, ref) /\ ResultRows(ref) # {}

\* A result is recorded once for a transaction, after it and in the name of
\* the actor who posted it, whatever was retried, timed out or committed late.
ResultsFollowPostings ==
  \A ref \in Refs : \A i \in ResultRows(ref) :
    /\ ResultRows(ref) = {i}
    /\ \E h \in HeaderRows(ref) : h < i /\ ledger.audit[h].actor = ledger.audit[i].actor

\* Transactions that came with their book have no result.
Opening == UNION {{tx.ref : tx \in Range(r.transactions)} :
                    r \in {r \in Requests : r.op = "create_book"}}

PostedAs(r, ref) ==
  RefOf(r) = ref /\ \E h \in HeaderRows(ref) : ledger.audit[h].actor = r.actor

\* No posted transaction lacks its result in silence: a call of the actor who
\* posted it is still in progress, or got an exception, or died.
GapsAreReported ==
  \A ref \in Refs \ Opening :
    HasTransaction(ledger, ref) /\ ResultRows(ref) = {} =>
      \/ \E r \in raised : PostedAs(r, ref)
      \/ \E c \in Clients : Underway(c) /\ PostedAs(req[c], ref)
=============================================================================
