----------------------- MODULE FinestVXServiceProofs -----------------------
(***************************************************************************)
(* Proofs about FinestVXService.tla.  The invariant joins the calls of the *)
(* clients, the commands they left in the queue and the rows of the ledger:*)
(* a call owns the transaction it has posted until it returns or raises,   *)
(* alone; a queued result belongs to an owner, or to nobody; and a         *)
(* transaction without a result is owned, or was reported.  Nothing here   *)
(* bounds the clients, the queue, the pool or the crashes.                 *)
(***************************************************************************)
EXTENDS FinestVXService, LedgerProofs

-----------------------------------------------------------------------------
(* What a write of the ledger adds to its audit log.                       *)

AuditOf(d, table, ref) ==
  {i \in DOMAIN d.audit : d.audit[i].table = table /\ d.audit[i].key[1] = ref}
Results(d, ref) == AuditOf(d, "legislative_validation", ref)
PostedBy(d, ref, actor) ==
  \E h \in AuditOf(d, "transactions", ref) : d.audit[h].actor = actor

LEMMA PostedIsStored ==
  ASSUME NEW d \in Database, Audited(d), NEW ref, NEW h \in AuditOf(d, "transactions", ref)
  PROVE  HasTransaction(d, ref)
<1>1. h \in DOMAIN d.audit /\ d.audit[h].table = "transactions" /\ d.audit[h].key[1] = ref
  BY DEF AuditOf
<1>2. HasRow(d, "transactions", d.audit[h].key)
  BY <1>1 DEF Audited
<1>3. PICK x \in RowsOf(d, "transactions") : x.key = d.audit[h].key
  BY <1>2 DEF HasRow, RowsOf
<1> QED
  BY <1>1, <1>3, DatabaseRows

\* The transaction ref was posted by request r.
Settles(r, ref) == RefOf(r) = ref /\ PostedBy(ledger, ref, r.actor)

LEMMA LogKeepsPosted ==
  ASSUME NEW d, NEW e, LogGrows(d, e), NEW ref, NEW actor, PostedBy(d, ref, actor)
  PROVE  PostedBy(e, ref, actor)
  BY DEF LogGrows, PostedBy, AuditOf

\* A request's journals are signed by its actor; it has no results.
LEMMA JournalsAreSigned ==
  ASSUME LedgerInv, NEW r \in Request, WritesRows(r)
  PROVE  /\ LogGrows(ledger, ledger')
         /\ \A ref : Results(ledger', ref) = Results(ledger, ref)
         /\ \A tx \in JournalsOf(ledger, r) :
              PostedBy(ledger', tx.ref, r.actor) /\ ~HasTransaction(ledger, tx.ref)
         /\ \A ref : HasTransaction(ledger', ref) =>
              HasTransaction(ledger, ref) \/ \E tx \in JournalsOf(ledger, r) : tx.ref = ref
<1> DEFINE d   == ledger
           e   == ledger'
           all == AllRows(ledger, r)
           Ms  == MastersOf(r)
           Ts  == JournalsOf(ledger, r)
           a   == Len(d.audit)
           n   == Len(all)
<1>1. /\ d \in Database /\ Sound(d) /\ Audited(d)
      /\ e = WithRows(d, all, r.actor) /\ Accepted(d, all, r.actor, Ms, Ts)
  BY WriteIsAccepted DEF LedgerInv
<1> HIDE DEF d, e, all, Ms, Ts
<1>2. /\ all \in Seq(Row) /\ r.actor \in Actors /\ Range(all) = Ms \cup JournalRows(Ts)
      /\ Ts \subseteq Journal /\ \A row \in Ms : row.table \in MasterTables
      /\ \A tx \in Ts : ~HasTransaction(d, tx.ref)
  BY <1>1 DEF Accepted, Adds
<1>3. /\ a \in Nat /\ n \in Nat /\ DOMAIN d.audit = 1..a /\ DOMAIN e.audit = 1..(a + n)
      /\ \A i \in 1..a : e.audit[i] = d.audit[i]
      /\ \A i \in 1..n : e.audit[a + i] = Signed(all[i], r.actor)
      /\ DOMAIN all = 1..n
  <2>1. /\ Len(d.audit) \in Nat /\ Len(all) \in Nat
        /\ DOMAIN d.audit = 1..Len(d.audit)
        /\ DOMAIN e.audit = 1..(Len(d.audit) + Len(all))
        /\ \A i \in 1..Len(d.audit) : e.audit[i] = d.audit[i]
        /\ \A i \in 1..Len(all) : e.audit[Len(d.audit) + i] = Signed(all[i], r.actor)
    <3>1. all \in Seq(Row) /\ r.actor \in Actors /\ d \in Database /\ e = WithRows(d, all, r.actor)
      BY <1>1, <1>2
    <3> QED
      BY <3>1, WithRowsAudit
  <2>2. DOMAIN all = 1..Len(all)
    BY <1>2
  <2> QED
    BY <2>1, <2>2
<1> HIDE DEF a, n
<1>4. /\ \A i \in 1..a : i \in 1..(a + n)
      /\ \A i \in 1..n : a + i \in 1..(a + n)
      /\ \A i \in 1..(a + n) : i \in 1..a \/ \E k \in 1..n : i = a + k
  <2>1. \A i \in 1..(a + n) : i \in 1..a \/ (i - a \in 1..n /\ i = a + (i - a))
    BY <1>3
  <2> QED
    BY <1>3, <2>1
<1>5. LogGrows(d, e)
  BY <1>3, <1>4 DEF LogGrows
<1>6. \A tx \in Ts : \A row \in Range(TransactionRows(tx)) : row.table \in {"transactions", "entries"}
  BY <1>2, TransactionRowsContents DEF HeaderRow, EntryRow
<1>7. \A i \in 1..n : all[i].table # "legislative_validation"
  <2>1. \A row \in Range(all) : row.table # "legislative_validation"
    BY <1>2, <1>6 DEF JournalRows, MasterTables
  <2> QED
    BY <1>3, <2>1 DEF Range
<1>8. \A i \in 1..n : /\ e.audit[a + i].table = all[i].table /\ e.audit[a + i].key = all[i].key
                      /\ e.audit[a + i].actor = r.actor
  <2>1. \A row : /\ Signed(row, r.actor).table = row.table /\ Signed(row, r.actor).key = row.key
                 /\ Signed(row, r.actor).actor = r.actor
    BY DEF Signed
  <2> QED
    BY <1>3, <2>1
<1>9. ASSUME NEW ref
      PROVE  Results(e, ref) = Results(d, ref)
  <2>1. \A i \in DOMAIN e.audit : e.audit[i].table = "legislative_validation" => i \in 1..a
    <3> SUFFICES ASSUME NEW i \in 1..(a + n), e.audit[i].table = "legislative_validation",
                        i \notin 1..a
                 PROVE  FALSE
      BY <1>3
    <3>1. PICK k \in 1..n : i = a + k
      BY <1>4
    <3> QED
      BY <1>7, <1>8, <3>1
  <2> QED
    BY <1>3, <1>4, <2>1 DEF Results, AuditOf
<1>10. ASSUME NEW tx \in Ts
       PROVE  PostedBy(e, tx.ref, r.actor)
  <2>1. HeaderRow(tx) \in Range(all)
    BY <1>2, TransactionRowsContents DEF JournalRows
  <2>2. PICK k \in 1..n : all[k] = HeaderRow(tx)
    BY <1>3, <2>1 DEF Range
  <2>3. HeaderRow(tx).table = "transactions" /\ HeaderRow(tx).key[1] = tx.ref
    BY DEF HeaderRow
  <2>4. /\ a + k \in DOMAIN e.audit /\ e.audit[a + k].table = "transactions"
        /\ e.audit[a + k].key[1] = tx.ref /\ e.audit[a + k].actor = r.actor
    BY <1>3, <1>4, <1>8, <2>2, <2>3
  <2>5. a + k \in AuditOf(e, "transactions", tx.ref)
    BY <2>4 DEF AuditOf
  <2> QED
    BY <2>4, <2>5 DEF PostedBy
<1>11. ASSUME NEW ref, HasTransaction(e, ref)
       PROVE  HasTransaction(d, ref) \/ \E tx \in Ts : tx.ref = ref
  <2>1. RowsOf(e, "transactions") = RowsOf(d, "transactions") \cup HeadersOf(Ts)
    BY <1>1, WriteKeeps
  <2>2. PICK h \in RowsOf(e, "transactions") : h.key = <<ref, 0>> /\ h.key[1] = ref
    BY <1>11, StoredTransaction
  <2>3. h \in RowsOf(d, "transactions") => HasTransaction(d, ref)
    BY <2>2 DEF RowsOf, HasTransaction, HasRow
  <2>4. h \in HeadersOf(Ts) => \E tx \in Ts : tx.ref = ref
    BY <2>2 DEF HeadersOf, HeaderRow
  <2> QED
    BY <2>1, <2>2, <2>3, <2>4
<1> QED
  BY <1>2, <1>5, <1>9, <1>10, <1>11 DEF d, e, Ts

\* A result is one more row, the last one, in the name of its actor.
LEMMA ResultIsSigned ==
  ASSUME LedgerInv, NEW r \in Request, AppendLegislativeResult(r)
  PROVE  /\ LogGrows(ledger, ledger')
         /\ \A ref : HasTransaction(ledger', ref) <=> HasTransaction(ledger, ref)
         /\ \A ref : ref # r.ref => Results(ledger', ref) = Results(ledger, ref)
         /\ \E n : /\ Results(ledger', r.ref) = Results(ledger, r.ref) \cup {n}
                   /\ ledger'.audit[n].actor = r.actor
                   /\ \A i \in DOMAIN ledger.audit : i < n
<1> DEFINE d   == ledger
           e   == ledger'
           all == <<LegislativeRow(r.ref)>>
           a   == Len(d.audit)
<1>1. d \in Database /\ e = WithRows(d, all, r.actor)
  BY CommitIsWithRows DEF LedgerInv, AppendLegislativeResult, AllRows
<1>2. r.ref \in Refs /\ r.actor \in Actors
  BY RequestFields DEF AppendLegislativeResult
<1>3. all \in Seq(Row) /\ Len(all) = 1 /\ all[1] = LegislativeRow(r.ref)
  BY <1>2 DEF LegislativeRow, Row
<1>4. e.rows = d.rows
  BY LegislativeWrite
<1> HIDE DEF d, e, all
<1>5. /\ a \in Nat /\ DOMAIN d.audit = 1..a /\ DOMAIN e.audit = 1..(a + 1)
      /\ \A i \in 1..a : e.audit[i] = d.audit[i]
      /\ e.audit[a + 1] = Signed(LegislativeRow(r.ref), r.actor)
  <2>1. /\ a \in Nat /\ DOMAIN d.audit = 1..a /\ DOMAIN e.audit = 1..(a + Len(all))
        /\ \A i \in 1..a : e.audit[i] = d.audit[i]
        /\ \A i \in 1..Len(all) : e.audit[a + i] = Signed(all[i], r.actor)
    BY <1>1, <1>2, <1>3, WithRowsAudit
  <2>2. 1 \in 1..Len(all)
    BY <1>3
  <2> QED
    BY <1>3, <2>1, <2>2
<1> HIDE DEF a
<1>6. /\ DOMAIN e.audit = 1..a \cup {a + 1} /\ \A i \in 1..a : i < a + 1
      /\ a + 1 \notin 1..a
  BY <1>5
<1>7. /\ e.audit[a + 1].table = "legislative_validation" /\ e.audit[a + 1].key[1] = r.ref
      /\ e.audit[a + 1].actor = r.actor
  BY <1>5 DEF Signed, LegislativeRow
<1>8. LogGrows(d, e)
  BY <1>5, <1>6 DEF LogGrows
<1>9. \A ref : HasTransaction(e, ref) <=> HasTransaction(d, ref)
  BY <1>4 DEF HasTransaction, HasRow, d, e
<1>10. \A ref : ref # r.ref => Results(e, ref) = Results(d, ref)
  BY <1>5, <1>6, <1>7 DEF Results, AuditOf
<1>11. Results(e, r.ref) = Results(d, r.ref) \cup {a + 1}
  BY <1>5, <1>6, <1>7 DEF Results, AuditOf
<1> QED
  BY <1>5, <1>6, <1>7, <1>8, <1>9, <1>10, <1>11 DEF d, e

-----------------------------------------------------------------------------
(* The calls of the clients, and the commands they left in the queue.      *)

CallSteps == {"idle", "submit", "await", "load", "in_process", "acquire", "validate",
              "submit_result", "await_result", "close_runtime", "close_pool"}
Methods == Posting \cup {"none", "create_book", "get_book", "validate_transaction",
                         "validate_transaction_isolated", "close"}

Posts(r) == r.op \in {"append_transaction", "append_reversal"}
IsResult(r) == r.op = "append_legislative_result"

Command == [client: Clients \cup {None}, request: Requests \cup LegislativeRequest]

ServiceType ==
  /\ queue \in Seq(Command)
  /\ pc \in [Clients -> CallSteps]
  /\ op \in [Clients -> Methods]
  /\ req \in [Clients -> Requests \cup {None}]
  /\ answer \in [Clients -> {"none", "ok", "error"}]

\* What a call is at each of its steps.
CallShape(c) ==
  /\ pc[c] = "idle" => op[c] = "none"
  /\ op[c] \in Posting => req[c] \in Requests /\ Posts(req[c])
  /\ pc[c] \in {"submit", "await"} => req[c] \in Requests /\ op[c] = MethodOf(req[c])
  /\ pc[c] \in {"submit_result", "await_result"} => op[c] \in Posting
  /\ pc[c] = "load" =>
       op[c] \in Posting \cup {"get_book", "validate_transaction", "validate_transaction_isolated"}
  /\ pc[c] \in {"in_process", "close_runtime", "close_pool"} => op[c] \notin Posting
  /\ pc[c] \notin {"await", "await_result"} => answer[c] = "none"

ResultOf(r) == [op |-> "append_legislative_result", ref |-> RefOf(r), actor |-> r.actor]

\* The call of c has posted its transaction and has not returned.
Owns(c) ==
  /\ op[c] \in Posting
  /\ \/ pc[c] = "await" /\ answer[c] = "ok"
     \/ pc[c] \in {"load", "acquire", "validate", "submit_result", "await_result"}

\* The call of c has posted or was told an error: it may leave a gap.
Pending(c) == Owns(c) \/ (op[c] \in Posting /\ pc[c] = "await" /\ answer[c] = "error")

\* How the result of c was answered.
Told(c, a) == pc[c] = "await_result" /\ answer[c] = a

\* Nobody else owns what c has posted; its result is recorded when c was told
\* so, and is not while c was told neither that nor an error.
OwnerInv(c) ==
  Owns(c) =>
    /\ PostedBy(ledger, RefOf(req[c]), req[c].actor)
    /\ \A d \in Clients : Owns(d) /\ RefOf(req[d]) = RefOf(req[c]) => d = c
    /\ Told(c, "ok") => Results(ledger, RefOf(req[c])) # {}
    /\ Told(c, "ok") \/ Told(c, "error") \/ Results(ledger, RefOf(req[c])) = {}

CallsInv == \A c \in Clients : CallShape(c) /\ OwnerInv(c)

\* A client that waits for a command waits for its own; a transaction nobody
\* waits for was reported.
ClientInv(e) ==
  /\ e.client # None =>
       /\ answer[e.client] = "none"
       /\ \/ pc[e.client] = "await" /\ e.request = req[e.client]
          \/ pc[e.client] = "await_result" /\ e.request = ResultOf(req[e.client])
  /\ e.client = None /\ Posts(e.request) => e.request \in raised

\* A queued result is of a posted transaction, in the name of who posted it,
\* and is not recorded yet; only the call that waits for it can own it.
ResultInv(e) ==
  IsResult(e.request) =>
    /\ Results(ledger, e.request.ref) = {}
    /\ PostedBy(ledger, e.request.ref, e.request.actor)
    /\ \A c \in Clients : Owns(c) /\ RefOf(req[c]) = e.request.ref => e.client = c

\* No client waits for two commands, and no result is queued twice.
Apart(e, f) ==
  /\ e.client = f.client => e.client = None
  /\ IsResult(e.request) /\ IsResult(f.request) => e.request.ref # f.request.ref

CommandInv(e) == ClientInv(e) /\ ResultInv(e)
AllApart == \A i, j \in DOMAIN queue : i # j => Apart(queue[i], queue[j])
QueueInv == /\ \A i \in DOMAIN queue : CommandInv(queue[i])
            /\ AllApart

\* A gap is that of a call in progress, or was reported to who posted it.
Covered(ref) == \/ \E r \in raised : Settles(r, ref)
                \/ \E c \in Clients : Pending(c) /\ Settles(req[c], ref)
GapInv ==
  \A ref \in Refs \ Opening :
    HasTransaction(ledger, ref) /\ Results(ledger, ref) = {} => Covered(ref)

\* A result is recorded once, after its transaction and by who posted it.
Follows(d, ref) ==
  \A i \in Results(d, ref) :
    /\ Results(d, ref) = {i}
    /\ \E h \in AuditOf(d, "transactions", ref) : h < i /\ d.audit[h].actor = d.audit[i].actor
FollowInv == \A ref \in Refs : Follows(ledger, ref)

ReturnInv == \A ref \in returned : HasTransaction(ledger, ref) /\ Results(ledger, ref) # {}

CallInv == CallsInv /\ QueueInv /\ GapInv /\ FollowInv
ServiceInv == ServiceType /\ LedgerInv /\ CallInv /\ ReturnInv

-----------------------------------------------------------------------------
(* Types.                                                                  *)

LEMMA PostingFields ==
  ASSUME NEW r \in Requests, Posts(r)
  PROVE  r \in Request /\ RefOf(r) \in Refs /\ r.actor \in Actors /\ ResultOf(r) \in LegislativeRequest
<1>1. r \in Request
  BY LedgerAssumption
<1>2. RefOf(r) \in Refs /\ r.actor \in Actors
  BY <1>1, RequestFields DEF Posts, RefOf, Journal
<1> QED
  BY <1>1, <1>2 DEF ResultOf, LegislativeRequest

LEMMA RequestOps ==
  ASSUME NEW r \in Requests
  PROVE  r.op \in {"create_book", "append_transaction", "append_reversal"}
  BY LedgerAssumption, ServiceAssumption
     DEF Request, CreateBookRequest, AppendRequest, ReversalRequest, LegislativeRequest

LEMMA MethodOfRequest ==
  ASSUME NEW r \in Requests
  PROVE  MethodOf(r) \in Methods /\ (MethodOf(r) \in Posting <=> Posts(r))
         /\ MethodOf(r) # "none"
  BY RequestOps DEF MethodOf, Methods, Posting, Posts

LEMMA LeaveType ==
  ASSUME ServiceType, NEW c \in Clients, Leave(c)
  PROVE  /\ pc' \in [Clients -> CallSteps] /\ op' \in [Clients -> Methods]
         /\ req' \in [Clients -> Requests \cup {None}]
         /\ answer' \in [Clients -> {"none", "ok", "error"}]
  BY DEF ServiceType, Leave, Goto, CallSteps, Methods

LEMMA GotoType ==
  ASSUME ServiceType, NEW c \in Clients, NEW s \in CallSteps, Goto(c, s)
  PROVE  pc' \in [Clients -> CallSteps]
  BY DEF ServiceType, Goto

LEMMA SubmitType ==
  ASSUME ServiceType, NEW c \in Clients, NEW r \in Requests \cup LegislativeRequest,
         NEW s \in CallSteps, Submit(c, r, s)
  PROVE  ServiceType'
<1>1. [client |-> c, request |-> r] \in Command
  BY DEF Command
<1>2. queue' \in Seq(Command)
  BY <1>1 DEF Submit, ServiceType
<1> QED
  BY <1>2, GotoType DEF Submit, ServiceType, call

LEMMA QueueType ==
  ASSUME ServiceType, NEW c
  PROVE  LET q == [i \in DOMAIN queue |->
                     IF queue[i].client = c THEN [queue[i] EXCEPT !.client = None] ELSE queue[i]]
         IN /\ q \in Seq(Command) /\ DOMAIN q = DOMAIN queue
            /\ \A i \in DOMAIN queue :
                 /\ q[i].request = queue[i].request
                 /\ q[i].client = IF queue[i].client = c THEN None ELSE queue[i].client
<1> DEFINE q == [i \in DOMAIN queue |->
                   IF queue[i].client = c THEN [queue[i] EXCEPT !.client = None] ELSE queue[i]]
<1>1. Len(queue) \in Nat /\ DOMAIN queue = 1..Len(queue)
      /\ \A i \in 1..Len(queue) : queue[i] \in Command
  BY DEF ServiceType
<1>2. \A e \in Command : /\ [e EXCEPT !.client = None] \in Command
                         /\ [e EXCEPT !.client = None].request = e.request
                         /\ [e EXCEPT !.client = None].client = None
  BY DEF Command
<1>3. \A i \in 1..Len(queue) :
        /\ q[i] \in Command /\ q[i].request = queue[i].request
        /\ q[i].client = IF queue[i].client = c THEN None ELSE queue[i].client
  BY <1>1, <1>2
<1>4. q \in Seq(Command)
  BY <1>1, <1>3, IsASeq
<1> QED
  BY <1>1, <1>3, <1>4

LEMMA ServedType ==
  ASSUME ServiceType, queue # <<>>, NEW result \in {"ok", "error"}, Served(result)
  PROVE  ServiceType'
<1>1. queue' \in Seq(Command)
  BY DEF ServiceType, Served
<1>2. answer' \in [Clients -> {"none", "ok", "error"}]
  BY DEF ServiceType, Served
<1> QED
  BY <1>1, <1>2 DEF ServiceType, Served

LEMMA ServiceTypeInvariance ==
  ASSUME ServiceType, CallsInv, [ServiceNext]_serviceVars
  PROVE  ServiceType'
<1> USE DEF parts, call, CallSteps
<1>1. ASSUME NEW c \in Clients, Begin(c)
      PROVE  ServiceType'
  <2>1. ASSUME NEW m \in Methods, NEW r \in Requests \cup {None}, NEW s \in CallSteps,
               Call(c, m, r, s)
        PROVE  ServiceType'
    BY <2>1 DEF Call, Goto, ServiceType
  <2>2. CASE CallWrite(c)
    BY <2>1, <2>2, MethodOfRequest DEF CallWrite
  <2>3. CASE CallRead(c)
    BY <2>1, <2>3 DEF CallRead, Methods
  <2>4. CASE CallClose(c)
    BY <2>1, <2>4 DEF CallClose, Methods
  <2> QED
    BY <1>1, <2>2, <2>3, <2>4 DEF Begin
<1>2. ASSUME NEW c \in Clients, Leave(c), UNCHANGED queue
      PROVE  ServiceType'
  BY <1>2, LeaveType DEF ServiceType
<1>3. ASSUME NEW c \in Clients, NEW s \in CallSteps, Goto(c, s), UNCHANGED <<queue, op, req>>,
             answer' = answer \/ answer' = [answer EXCEPT ![c] = "none"]
      PROVE  ServiceType'
  BY <1>3, GotoType DEF ServiceType
<1>4. ASSUME NEW c \in Clients, Proceed(c)
      PROVE  ServiceType'
  <2> USE DEF Return, Raise
  <2>1. CASE SubmitWrite(c)
    BY <2>1, SubmitType DEF SubmitWrite, CallsInv, CallShape
  <2>2. CASE SubmitResult(c)
    <3>1. ResultOf(req[c]) \in LegislativeRequest
      BY <2>2, PostingFields DEF SubmitResult, CallsInv, CallShape
    <3> QED
      BY <2>2, <3>1, SubmitType DEF SubmitResult, ResultOf
  <2>3. CASE GateTimeout(c)
    BY <1>2, <2>3 DEF GateTimeout
  <2>4. CASE Answered(c)
    BY <1>2, <1>3, <2>4 DEF Answered
  <2>5. CASE Refused(c)
    BY <1>2, <2>5 DEF Refused
  <2>6. CASE AnswerTimeout(c)
    <3>1. Leave(c) /\ queue' \in Seq(Command)
      BY <2>6, QueueType DEF AnswerTimeout
    <3> QED
      BY <3>1, LeaveType DEF ServiceType
  <2>7. CASE PostingDone(c)
    BY <1>2, <2>7 DEF PostingDone
  <2>8. CASE Load(c)
    <3>1. \/ Leave(c) /\ UNCHANGED queue
          \/ pc[c] = "load" /\ op[c] # "get_book" /\ Goto(c, AfterLoad(op[c])) /\ UNCHANGED <<queue, op, req, answer>>
      BY <2>8 DEF Load
    <3>2. op[c] # "get_book" /\ pc[c] = "load" => AfterLoad(op[c]) \in {"in_process", "acquire"}
      BY DEF CallsInv, CallShape, AfterLoad
    <3> QED
      BY <1>2, <1>3, <3>1, <3>2
  <2>9. CASE LoadFails(c)
    BY <1>2, <2>9 DEF LoadFails
  <2>10. CASE ValidateInProcess(c)
    BY <1>2, <2>10 DEF ValidateInProcess
  <2>11. CASE Acquire(c)
    BY <1>3, <2>11 DEF Acquire
  <2>12. CASE AcquireFails(c)
    BY <1>2, <2>12 DEF AcquireFails
  <2>13. CASE Validate(c)
    BY <1>2, <1>3, <2>13 DEF Validate
  <2>14. CASE ValidateFails(c)
    BY <1>2, <2>14 DEF ValidateFails
  <2>15. CASE CloseRuntime(c)
    BY <1>3, <2>15 DEF CloseRuntime
  <2>16. CASE CloseFails(c)
    BY <1>2, <2>16 DEF CloseFails
  <2>17. CASE ClosePool(c)
    BY <1>2, <2>17 DEF ClosePool
  <2> QED
    BY <1>4, <2>1, <2>2, <2>3, <2>4, <2>5, <2>6, <2>7, <2>8, <2>9, <2>10, <2>11, <2>12, <2>13,
       <2>14, <2>15, <2>16, <2>17 DEF Proceed
<1>5. CASE ServeAccepted
  BY <1>5, ServedType DEF ServeAccepted
<1>6. CASE ServeRefused \/ ServeUnreceipted
  BY <1>6, ServedType DEF ServeRefused, ServeUnreceipted
<1>7. CASE Crash
  BY <1>7 DEF Crash, ServiceType, Methods
<1>8. CASE UNCHANGED serviceVars
  BY <1>8 DEF serviceVars, ServiceType
<1> QED
  BY <1>1, <1>4, <1>5, <1>6, <1>7, <1>8 DEF ServiceNext

-----------------------------------------------------------------------------
(* Steps of one client.                                                    *)

\* A step of c changes the call of nobody else.
LocalTo(c) ==
  \A d \in Clients : d # c => /\ pc'[d] = pc[d] /\ op'[d] = op[d]
                              /\ req'[d] = req[d] /\ answer'[d] = answer[d]

Waits(c) == \E i \in DOMAIN queue : queue[i].client = c

LEMMA NotWaiting ==
  ASSUME CallInv, NEW c \in Clients,
         pc[c] \notin {"await", "await_result"} \/ answer[c] # "none"
  PROVE  ~Waits(c)
<1> SUFFICES ASSUME NEW i \in DOMAIN queue, queue[i].client = c
             PROVE  FALSE
  BY DEF Waits
<1>1. ClientInv(queue[i])
  BY DEF CallInv, QueueInv, CommandInv
<1> QED
  BY <1>1, ServiceAssumption DEF ClientInv

\* A command that c does not wait for is not affected by a step of c.
LEMMA CommandKept ==
  ASSUME NEW c \in Clients, LocalTo(c), UNCHANGED ledger, raised \subseteq raised',
         NEW f \in Command, f.client # c, CommandInv(f),
         \A d \in Clients : Owns(d)' => Owns(d) /\ req'[d] = req[d]
  PROVE  CommandInv(f)'
<1> USE DEF CommandInv
<1>1. f.client \in Clients \cup {None}
  BY DEF Command
<1>2. ClientInv(f)'
  BY <1>1 DEF ClientInv, LocalTo
<1>3. ResultInv(f)'
  BY DEF ResultInv
<1> QED
  BY <1>2, <1>3

LEMMA QueuedCommand ==
  ASSUME ServiceType, CallInv, NEW i \in DOMAIN queue
  PROVE  \E f \in Command : f = queue[i] /\ CommandInv(f)
  BY DEF ServiceType, CallInv, QueueInv

LEMMA QueueAfter ==
  ASSUME \A i \in DOMAIN queue' : \E f : f = queue'[i] /\ CommandInv(f)', AllApart'
  PROVE  QueueInv'
  BY DEF QueueInv

\* A step that neither writes nor queues anything: an owner stays one, or its
\* gap is reported or none.
LEMMA QuietStep ==
  ASSUME ServiceType, CallInv, NEW c \in Clients, LocalTo(c), UNCHANGED <<ledger, queue>>,
         raised \subseteq raised', ~Waits(c), CallShape(c)',
         Owns(c)' => /\ Owns(c) /\ req'[c] = req[c]
                     /\ pc[c] # "await_result" /\ pc'[c] # "await_result",
         Pending(c) /\ ~(Pending(c)' /\ req'[c] = req[c]) =>
           req[c] \in raised' \/ Results(ledger, RefOf(req[c])) # {}
  PROVE  CallInv'
<1>1. \A d \in Clients : Owns(d)' => Owns(d) /\ req'[d] = req[d]
  BY DEF LocalTo, Owns
<1>2. \A d \in Clients : d # c => (Pending(d)' <=> Pending(d))
  BY DEF LocalTo, Owns, Pending
<1>3. ASSUME NEW d \in Clients
      PROVE  CallShape(d)' /\ OwnerInv(d)'
  <2>1. CallShape(d)'
    BY DEF LocalTo, CallInv, CallsInv, CallShape
  <2>2. Owns(d)' => /\ Owns(d) /\ req'[d] = req[d]
                    /\ \A a : Told(d, a)' <=> Told(d, a)
    BY <1>1 DEF LocalTo, Told
  <2>3. OwnerInv(d)
    BY DEF CallInv, CallsInv
  <2> QED
    BY <1>1, <2>1, <2>2, <2>3 DEF OwnerInv
<1>4. ASSUME NEW i \in DOMAIN queue
      PROVE  \E f : f = queue'[i] /\ CommandInv(f)'
  <2>1. PICK f \in Command : f = queue[i] /\ CommandInv(f)
    BY QueuedCommand
  <2>2. f.client # c
    BY <2>1 DEF Waits
  <2>3. CommandInv(f)'
    BY <1>1, <2>1, <2>2, CommandKept
  <2> QED
    BY <2>1, <2>3
<1>5. QueueInv'
  <2>1. AllApart'
    BY DEF CallInv, QueueInv, AllApart
  <2> QED
    BY <1>4, <2>1, QueueAfter
<1>6. GapInv'
  <2>1. \A d \in Clients : Pending(d) =>
          \/ Pending(d)' /\ req'[d] = req[d]
          \/ req[d] \in raised'
          \/ Results(ledger, RefOf(req[d])) # {}
    BY <1>2 DEF LocalTo
  <2> QED
    BY <2>1 DEF CallInv, GapInv, Covered, Settles
<1>7. FollowInv'
  BY DEF CallInv, FollowInv
<1> QED
  BY <1>3, <1>5, <1>6, <1>7 DEF CallInv, CallsInv

LEMMA LeaveStep ==
  ASSUME ServiceType, CallInv, NEW c \in Clients, Leave(c), UNCHANGED <<ledger, queue>>,
         raised \subseteq raised', ~Waits(c),
         Pending(c) => req[c] \in raised' \/ Results(ledger, RefOf(req[c])) # {}
  PROVE  CallInv'
<1>1. LocalTo(c) /\ pc'[c] = "idle" /\ op'[c] = "none" /\ answer'[c] = "none"
  BY DEF ServiceType, Leave, Goto, LocalTo
<1>2. CallShape(c)' /\ ~Owns(c)'
  BY <1>1 DEF CallShape, Owns, Posting
<1> QED
  BY <1>1, <1>2, QuietStep

LEMMA RaiseStep ==
  ASSUME ServiceType, CallInv, NEW c \in Clients, Raise(c), UNCHANGED parts, ~Waits(c)
  PROVE  CallInv'
<1>1. Pending(c) => Underway(c)
  BY DEF Pending, Owns, Underway
<1>2. raised \subseteq raised' /\ (Pending(c) => req[c] \in raised')
  BY <1>1 DEF Raise
<1>3. Leave(c) /\ UNCHANGED <<ledger, queue>>
  BY DEF Raise, parts
<1> QED
  BY <1>2, <1>3, LeaveStep

LEMMA ReturnStep ==
  ASSUME ServiceType, CallInv, NEW c \in Clients, Return(c), UNCHANGED <<ledger, queue>>,
         ~Waits(c), Pending(c) => Results(ledger, RefOf(req[c])) # {}
  PROVE  CallInv'
<1>1. Leave(c) /\ raised' = raised
  BY DEF Return
<1> QED
  BY <1>1, LeaveStep

LEMMA GotoStep ==
  ASSUME ServiceType, CallInv, NEW c \in Clients, NEW s, Goto(c, s), UNCHANGED <<ledger, queue>>,
         UNCHANGED call, ~Waits(c), CallShape(c)',
         Owns(c) \/ s \in {"load", "acquire", "validate", "submit_result"} => pc[c] # "await_result",
         op[c] \in Posting =>
           (Owns(c) <=> s \in {"load", "acquire", "validate", "submit_result"}),
         pc[c] # "await" /\ s # "await" /\ s # "await_result"
  PROVE  CallInv'
<1>1. LocalTo(c) /\ pc'[c] = s /\ op'[c] = op[c] /\ req'[c] = req[c] /\ raised' = raised
  BY DEF ServiceType, Goto, LocalTo, call
<1>2. (Owns(c)' <=> Owns(c)) /\ (Pending(c) => Pending(c)')
  BY <1>1 DEF Owns, Pending
<1> QED
  BY <1>1, <1>2, QuietStep

\* A command is queued.
LEMMA QueueStep ==
  ASSUME ServiceType, CallInv, NEW c \in Clients, NEW r, NEW s, Submit(c, r, s),
         ~Waits(c), answer[c] = "none", CallShape(c)',
         \/ s = "await" /\ pc[c] = "submit" /\ r = req[c] /\ ~IsResult(r)
         \/ s = "await_result" /\ pc[c] = "submit_result" /\ r = ResultOf(req[c]) /\ Owns(c)
  PROVE  CallInv'
<1> DEFINE e == [client |-> c, request |-> r]
<1>1. /\ LocalTo(c) /\ pc'[c] = s
      /\ queue' = Append(queue, e) /\ UNCHANGED <<ledger, op, req, answer, raised>>
  BY DEF ServiceType, Goto, LocalTo, Submit, call
<1>2. \A d \in Clients : (Owns(d)' <=> Owns(d)) /\ (Pending(d) => Pending(d)')
  BY <1>1 DEF LocalTo, Owns, Pending
<1>3. ASSUME NEW d \in Clients
      PROVE  CallShape(d)' /\ OwnerInv(d)'
  <2>1. CallShape(d)'
    BY <1>1 DEF LocalTo, CallInv, CallsInv, CallShape
  <2>2. OwnerInv(d)
    BY DEF CallInv, CallsInv
  <2>3. \A a : Owns(d) /\ a # "none" => (Told(d, a)' <=> Told(d, a))
    BY <1>1 DEF LocalTo, Told
  <2> QED
    BY <1>1, <1>2, <2>1, <2>2, <2>3 DEF OwnerInv
<1>4. e \in Command
  <2>1. r \in Requests \cup LegislativeRequest
    BY PostingFields DEF CallInv, CallsInv, CallShape
  <2> QED
    BY <2>1 DEF Command
<1>5. ASSUME NEW f \in Command, CommandInv(f), f.client # c
      PROVE  Apart(f, e) /\ Apart(e, f)
  <2>1. IsResult(f.request) /\ IsResult(r) => f.request.ref # r.ref
    <3>1. IsResult(r) => Owns(c) /\ r.ref = RefOf(req[c])
      BY DEF ResultOf
    <3> QED
      BY <1>5, <3>1 DEF CommandInv, ResultInv
  <2> QED
    BY <1>5, <2>1 DEF Apart
<1>6. CommandInv(e)'
  <2>1. ClientInv(e)'
    BY <1>1, ServiceAssumption DEF ClientInv
  <2>2. CASE ~IsResult(r)
    BY <2>1, <2>2 DEF CommandInv, ResultInv
  <2>3. CASE r = ResultOf(req[c]) /\ Owns(c) /\ pc[c] = "submit_result"
    <3>1. /\ PostedBy(ledger, RefOf(req[c]), req[c].actor)
          /\ \A d \in Clients : Owns(d) /\ RefOf(req[d]) = RefOf(req[c]) => d = c
          /\ Results(ledger, RefOf(req[c])) = {}
      BY <2>3 DEF CallInv, CallsInv, OwnerInv, Told
    <3>2. r.ref = RefOf(req[c]) /\ r.actor = req[c].actor
      BY <2>3 DEF ResultOf
    <3>3. ResultInv(e)'
      BY <1>1, <1>2, <3>1, <3>2 DEF ResultInv
    <3> QED
      BY <2>1, <3>3 DEF CommandInv
  <2> QED
    BY <2>2, <2>3
<1> HIDE DEF e
<1>7. /\ Len(queue) \in Nat /\ DOMAIN queue = 1..Len(queue)
      /\ DOMAIN queue' = DOMAIN queue \cup {Len(queue) + 1}
      /\ \A i \in DOMAIN queue : queue'[i] = queue[i]
      /\ queue'[Len(queue) + 1] = e
  BY <1>1, <1>4 DEF ServiceType
<1>8. ASSUME NEW i \in DOMAIN queue
      PROVE  \E f \in Command : f = queue[i] /\ CommandInv(f) /\ f.client # c
  BY QueuedCommand DEF Waits
<1>9. QueueInv'
  <2>1. ASSUME NEW i \in DOMAIN queue'
        PROVE  \E f : f = queue'[i] /\ CommandInv(f)'
    <3>1. CASE i \in DOMAIN queue
      <4>1. PICK f \in Command : f = queue[i] /\ CommandInv(f) /\ f.client # c
        BY <1>8, <3>1
      <4>2. CommandInv(f)'
        BY <1>1, <1>2, <4>1, CommandKept
      <4> QED
        BY <1>7, <3>1, <4>1, <4>2
    <3>2. CASE i = Len(queue) + 1
      <4>1. PICK f : f = e
        OBVIOUS
      <4>2. CommandInv(f)'
        BY <1>6, <4>1 DEF e
      <4> QED
        BY <1>7, <3>2, <4>1, <4>2
    <3> QED
      BY <1>7, <2>1, <3>1, <3>2
  <2>2. \A i \in DOMAIN queue : Apart(queue[i], e) /\ Apart(e, queue[i])
    BY <1>5, <1>8
  <2>3. AllApart'
    BY <1>7, <2>2 DEF CallInv, QueueInv, AllApart
  <2> QED
    BY <2>1, <2>3, QueueAfter
<1>10. GapInv' /\ FollowInv'
  BY <1>1, <1>2 DEF CallInv, GapInv, Covered, Settles, FollowInv
<1> QED
  BY <1>3, <1>9, <1>10 DEF CallInv, CallsInv

LEMMA TimeoutStep ==
  ASSUME ServiceType, CallInv, NEW c \in Clients, AnswerTimeout(c)
  PROVE  CallInv'
<1>1. /\ LocalTo(c) /\ pc'[c] = "idle" /\ op'[c] = "none" /\ answer'[c] = "none"
      /\ ledger' = ledger
  BY DEF ServiceType, AnswerTimeout, Raise, Leave, Goto, LocalTo
<1>2. CallShape(c)' /\ ~Owns(c)'
  BY <1>1 DEF CallShape, Owns, Posting
<1>3. /\ raised \subseteq raised'
      /\ Pending(c) \/ (op[c] \in Posting /\ pc[c] = "await") => req[c] \in raised'
  <2>1. Pending(c) \/ (op[c] \in Posting /\ pc[c] = "await") => Underway(c)
    BY DEF Pending, Owns, Underway
  <2> QED
    BY <2>1 DEF AnswerTimeout, Raise
<1>4. \A d \in Clients : Owns(d)' => Owns(d) /\ req'[d] = req[d] /\ d # c
  BY <1>1, <1>2 DEF LocalTo, Owns
<1>5. ASSUME NEW d \in Clients
      PROVE  CallShape(d)' /\ OwnerInv(d)'
  <2>1. CallShape(d)'
    BY <1>1, <1>2 DEF LocalTo, CallInv, CallsInv, CallShape
  <2>2. Owns(d)' => /\ Owns(d) /\ req'[d] = req[d]
                    /\ \A a : Told(d, a)' <=> Told(d, a)
    BY <1>1, <1>4 DEF LocalTo, Told
  <2>3. OwnerInv(d)
    BY DEF CallInv, CallsInv
  <2> QED
    BY <1>1, <1>4, <2>1, <2>2, <2>3 DEF OwnerInv
<1>6. /\ DOMAIN queue' = DOMAIN queue
      /\ \A i \in DOMAIN queue :
           /\ queue'[i] \in Command
           /\ queue'[i].request = queue[i].request
           /\ queue'[i].client = IF queue[i].client = c THEN None ELSE queue[i].client
  <2>1. queue' = [i \in DOMAIN queue |->
                    IF queue[i].client = c THEN [queue[i] EXCEPT !.client = None] ELSE queue[i]]
    BY DEF AnswerTimeout
  <2>2. /\ queue' \in Seq(Command) /\ DOMAIN queue' = DOMAIN queue
        /\ \A i \in DOMAIN queue :
             /\ queue'[i].request = queue[i].request
             /\ queue'[i].client = IF queue[i].client = c THEN None ELSE queue[i].client
    BY <2>1, QueueType
  <2>3. \A i \in DOMAIN queue' : queue'[i] \in Command
    BY <2>2
  <2> QED
    BY <2>2, <2>3
<1>7. ASSUME NEW i \in DOMAIN queue'
      PROVE  \E f : f = queue'[i] /\ CommandInv(f)'
  <2>1. i \in DOMAIN queue
    BY <1>6
  <2>2. PICK f \in Command : f = queue[i] /\ CommandInv(f)
    BY <2>1, QueuedCommand
  <2>3. PICK g : g = queue'[i]
    OBVIOUS
  <2>4. /\ g \in Command /\ g.request = f.request
        /\ g.client = IF f.client = c THEN None ELSE f.client
    BY <1>6, <2>1, <2>2, <2>3
  <2>5. CASE f.client # c
    <3>1. g = f
      BY <2>2, <2>4, <2>5 DEF Command
    <3> QED
      BY <1>1, <1>3, <1>4, <2>2, <2>3, <2>5, <3>1, CommandKept
  <2>6. CASE f.client = c
    <3>1. /\ c # None /\ g.client = None
          /\ \/ pc[c] = "await" /\ f.request = req[c]
             \/ pc[c] = "await_result" /\ f.request = ResultOf(req[c])
      BY <2>2, <2>4, <2>6, ServiceAssumption DEF CommandInv, ClientInv
    <3>2. Posts(g.request) => g.request \in raised'
      <4>1. CASE pc[c] = "await" /\ f.request = req[c]
        <5>1. req[c] \in Requests /\ op[c] = MethodOf(req[c])
          BY <4>1 DEF CallInv, CallsInv, CallShape
        <5> QED
          BY <1>3, <2>4, <4>1, <5>1, MethodOfRequest
      <4>2. CASE f.request = ResultOf(req[c])
        BY <2>4, <4>2 DEF ResultOf, Posts
      <4> QED
        BY <3>1, <4>1, <4>2
    <3>3. ClientInv(g)'
      BY <3>1, <3>2 DEF ClientInv
    <3>4. ResultInv(g)'
      BY <1>1, <1>4, <2>2, <2>4, <2>6 DEF CommandInv, ResultInv
    <3> QED
      BY <2>3, <3>3, <3>4 DEF CommandInv
  <2> QED
    BY <2>5, <2>6
<1>8. AllApart'
  BY <1>6, ServiceAssumption DEF CallInv, QueueInv, AllApart, Apart
<1>9. GapInv'
  <2>1. \A d \in Clients : Pending(d) /\ d # c => Pending(d)' /\ req'[d] = req[d]
    BY <1>1 DEF LocalTo, Owns, Pending
  <2> QED
    BY <1>1, <1>3, <2>1 DEF CallInv, GapInv, Covered, Settles
<1>10. FollowInv' /\ QueueInv'
  BY <1>1, <1>7, <1>8, QueueAfter DEF CallInv, FollowInv
<1> QED
  BY <1>5, <1>9, <1>10 DEF CallInv, CallsInv

-----------------------------------------------------------------------------
(* Steps of the writer thread.                                             *)

\* The client of a command that is served is waiting for it; what is left in
\* the queue is somebody else's.
LEMMA ServedCommand ==
  ASSUME ServiceType, CallInv, queue # <<>>, NEW e, e = Head(queue)
  PROVE  /\ e \in Command /\ CommandInv(e)
         /\ \A i \in DOMAIN Tail(queue) : \E f \in Command :
              f = Tail(queue)[i] /\ CommandInv(f) /\ Apart(e, f)
         /\ \A i, j \in DOMAIN Tail(queue) : i # j => Apart(Tail(queue)[i], Tail(queue)[j])
<1>1. /\ Len(queue) \in Nat /\ 1 \in DOMAIN queue /\ Head(queue) = queue[1]
      /\ \A i \in DOMAIN Tail(queue) :
           /\ i \in Nat /\ i + 1 \in DOMAIN queue /\ i + 1 # 1
           /\ Tail(queue)[i] = queue[i + 1]
  BY DEF ServiceType
<1>2. e \in Command /\ CommandInv(e)
  BY <1>1, QueuedCommand
<1>3. ASSUME NEW i \in DOMAIN Tail(queue)
      PROVE  \E f \in Command : f = Tail(queue)[i] /\ CommandInv(f) /\ Apart(e, f)
  <2>1. PICK f \in Command : f = queue[i + 1] /\ CommandInv(f)
    BY <1>1, QueuedCommand
  <2>2. Apart(queue[1], queue[i + 1])
    BY <1>1 DEF CallInv, QueueInv, AllApart
  <2> QED
    BY <1>1, <2>1, <2>2
<1>4. \A i, j \in DOMAIN Tail(queue) : i # j => Apart(Tail(queue)[i], Tail(queue)[j])
  <2> SUFFICES ASSUME NEW i \in DOMAIN Tail(queue), NEW j \in DOMAIN Tail(queue), i # j
               PROVE  Apart(Tail(queue)[i], Tail(queue)[j])
    OBVIOUS
  <2>1. i + 1 \in DOMAIN queue /\ j + 1 \in DOMAIN queue /\ i + 1 # j + 1
    BY <1>1
  <2> QED
    BY <1>1, <2>1 DEF CallInv, QueueInv, AllApart
<1> QED
  BY <1>2, <1>3, <1>4

\* What serving a command does to the calls: one client gets its answer.
LEMMA ServedCalls ==
  ASSUME ServiceType, CallInv, queue # <<>>, NEW e, e = Head(queue),
         NEW result \in {"ok", "error"}, Served(result)
  PROVE  /\ UNCHANGED <<pc, op, req, raised>> /\ queue' = Tail(queue)
         /\ \A d \in Clients : answer'[d] = IF d = e.client THEN result ELSE answer[d]
         /\ e.client # None =>
              /\ e.client \in Clients /\ answer[e.client] = "none"
              /\ \/ pc[e.client] = "await" /\ e.request = req[e.client]
                 \/ pc[e.client] = "await_result" /\ e.request = ResultOf(req[e.client])
         /\ \A d \in Clients : CallShape(d)'
         /\ \A d \in Clients : d # e.client => (Owns(d)' <=> Owns(d))
         /\ \A d \in Clients : Pending(d) => Pending(d)'
<1>1. e \in Command /\ ClientInv(e)
  BY ServedCommand DEF CommandInv
<1>2. /\ UNCHANGED <<pc, op, req, raised>> /\ queue' = Tail(queue)
      /\ \A d \in Clients : answer'[d] = IF d = e.client THEN result ELSE answer[d]
  BY ServiceAssumption DEF ServiceType, Served
<1>3. e.client # None =>
        /\ e.client \in Clients /\ answer[e.client] = "none"
        /\ \/ pc[e.client] = "await" /\ e.request = req[e.client]
           \/ pc[e.client] = "await_result" /\ e.request = ResultOf(req[e.client])
  BY <1>1 DEF Command, ClientInv
<1>4. \A d \in Clients : CallShape(d)'
  BY <1>2, <1>3, ServiceAssumption DEF CallInv, CallsInv, CallShape
<1>5. \A d \in Clients : d # e.client => (Owns(d)' <=> Owns(d))
  BY <1>2 DEF Owns
<1>6. \A d \in Clients : Pending(d) => Pending(d)'
  BY <1>2, <1>3, ServiceAssumption DEF Pending, Owns
<1> QED
  BY <1>2, <1>3, <1>4, <1>5, <1>6

LEMMA RefusedStep ==
  ASSUME ServiceType, CallInv, ServeRefused
  PROVE  CallInv'
<1>1. PICK e : e = Head(queue)
  OBVIOUS
<1>2. queue # <<>> /\ Served("error") /\ ledger' = ledger
  BY DEF ServeRefused
<1>3. /\ UNCHANGED <<pc, op, req, raised>> /\ queue' = Tail(queue)
      /\ \A d \in Clients : answer'[d] = IF d = e.client THEN "error" ELSE answer[d]
      /\ e.client # None =>
           /\ e.client \in Clients /\ answer[e.client] = "none"
           /\ \/ pc[e.client] = "await" /\ e.request = req[e.client]
              \/ pc[e.client] = "await_result" /\ e.request = ResultOf(req[e.client])
      /\ \A d \in Clients : CallShape(d)'
      /\ \A d \in Clients : d # e.client => (Owns(d)' <=> Owns(d))
      /\ \A d \in Clients : Pending(d) => Pending(d)'
  BY <1>1, <1>2, ServedCalls
<1>4. \A d \in Clients : Owns(d)' <=> Owns(d)
  BY <1>3, ServiceAssumption DEF Owns
<1>5. \A d \in Clients : OwnerInv(d)'
  <2> TAKE d \in Clients
  <2>1. OwnerInv(d)
    BY DEF CallInv, CallsInv
  <2>2. (Told(d, "ok")' => Told(d, "ok")) /\ (Told(d, "ok") => Told(d, "ok")' )
        /\ (Told(d, "error") => Told(d, "error")')
    BY <1>3, ServiceAssumption DEF Told
  <2> QED
    BY <1>2, <1>3, <1>4, <2>1, <2>2 DEF OwnerInv
<1>6. ASSUME NEW i \in DOMAIN queue'
      PROVE  \E f : f = queue'[i] /\ CommandInv(f)'
  <2>1. PICK f \in Command : f = queue'[i] /\ CommandInv(f) /\ Apart(e, f)
    BY <1>1, <1>2, <1>3, <1>6, ServedCommand
  <2>2. ClientInv(f)'
    BY <1>3, <2>1 DEF CommandInv, ClientInv, Apart, Command
  <2>3. ResultInv(f)'
    BY <1>2, <1>3, <1>4, <2>1 DEF CommandInv, ResultInv
  <2> QED
    BY <2>1, <2>2, <2>3 DEF CommandInv
<1>7. AllApart'
  BY <1>1, <1>2, <1>3, ServedCommand DEF AllApart
<1>8. GapInv' /\ FollowInv'
  BY <1>2, <1>3, <1>4 DEF CallInv, GapInv, Covered, Settles, FollowInv
<1> QED
  BY <1>3, <1>5, <1>6, <1>7, <1>8, QueueAfter DEF CallInv, CallsInv

\* A transaction without a row has no result, either.
LEMMA NoResultYet ==
  ASSUME LedgerInv, FollowInv, NEW ref \in Refs, ~HasTransaction(ledger, ref)
  PROVE  Results(ledger, ref) = {} /\ \A actor : ~PostedBy(ledger, ref, actor)
<1>1. AuditOf(ledger, "transactions", ref) = {}
  BY PostedIsStored DEF LedgerInv
<1> QED
  BY <1>1 DEF FollowInv, Follows, PostedBy

LEMMA FollowsKept ==
  ASSUME NEW d, NEW e, LogGrows(d, e), NEW ref, Results(e, ref) = Results(d, ref), Follows(d, ref)
  PROVE  Follows(e, ref)
<1> SUFFICES ASSUME NEW i \in Results(e, ref)
             PROVE  /\ Results(e, ref) = {i}
                    /\ \E h \in AuditOf(e, "transactions", ref) :
                         h < i /\ e.audit[h].actor = e.audit[i].actor
  BY DEF Follows
<1>1. i \in Results(d, ref) /\ i \in DOMAIN d.audit /\ Results(d, ref) = {i}
  BY DEF Follows, Results, AuditOf
<1>2. PICK h \in AuditOf(d, "transactions", ref) : h < i /\ d.audit[h].actor = d.audit[i].actor
  BY <1>1 DEF Follows
<1>3. h \in AuditOf(e, "transactions", ref) /\ e.audit[h] = d.audit[h] /\ e.audit[i] = d.audit[i]
  BY <1>1, <1>2 DEF LogGrows, AuditOf
<1> QED
  BY <1>1, <1>2, <1>3

\* A result is served, with its receipt or an error: its call, if it still waits, is
\* the only owner.
LEMMA ResultServed ==
  ASSUME ServiceType, LedgerInv, CallInv, queue # <<>>, NEW e, e = Head(queue),
         NEW a \in {"ok", "error"}, Served(a), e.request \in Request, AppendLegislativeResult(e.request)
  PROVE  CallInv'
<1> DEFINE ref == e.request.ref
<1>1. /\ UNCHANGED <<pc, op, req, raised>> /\ queue' = Tail(queue)
      /\ \A d \in Clients : answer'[d] = IF d = e.client THEN a ELSE answer[d]
      /\ e.client # None =>
           /\ e.client \in Clients /\ answer[e.client] = "none"
           /\ \/ pc[e.client] = "await" /\ e.request = req[e.client]
              \/ pc[e.client] = "await_result" /\ e.request = ResultOf(req[e.client])
      /\ \A d \in Clients : CallShape(d)'
      /\ \A d \in Clients : d # e.client => (Owns(d)' <=> Owns(d))
      /\ \A d \in Clients : Pending(d) => Pending(d)'
  BY ServedCalls
<1>2. /\ LogGrows(ledger, ledger')
      /\ \A x : HasTransaction(ledger', x) <=> HasTransaction(ledger, x)
      /\ \A x : x # ref => Results(ledger', x) = Results(ledger, x)
  BY ResultIsSigned
<1>3. PICK n : /\ Results(ledger', ref) = Results(ledger, ref) \cup {n}
               /\ ledger'.audit[n].actor = e.request.actor
               /\ \A i \in DOMAIN ledger.audit : i < n
  BY ResultIsSigned
<1>4. /\ e.request.op = "append_legislative_result" /\ ref \in Refs
  BY RequestFields DEF AppendLegislativeResult
<1>5. /\ Results(ledger, ref) = {} /\ PostedBy(ledger, ref, e.request.actor)
      /\ \A d \in Clients : Owns(d) /\ RefOf(req[d]) = ref => e.client = d
  BY <1>4, ServedCommand DEF CommandInv, ResultInv, IsResult
<1> HIDE DEF ref
<1>6. e.client # None => /\ pc[e.client] = "await_result" /\ op[e.client] \in Posting
                         /\ RefOf(req[e.client]) = ref
  <2> SUFFICES ASSUME e.client # None
               PROVE  /\ pc[e.client] = "await_result" /\ op[e.client] \in Posting
                      /\ RefOf(req[e.client]) = ref
    OBVIOUS
  <2>1. CallShape(e.client)
    BY <1>1 DEF CallInv, CallsInv
  <2>2. ~(pc[e.client] = "await" /\ e.request = req[e.client])
    BY <1>4, <2>1, RequestOps DEF CallShape
  <2>3. pc[e.client] = "await_result" /\ e.request = ResultOf(req[e.client])
    BY <1>1, <2>2
  <2> QED
    BY <2>1, <2>3 DEF CallShape, ResultOf, ref
<1>7. \A d \in Clients : Owns(d)' <=> Owns(d)
  BY <1>1, <1>6, ServiceAssumption DEF Owns
<1>8. ASSUME NEW d \in Clients
      PROVE  OwnerInv(d)'
  <2>1. OwnerInv(d)
    BY DEF CallInv, CallsInv
  <2>2. CASE d = e.client
    <3>1. RefOf(req[d]) = ref /\ (Told(d, "ok")' \/ Told(d, "error")')
      BY <1>1, <1>6, <2>2, ServiceAssumption DEF Told
    <3> QED
      BY <1>1, <1>2, <1>3, <1>7, <2>1, <3>1, LogKeepsPosted DEF OwnerInv
  <2>3. CASE d # e.client
    <3>1. Owns(d) => RefOf(req[d]) # ref
      BY <1>5, <2>3
    <3>2. \A b : Told(d, b)' <=> Told(d, b)
      BY <1>1, <2>3 DEF Told
    <3> QED
      BY <1>1, <1>2, <1>7, <2>1, <3>1, <3>2, LogKeepsPosted DEF OwnerInv
  <2> QED
    BY <2>2, <2>3
<1>9. ASSUME NEW i \in DOMAIN queue'
      PROVE  \E f : f = queue'[i] /\ CommandInv(f)'
  <2>1. PICK f \in Command : f = queue'[i] /\ CommandInv(f) /\ Apart(e, f)
    BY <1>1, <1>9, ServedCommand
  <2>2. ClientInv(f)'
    BY <1>1, <2>1 DEF CommandInv, ClientInv, Apart, Command
  <2>3. ResultInv(f)'
    <3>1. IsResult(f.request) => f.request.ref # ref
      BY <1>4, <2>1 DEF Apart, IsResult, ref
    <3> QED
      BY <1>1, <1>2, <1>7, <2>1, <3>1, LogKeepsPosted DEF CommandInv, ResultInv
  <2> QED
    BY <2>1, <2>2, <2>3 DEF CommandInv
<1>10. AllApart'
  BY <1>1, ServedCommand DEF AllApart
<1>11. GapInv'
  BY <1>1, <1>2, <1>3, LogKeepsPosted DEF CallInv, GapInv, Covered, Settles
<1>12. ASSUME NEW x \in Refs
       PROVE  Follows(ledger', x)
  <2>1. CASE x # ref
    BY <1>2, <2>1, FollowsKept DEF CallInv, FollowInv
  <2>2. CASE x = ref
    <3>1. PICK h \in AuditOf(ledger, "transactions", ref) : ledger.audit[h].actor = e.request.actor
      BY <1>5 DEF PostedBy
    <3>2. /\ h \in AuditOf(ledger', "transactions", ref) /\ h < n
          /\ ledger'.audit[h].actor = ledger'.audit[n].actor
      BY <1>2, <1>3, <3>1 DEF LogGrows, AuditOf
    <3>3. Results(ledger', ref) = {n}
      BY <1>3, <1>5
    <3> QED
      BY <2>2, <3>2, <3>3 DEF Follows
  <2> QED
    BY <2>1, <2>2
<1> QED
  BY <1>1, <1>8, <1>9, <1>10, <1>11, <1>12, QueueAfter DEF CallInv, CallsInv, FollowInv

\* Journals are served: those of a book are opening transactions, that of a
\* posting is now owned by its call, or will be or was reported to its caller.
LEMMA JournalsServed ==
  ASSUME ServiceType, LedgerInv, CallInv, queue # <<>>, NEW e, e = Head(queue),
         NEW a \in {"ok", "error"}, Served(a), e.request \in Request, WritesRows(e.request)
  PROVE  CallInv'
<1> DEFINE r  == e.request
           Ts == JournalsOf(ledger, r)
<1>1. /\ UNCHANGED <<pc, op, req, raised>> /\ queue' = Tail(queue)
      /\ \A d \in Clients : answer'[d] = IF d = e.client THEN a ELSE answer[d]
      /\ e.client # None =>
           /\ e.client \in Clients /\ answer[e.client] = "none"
           /\ \/ pc[e.client] = "await" /\ r = req[e.client]
              \/ pc[e.client] = "await_result" /\ r = ResultOf(req[e.client])
      /\ \A d \in Clients : CallShape(d)'
      /\ \A d \in Clients : d # e.client => (Owns(d)' <=> Owns(d))
      /\ \A d \in Clients : Pending(d) => Pending(d)'
  BY ServedCalls
<1>2. /\ LogGrows(ledger, ledger')
      /\ \A x : Results(ledger', x) = Results(ledger, x)
      /\ \A tx \in Ts : PostedBy(ledger', tx.ref, r.actor) /\ ~HasTransaction(ledger, tx.ref)
      /\ \A x : HasTransaction(ledger', x) =>
                  HasTransaction(ledger, x) \/ \E tx \in Ts : tx.ref = x
  BY JournalsAreSigned
<1>3. r.op \in {"create_book", "append_transaction", "append_reversal"}
  BY DEF WritesRows, CreateBook, AppendTransaction, AppendReversal
<1>4. r \in Requests /\ CommandInv(e)
  <2>1. e \in Command /\ CommandInv(e)
    BY ServedCommand
  <2>2. r \notin LegislativeRequest
    BY <1>3 DEF LegislativeRequest
  <2> QED
    BY <2>1, <2>2 DEF Command
<1>5. Posts(r) => \E tx \in Ts : tx.ref = RefOf(r) /\ \A t \in Ts : t = tx
  <2>1. CASE r.op = "append_transaction"
    BY <2>1 DEF JournalsOf, RefOf
  <2>2. CASE r.op = "append_reversal"
    BY <2>2 DEF JournalsOf, RefOf, ReversalOf
  <2> QED
    BY <2>1, <2>2 DEF Posts
<1>6. ~Posts(r) => \A tx \in Ts : tx.ref \in Opening
  <2>1. ~Posts(r) => r.op = "create_book"
    BY <1>3 DEF Posts
  <2> QED
    BY <1>4, <2>1 DEF JournalsOf, Opening
<1> HIDE DEF r, Ts
<1>7. e.client # None => /\ pc[e.client] = "await" /\ r = req[e.client]
                         /\ (op[e.client] \in Posting <=> Posts(r))
  <2> SUFFICES ASSUME e.client # None
               PROVE  /\ pc[e.client] = "await" /\ r = req[e.client]
                      /\ (op[e.client] \in Posting <=> Posts(r))
    OBVIOUS
  <2>1. CallShape(e.client)
    BY <1>1 DEF CallInv, CallsInv
  <2>2. ~(r = ResultOf(req[e.client]))
    BY <1>3 DEF ResultOf
  <2> QED
    BY <1>1, <2>1, <2>2, MethodOfRequest DEF CallShape
<1>8. ASSUME NEW d \in Clients, Owns(d)
      PROVE  Owns(d)' /\ d # e.client
  <2>1. d # None
    BY ServiceAssumption
  <2>2. d # e.client
    BY <1>1, <1>7, <1>8, <2>1 DEF Owns
  <2> QED
    BY <1>1, <1>8, <2>2
<1>9. \A d \in Clients : Owns(d)' /\ d = e.client => Posts(r) /\ RefOf(req[d]) = RefOf(r)
  BY <1>1, <1>7, ServiceAssumption DEF Owns
<1>10. Posts(r) => /\ RefOf(r) \in Refs /\ Results(ledger, RefOf(r)) = {}
                   /\ \A actor : ~PostedBy(ledger, RefOf(r), actor)
                   /\ PostedBy(ledger', RefOf(r), r.actor)
  <2> SUFFICES ASSUME Posts(r)
               PROVE  /\ RefOf(r) \in Refs /\ Results(ledger, RefOf(r)) = {}
                      /\ \A actor : ~PostedBy(ledger, RefOf(r), actor)
                      /\ PostedBy(ledger', RefOf(r), r.actor)
    OBVIOUS
  <2>1. RefOf(r) \in Refs
    BY <1>4, PostingFields
  <2>2. ~HasTransaction(ledger, RefOf(r)) /\ PostedBy(ledger', RefOf(r), r.actor)
    BY <1>2, <1>5
  <2> QED
    BY <2>1, <2>2, NoResultYet DEF CallInv
<1>11. \A d \in Clients : Owns(d) /\ Posts(r) => RefOf(req[d]) # RefOf(r)
  BY <1>10 DEF CallInv, CallsInv, OwnerInv
<1>12. ASSUME NEW d \in Clients
       PROVE  OwnerInv(d)'
  <2>1. OwnerInv(d)
    BY DEF CallInv, CallsInv
  <2>2. CASE d = e.client
    <3> SUFFICES ASSUME Owns(d)'
                 PROVE  OwnerInv(d)'
      BY DEF OwnerInv
    <3>1. Posts(r) /\ RefOf(req[d]) = RefOf(r) /\ req[d] = r /\ pc[d] = "await"
      BY <1>7, <1>9, <2>2, ServiceAssumption
    <3>2. \A u \in Clients : Owns(u)' /\ RefOf(req[u]) = RefOf(r) => u = d
      BY <1>1, <1>11, <2>2, <3>1
    <3>3. \A b : ~Told(d, b)'
      BY <1>1, <3>1 DEF Told
    <3> QED
      BY <1>1, <1>2, <1>10, <3>1, <3>2, <3>3 DEF OwnerInv
  <2>3. CASE d # e.client
    <3>1. (\A b : Told(d, b)' <=> Told(d, b)) /\ (Owns(d)' <=> Owns(d))
      BY <1>1, <2>3 DEF Told
    <3>2. Owns(d) => \A u \in Clients : Owns(u)' /\ RefOf(req[u]) = RefOf(req[d]) => u = d
      BY <1>1, <1>9, <1>11, <2>1 DEF OwnerInv
    <3> QED
      BY <1>1, <1>2, <2>1, <3>1, <3>2, LogKeepsPosted DEF OwnerInv
  <2> QED
    BY <2>2, <2>3
<1>13. ASSUME NEW i \in DOMAIN queue'
       PROVE  \E f : f = queue'[i] /\ CommandInv(f)'
  <2>1. PICK f \in Command : f = queue'[i] /\ CommandInv(f) /\ Apart(e, f)
    BY <1>1, <1>13, ServedCommand
  <2>2. ClientInv(f)'
    BY <1>1, <2>1 DEF CommandInv, ClientInv, Apart, Command
  <2>3. ResultInv(f)'
    <3>1. IsResult(f.request) /\ Posts(r) => f.request.ref # RefOf(r)
      BY <1>10, <2>1 DEF CommandInv, ResultInv
    <3>2. IsResult(f.request) =>
            \A d \in Clients : Owns(d)' /\ RefOf(req[d]) = f.request.ref => Owns(d)
      BY <1>1, <1>9, <3>1
    <3> QED
      BY <1>1, <1>2, <2>1, <3>2, LogKeepsPosted DEF CommandInv, ResultInv
  <2> QED
    BY <2>1, <2>2, <2>3 DEF CommandInv
<1>14. AllApart'
  BY <1>1, ServedCommand DEF AllApart
<1>15. GapInv'
  <2> SUFFICES ASSUME NEW x \in Refs \ Opening, HasTransaction(ledger', x), Results(ledger', x) = {}
               PROVE  Covered(x)'
    BY DEF GapInv
  <2>1. CASE HasTransaction(ledger, x)
    <3>1. Covered(x)
      BY <1>2, <2>1 DEF CallInv, GapInv
    <3> QED
      BY <1>1, <1>2, <3>1, LogKeepsPosted DEF Covered, Settles
  <2>2. CASE ~HasTransaction(ledger, x)
    <3>1. Posts(r) /\ Settles(r, x)'
      BY <1>2, <1>5, <1>6, <1>10, <2>2 DEF Settles
    <3>2. CASE e.client = None
      BY <1>1, <1>4, <3>1, <3>2 DEF CommandInv, ClientInv, Covered, r
    <3>3. CASE e.client # None
      <4>1. e.client \in Clients /\ Pending(e.client)' /\ req'[e.client] = r
        BY <1>1, <1>7, <3>1, <3>3 DEF Owns, Pending
      <4> QED
        BY <3>1, <4>1 DEF Covered
    <3> QED
      BY <3>2, <3>3
  <2> QED
    BY <2>1, <2>2
<1>16. FollowInv'
  BY <1>2, FollowsKept DEF CallInv, FollowInv
<1> QED
  BY <1>1, <1>12, <1>13, <1>14, <1>15, <1>16, QueueAfter DEF CallInv, CallsInv

\* A command is committed, whether its receipt is returned or reading it raises.
LEMMA CommittedStep ==
  ASSUME ServiceType, LedgerInv, CallInv, ServeAccepted \/ ServeUnreceipted
  PROVE  CallInv' /\ LedgerInv'
<1>1. PICK e : e = Head(queue)
  OBVIOUS
<1>2. queue # <<>> /\ Write(e.request) /\ \E a \in {"ok", "error"} : Served(a)
  BY <1>1 DEF ServeAccepted, ServeUnreceipted
<1>3. e.request \in Request
  <2>1. e \in Command
    BY <1>1, <1>2, ServedCommand
  <2> QED
    BY <2>1, LedgerAssumption DEF Command, Request
<1>4. WritesRows(e.request) \/ AppendLegislativeResult(e.request)
  BY <1>2 DEF Write, WritesRows
<1> QED
  BY <1>1, <1>2, <1>3, <1>4, ResultServed, JournalsServed, StepInvariance

LEMMA CrashStep ==
  ASSUME ServiceType, CallInv, Crash
  PROVE  CallInv'
<1>1. /\ queue' = <<>> /\ ledger' = ledger
      /\ \A c \in Clients : pc'[c] = "idle" /\ op'[c] = "none" /\ answer'[c] = "none"
  BY DEF Crash
<1>2. \A c \in Clients : ~Owns(c)' /\ CallShape(c)'
  BY <1>1 DEF Owns, CallShape, Posting
<1>3. \A c \in Clients : Pending(c) => req[c] \in raised'
  BY DEF Pending, Owns, Underway, Crash
<1>4. raised \subseteq raised'
  BY DEF Crash
<1>5. GapInv'
  BY <1>1, <1>3, <1>4 DEF CallInv, GapInv, Covered, Settles
<1>6. QueueInv'
  BY <1>1 DEF QueueInv, AllApart
<1>7. FollowInv'
  BY <1>1 DEF CallInv, FollowInv
<1> QED
  BY <1>2, <1>5, <1>6, <1>7 DEF CallInv, CallsInv, OwnerInv

-----------------------------------------------------------------------------
(* Every step.                                                             *)

LEMMA BeginStep ==
  ASSUME ServiceType, CallInv, NEW c \in Clients, Begin(c)
  PROVE  CallInv'
<1>1. ASSUME NEW m, NEW r, NEW s, Call(c, m, r, s),
             \/ s = "submit" /\ r \in Requests /\ m = MethodOf(r)
             \/ s \in {"load", "close_runtime"} /\ m \notin Posting
                /\ (s = "load" => m \in {"get_book", "validate_transaction",
                                         "validate_transaction_isolated"})
      PROVE  CallInv'
  <2>1. /\ LocalTo(c) /\ pc'[c] = s /\ op'[c] = m /\ req'[c] = r /\ answer' = answer
        /\ UNCHANGED <<ledger, queue, raised>> /\ pc[c] = "idle"
    BY <1>1 DEF Call, Goto, LocalTo, ServiceType, parts
  <2>2. ~Owns(c) /\ ~Owns(c)' /\ ~Pending(c)
    BY <1>1, <2>1 DEF Owns, Pending
  <2>3. ~Waits(c)
    BY <2>1, NotWaiting
  <2>4. CallShape(c)
    BY DEF CallInv, CallsInv
  <2>5. CallShape(c)'
    BY <1>1, <2>1, <2>4, MethodOfRequest DEF CallShape
  <2> QED
    BY <2>1, <2>2, <2>3, <2>5, QuietStep
<1>2. CASE CallWrite(c)
  BY <1>1, <1>2 DEF CallWrite
<1>3. CASE CallRead(c)
  BY <1>1, <1>3 DEF CallRead, Posting
<1>4. CASE CallClose(c)
  BY <1>1, <1>4 DEF CallClose, Posting
<1> QED
  BY <1>2, <1>3, <1>4 DEF Begin

LEMMA SubmitWriteStep ==
  ASSUME ServiceType, CallInv, NEW c \in Clients, SubmitWrite(c)
  PROVE  CallInv'
<1>1. PICK r : r = req[c]
  OBVIOUS
<1>2. CallShape(c) /\ pc[c] = "submit" /\ Submit(c, r, "await")
  BY <1>1 DEF SubmitWrite, CallInv, CallsInv
<1>3. r \in Requests /\ ~IsResult(r) /\ answer[c] = "none"
  BY <1>1, <1>2, RequestOps DEF CallShape, IsResult
<1>4. ~Waits(c)
  BY <1>2, NotWaiting
<1>5. CallShape(c)'
  BY <1>1, <1>2 DEF CallShape, Submit, Goto, call, ServiceType
<1> QED
  BY <1>1, <1>2, <1>3, <1>4, <1>5, QueueStep

LEMMA SubmitResultStep ==
  ASSUME ServiceType, CallInv, NEW c \in Clients, SubmitResult(c)
  PROVE  CallInv'
<1>1. PICK r : r = ResultOf(req[c])
  OBVIOUS
<1>2. CallShape(c) /\ pc[c] = "submit_result" /\ Submit(c, r, "await_result")
  BY <1>1 DEF SubmitResult, ResultOf, CallInv, CallsInv
<1>3. Owns(c) /\ answer[c] = "none"
  BY <1>2 DEF CallShape, Owns
<1>4. ~Waits(c)
  BY <1>2, NotWaiting
<1>5. CallShape(c)'
  BY <1>2 DEF CallShape, Submit, Goto, call, ServiceType
<1> QED
  BY <1>1, <1>2, <1>3, <1>4, <1>5, QueueStep

LEMMA AnsweredStep ==
  ASSUME ServiceType, CallInv, NEW c \in Clients, Answered(c)
  PROVE  CallInv'
<1>1. pc[c] = "await" /\ answer[c] = "ok" /\ ~Waits(c)
  BY NotWaiting DEF Answered
<1>2. CASE op[c] \in Posting
  <2>1. /\ LocalTo(c) /\ pc'[c] = "load" /\ answer'[c] = "none"
        /\ UNCHANGED <<ledger, queue, op, req, raised>>
    BY <1>2 DEF Answered, Goto, LocalTo, ServiceType, parts
  <2>2. Owns(c) /\ Owns(c)' /\ Pending(c)'
    BY <1>1, <1>2, <2>1 DEF Owns, Pending
  <2>3. CallShape(c)'
    BY <1>2, <2>1 DEF CallShape, CallInv, CallsInv
  <2> QED
    BY <1>1, <2>1, <2>2, <2>3, QuietStep
<1>3. CASE op[c] \notin Posting
  <2>1. Return(c) /\ UNCHANGED <<ledger, queue>> /\ ~Pending(c)
    BY <1>3 DEF Answered, parts, Owns, Pending
  <2> QED
    BY <1>1, <2>1, ReturnStep
<1> QED
  BY <1>2, <1>3

LEMMA RefusalStep ==
  ASSUME ServiceType, CallInv, NEW c \in Clients, Refused(c)
  PROVE  CallInv'
<1>1. Raise(c) /\ UNCHANGED parts /\ ~Waits(c)
  BY NotWaiting DEF Refused
<1> QED
  BY <1>1, RaiseStep

LEMMA PostingDoneStep ==
  ASSUME ServiceType, CallInv, NEW c \in Clients, PostingDone(c)
  PROVE  /\ CallInv' /\ Owns(c) /\ Results(ledger, RefOf(req[c])) # {}
         /\ PostedBy(ledger, RefOf(req[c]), req[c].actor)
<1>1. /\ pc[c] = "await_result" /\ answer[c] = "ok" /\ Return(c) /\ UNCHANGED <<ledger, queue>>
      /\ ~Waits(c)
  BY NotWaiting DEF PostingDone, parts
<1>2. Owns(c)
  BY <1>1 DEF CallInv, CallsInv, CallShape, Owns
<1>3. /\ Results(ledger, RefOf(req[c])) # {}
      /\ PostedBy(ledger, RefOf(req[c]), req[c].actor)
  BY <1>1, <1>2 DEF CallInv, CallsInv, OwnerInv, Told
<1> QED
  BY <1>1, <1>2, <1>3, ReturnStep

LEMMA LoadStep ==
  ASSUME ServiceType, CallInv, NEW c \in Clients, Load(c)
  PROVE  CallInv'
<1>1. pc[c] = "load" /\ UNCHANGED <<ledger, queue>> /\ ~Waits(c) /\ CallShape(c)
  BY NotWaiting DEF Load, parts, CallInv, CallsInv
<1>2. CASE op[c] = "get_book"
  <2>1. Return(c) /\ ~Pending(c)
    BY <1>2 DEF Load, Owns, Pending, Posting
  <2> QED
    BY <1>1, <2>1, ReturnStep
<1>3. CASE op[c] # "get_book"
  <2>1. PICK s : s = AfterLoad(op[c])
    OBVIOUS
  <2>2. Goto(c, s) /\ UNCHANGED call
    BY <1>3, <2>1 DEF Load
  <2>3. /\ s \in {"in_process", "acquire"} /\ (op[c] \in Posting => s = "acquire")
    BY <1>1, <1>3, <2>1 DEF AfterLoad, CallShape, Posting
  <2>4. CallShape(c)'
    BY <1>1, <2>2, <2>3 DEF CallShape, Goto, call, ServiceType
  <2>5. op[c] \in Posting => Owns(c)
    BY <1>1 DEF Owns
  <2> QED
    BY <1>1, <2>2, <2>3, <2>4, <2>5, GotoStep
<1> QED
  BY <1>2, <1>3

LEMMA AcquireStep ==
  ASSUME ServiceType, CallInv, NEW c \in Clients, Acquire(c)
  PROVE  CallInv'
<1>1. /\ pc[c] = "acquire" /\ UNCHANGED <<ledger, queue>> /\ ~Waits(c) /\ CallShape(c)
      /\ Goto(c, "validate") /\ UNCHANGED call
  BY NotWaiting DEF Acquire, parts, CallInv, CallsInv
<1>2. CallShape(c)'
  BY <1>1 DEF CallShape, Goto, call, ServiceType
<1>3. op[c] \in Posting => Owns(c)
  BY <1>1 DEF Owns
<1> QED
  BY <1>1, <1>2, <1>3, GotoStep

LEMMA ValidateStep ==
  ASSUME ServiceType, CallInv, NEW c \in Clients, Validate(c)
  PROVE  CallInv'
<1>1. pc[c] = "validate" /\ UNCHANGED <<ledger, queue>> /\ ~Waits(c) /\ CallShape(c)
  BY NotWaiting DEF Validate, parts, CallInv, CallsInv
<1>2. CASE op[c] \in Posting
  <2>1. Goto(c, "submit_result") /\ UNCHANGED call
    BY <1>2 DEF Validate
  <2>2. CallShape(c)'
    BY <1>1, <1>2, <2>1 DEF CallShape, Goto, call, ServiceType
  <2>3. Owns(c)
    BY <1>1, <1>2 DEF Owns
  <2> QED
    BY <1>1, <2>1, <2>2, <2>3, GotoStep
<1>3. CASE op[c] \notin Posting
  <2>1. Return(c) /\ ~Pending(c)
    BY <1>3 DEF Validate, Owns, Pending
  <2> QED
    BY <1>1, <2>1, ReturnStep
<1> QED
  BY <1>2, <1>3

LEMMA InProcessStep ==
  ASSUME ServiceType, CallInv, NEW c \in Clients, ValidateInProcess(c)
  PROVE  CallInv'
<1>1. pc[c] = "in_process" /\ UNCHANGED parts /\ ~Waits(c) /\ ~Pending(c)
  BY NotWaiting DEF ValidateInProcess, Owns, Pending
<1>2. CASE Return(c)
  BY <1>1, <1>2, ReturnStep DEF parts
<1>3. CASE Raise(c)
  BY <1>1, <1>3, RaiseStep
<1> QED
  BY <1>2, <1>3 DEF ValidateInProcess

LEMMA CloseSteps ==
  ASSUME ServiceType, CallInv, NEW c \in Clients, CloseRuntime(c) \/ ClosePool(c)
  PROVE  CallInv'
<1>1. pc[c] \in {"close_runtime", "close_pool"} /\ UNCHANGED <<ledger, queue>>
  BY DEF CloseRuntime, ClosePool
<1>2. ~Waits(c) /\ ~Owns(c) /\ ~Pending(c) /\ CallShape(c)
  BY <1>1, NotWaiting DEF Owns, Pending, CallInv, CallsInv
<1>3. CASE CloseRuntime(c)
  <2>1. Goto(c, "close_pool") /\ UNCHANGED call /\ pc[c] = "close_runtime"
    BY <1>3 DEF CloseRuntime
  <2>2. CallShape(c)'
    BY <1>2, <2>1 DEF CallShape, Goto, call, ServiceType
  <2> QED
    BY <1>1, <1>2, <2>1, <2>2, GotoStep
<1>4. CASE ClosePool(c)
  BY <1>1, <1>2, <1>4, ReturnStep DEF ClosePool
<1> QED
  BY <1>3, <1>4

LEMMA FailureStep ==
  ASSUME ServiceType, CallInv, NEW c \in Clients,
         \/ GateTimeout(c) \/ LoadFails(c) \/ AcquireFails(c) \/ ValidateFails(c)
         \/ CloseFails(c)
  PROVE  CallInv'
<1>1. /\ pc[c] \in {"submit", "submit_result", "load", "acquire", "validate", "close_runtime"}
      /\ Raise(c) /\ UNCHANGED parts
  BY DEF GateTimeout, LoadFails, AcquireFails, ValidateFails, CloseFails
<1> QED
  BY <1>1, NotWaiting, RaiseStep

LEMMA ProceedStep ==
  ASSUME ServiceType, CallInv, NEW c \in Clients, Proceed(c)
  PROVE  CallInv'
<1>1. CASE SubmitWrite(c)
  BY <1>1, SubmitWriteStep
<1>2. CASE SubmitResult(c)
  BY <1>2, SubmitResultStep
<1>3. CASE Answered(c)
  BY <1>3, AnsweredStep
<1>4. CASE Refused(c)
  BY <1>4, RefusalStep
<1>5. CASE AnswerTimeout(c)
  BY <1>5, TimeoutStep
<1>6. CASE PostingDone(c)
  BY <1>6, PostingDoneStep
<1>7. CASE Load(c)
  BY <1>7, LoadStep
<1>8. CASE ValidateInProcess(c)
  BY <1>8, InProcessStep
<1>9. CASE Acquire(c)
  BY <1>9, AcquireStep
<1>10. CASE Validate(c)
  BY <1>10, ValidateStep
<1>11. CASE CloseRuntime(c) \/ ClosePool(c)
  BY <1>11, CloseSteps
<1>12. CASE \/ GateTimeout(c) \/ LoadFails(c) \/ AcquireFails(c) \/ ValidateFails(c)
            \/ CloseFails(c)
  BY <1>12, FailureStep
<1> QED
  BY <1>1, <1>2, <1>3, <1>4, <1>5, <1>6, <1>7, <1>8, <1>9, <1>10, <1>11, <1>12 DEF Proceed

-----------------------------------------------------------------------------
(* The invariant of the service.                                           *)

\* What is stored or recorded remains so.
LedgerKeeps ==
  \A ref : /\ HasTransaction(ledger, ref) => HasTransaction(ledger', ref)
           /\ Results(ledger, ref) # {} => Results(ledger', ref) # {}

LEMMA WriteKeepsLedger ==
  ASSUME LedgerInv, NEW r \in Request, Write(r)
  PROVE  LedgerKeeps
<1>1. CASE AppendLegislativeResult(r)
  BY <1>1, ResultIsSigned DEF LedgerKeeps
<1>2. CASE WritesRows(r)
  <2>1. \A ref : HasTransaction(ledger, ref) => HasTransaction(ledger', ref)
    <3>1. PICK all, Ms, Ts : /\ ledger' = WithRows(ledger, all, r.actor)
                             /\ Accepted(ledger, all, r.actor, Ms, Ts)
      BY <1>2, WriteIsAccepted
    <3>2. \A ref : HasTransaction(ledger, ref) =>
                     HasTransaction(WithRows(ledger, all, r.actor), ref)
      BY <3>1, WriteKeeps DEF LedgerInv
    <3> QED
      BY <3>1, <3>2
  <2> QED
    BY <1>2, <2>1, JournalsAreSigned DEF LedgerKeeps
<1> QED
  BY <1>1, <1>2 DEF Write, WritesRows

\* A result is returned to its owner only, when it is recorded.
LEMMA ReturnsAreOwned ==
  ASSUME ServiceType, LedgerInv, CallInv, NEW c \in Clients, Begin(c) \/ Proceed(c)
  PROVE  \A ref \in returned' :
           ref \in returned \/ (HasTransaction(ledger, ref) /\ Results(ledger, ref) # {})
<1>1. CallShape(c)
  BY DEF CallInv, CallsInv
<1>2. ASSUME returned' = returned
      PROVE  \A ref \in returned' : ref \in returned
  BY <1>2
<1>3. ASSUME Return(c), op[c] \notin Posting
      PROVE  returned' = returned
  BY <1>3 DEF Return
<1>4. CASE Begin(c)
  BY <1>4 DEF Begin, CallWrite, CallRead, CallClose, Call
<1>5. CASE PostingDone(c)
  <2>1. /\ Owns(c) /\ Results(ledger, RefOf(req[c])) # {}
        /\ PostedBy(ledger, RefOf(req[c]), req[c].actor)
    BY <1>5, PostingDoneStep
  <2>2. HasTransaction(ledger, RefOf(req[c]))
    BY <2>1, PostedIsStored DEF PostedBy, LedgerInv
  <2>3. returned' = returned \/ returned' = returned \cup {RefOf(req[c])}
    BY <1>5 DEF PostingDone, Return
  <2> QED
    BY <2>1, <2>2, <2>3
<1>6. CASE SubmitWrite(c) \/ SubmitResult(c) \/ Acquire(c) \/ CloseRuntime(c)
  BY <1>6 DEF SubmitWrite, SubmitResult, Acquire, CloseRuntime, Submit, call
<1>7. CASE \/ GateTimeout(c) \/ AnswerTimeout(c) \/ LoadFails(c) \/ AcquireFails(c)
           \/ ValidateFails(c) \/ CloseFails(c)
  BY <1>7 DEF GateTimeout, AnswerTimeout, LoadFails, AcquireFails, ValidateFails, CloseFails, Raise
<1>8. CASE Refused(c)
  BY <1>8 DEF Refused, Raise
<1>9. CASE Answered(c)
  BY <1>3, <1>9 DEF Answered
<1>10. CASE Load(c)
  BY <1>3, <1>10 DEF Load, call, Posting
<1>11. CASE Validate(c)
  BY <1>3, <1>11 DEF Validate, call
<1>12. CASE ValidateInProcess(c)
  <2>1. op[c] \notin Posting
    BY <1>1, <1>12 DEF CallShape, ValidateInProcess
  <2> QED
    BY <1>3, <1>12, <2>1 DEF ValidateInProcess, Raise
<1>13. CASE ClosePool(c)
  <2>1. op[c] \notin Posting
    BY <1>1, <1>13 DEF CallShape, ClosePool
  <2> QED
    BY <1>3, <1>13, <2>1 DEF ClosePool
<1> QED
  BY <1>4, <1>5, <1>6, <1>7, <1>8, <1>9, <1>10, <1>11, <1>12, <1>13 DEF Proceed

LEMMA ServiceInitInv == ServiceInit => ServiceInv
<1> SUFFICES ASSUME ServiceInit
             PROVE  ServiceInv
  OBVIOUS
<1>1. LedgerInv
  BY LedgerInit DEF ServiceInit
<1>2. ServiceType
  BY DEF ServiceInit, ServiceType, CallSteps, Methods
<1>3. ledger.rows = {} /\ ledger.audit = <<>>
  BY DEF ServiceInit, Init, EmptyDatabase
<1>4. \A c \in Clients : pc[c] = "idle" /\ op[c] = "none" /\ answer[c] = "none"
  BY DEF ServiceInit
<1>5. CallsInv
  BY <1>4 DEF CallsInv, CallShape, OwnerInv, Owns, Posting
<1>6. QueueInv
  BY DEF ServiceInit, QueueInv, AllApart
<1>7. GapInv
  BY <1>3 DEF GapInv, HasTransaction, HasRow
<1>8. FollowInv
  BY <1>3 DEF FollowInv, Follows, Results, AuditOf
<1>9. ReturnInv
  BY DEF ServiceInit, ReturnInv
<1> QED
  BY <1>1, <1>2, <1>5, <1>6, <1>7, <1>8, <1>9 DEF ServiceInv, CallInv

LEMMA ServiceInvariance == ServiceInv /\ [ServiceNext]_serviceVars => ServiceInv'
<1> SUFFICES ASSUME ServiceInv, [ServiceNext]_serviceVars
             PROVE  ServiceInv'
  OBVIOUS
<1>1. ServiceType /\ LedgerInv /\ CallInv /\ ReturnInv
  BY DEF ServiceInv
<1>2. ServiceType'
  BY <1>1, ServiceTypeInvariance DEF CallInv
<1>3. ASSUME ledger' = ledger, CallInv',
             \A ref \in returned' :
               ref \in returned \/ (HasTransaction(ledger, ref) /\ Results(ledger, ref) # {})
      PROVE  ServiceInv'
  BY <1>1, <1>2, <1>3 DEF ServiceInv, LedgerInv, ReturnInv
<1>4. ASSUME NEW c \in Clients, Begin(c) \/ Proceed(c)
      PROVE  ServiceInv'
  <2>1. CallInv'
    BY <1>1, <1>4, BeginStep, ProceedStep
  <2>2. ledger' = ledger
    BY <1>4 DEF Begin, CallWrite, CallRead, CallClose, Call, Proceed, SubmitWrite, SubmitResult,
                Submit, GateTimeout, Answered, Refused, AnswerTimeout, PostingDone, Load,
                LoadFails, ValidateInProcess, Acquire, AcquireFails, Validate, ValidateFails,
                CloseRuntime, CloseFails, ClosePool, parts
  <2> QED
    BY <1>1, <1>3, <1>4, <2>1, <2>2, ReturnsAreOwned
<1>5. CASE ServeAccepted \/ ServeUnreceipted
  <2>1. CallInv' /\ LedgerInv'
    BY <1>1, <1>5, CommittedStep
  <2>2. LedgerKeeps
    <3>1. PICK e : e = Head(queue)
      OBVIOUS
    <3>2. queue # <<>> /\ Write(e.request)
      BY <1>5, <3>1 DEF ServeAccepted, ServeUnreceipted
    <3>3. e \in Command
      BY <1>1, <3>1, <3>2, ServedCommand
    <3>4. e.request \in Request
      BY <3>3, LedgerAssumption DEF Command, Request
    <3> QED
      BY <1>1, <3>2, <3>4, WriteKeepsLedger
  <2>3. returned' = returned
    BY <1>5 DEF ServeAccepted, ServeUnreceipted, Served
  <2> QED
    BY <1>1, <1>2, <2>1, <2>2, <2>3 DEF ServiceInv, ReturnInv, LedgerKeeps
<1>6. CASE ServeRefused
  <2>1. ledger' = ledger /\ returned' = returned
    BY <1>6 DEF ServeRefused, Served
  <2> QED
    BY <1>1, <1>3, <1>6, <2>1, RefusedStep
<1>7. CASE Crash
  <2>1. ledger' = ledger /\ returned' = returned
    BY <1>7 DEF Crash
  <2> QED
    BY <1>1, <1>3, <1>7, <2>1, CrashStep
<1>8. CASE UNCHANGED serviceVars
  BY <1>1, <1>8
     DEF serviceVars, parts, call, ServiceInv, ServiceType, LedgerInv, ReturnInv, CallInv,
         CallsInv, CallShape, OwnerInv, Owns, Told, QueueInv, AllApart, CommandInv, ClientInv,
         ResultInv, GapInv, Covered, Settles, Pending, FollowInv
<1> QED
  BY <1>4, <1>5, <1>6, <1>7, <1>8 DEF ServiceNext

LEMMA ServiceInvHolds == ServiceSpec => []ServiceInv
  BY ServiceInitInv, ServiceInvariance, PTL DEF ServiceSpec

-----------------------------------------------------------------------------
(* What the service promises.                                              *)

\* Posting through the service, with its retries, timeouts, late commits and
\* crashes, leaves the ledger as whole, as audited and as free of findings as
\* the ledger's own writes do.
THEOREM ServiceKeepsLedger == ServiceSpec => [](WholeJournals /\ AuditedOnce /\ ReportsAgree)
<1>1. ServiceInv => WholeJournals /\ AuditedOnce /\ ReportsAgree
  BY JournalsAreWhole, RowsAreAuditedOnce, ReportsAgreeWithSound DEF ServiceInv
<1> QED
  BY <1>1, ServiceInvHolds, PTL

LEMMA RowsInTheLog ==
  ASSUME NEW ref
  PROVE  ResultRows(ref) = Results(ledger, ref)
         /\ HeaderRows(ref) = AuditOf(ledger, "transactions", ref)
  BY DEF ResultRows, HeaderRows, Results, AuditOf

\* What post_transaction and post_reversal returned is stored, and its result
\* is recorded, for every number of clients and any requests, timeouts and
\* crashes.
THEOREM ReturnedIsRecordedHolds == ServiceSpec => []ReturnedIsRecorded
<1>1. ServiceInv => ReturnedIsRecorded
  BY RowsInTheLog DEF ServiceInv, ReturnInv, ReturnedIsRecorded
<1> QED
  BY <1>1, ServiceInvHolds, PTL

\* A result is recorded at most once for a transaction, after it and in the
\* name of who posted it, even when its command commits after its call gave up.
THEOREM ResultsFollowPostingsHolds == ServiceSpec => []ResultsFollowPostings
<1>1. ServiceInv => ResultsFollowPostings
  <2>1. FollowInv => ResultsFollowPostings
    BY RowsInTheLog DEF FollowInv, Follows, ResultsFollowPostings
  <2> QED
    BY <2>1 DEF ServiceInv, CallInv
<1> QED
  BY <1>1, ServiceInvHolds, PTL

\* A posted transaction without a result has a call in progress of the actor who
\* posted it, or one that got an exception or died: the sequence of calls that is a
\* posting leaves no gap in silence.
THEOREM GapsAreReportedHolds == ServiceSpec => []GapsAreReported
<1>1. \A c \in Clients : Pending(c) => Underway(c)
  BY DEF Pending, Owns, Underway
<1>2. \A r, ref : Settles(r, ref) => PostedAs(r, ref)
  BY RowsInTheLog DEF Settles, PostedBy, PostedAs
<1>3. GapInv => GapsAreReported
  BY <1>1, <1>2, RowsInTheLog DEF GapInv, Covered, GapsAreReported
<1>4. ServiceInv => GapsAreReported
  BY <1>3 DEF ServiceInv, CallInv
<1> QED
  BY <1>4, ServiceInvHolds, PTL
=============================================================================
