------------------------- MODULE LedgerRuntimeProofs -------------------------
(***************************************************************************)
(* Proofs about LedgerRuntime.tla, for any number of clients and commands: *)
(* its types, that close() waits for the calls that are in, that the       *)
(* runtime implements the lifecycle MultiBookRuntime relies on, and what   *)
(* it promises of its writes: nothing is committed after close() or        *)
(* stranded by it, writes take effect in the order they were submitted,    *)
(* and callers are told the truth about them.                              *)
(***************************************************************************)
EXTENDS LedgerRuntime, TLAPS

-----------------------------------------------------------------------------
(* Types.                                                                  *)

LEMMA AppendType ==
  ASSUME NEW S, NEW s \in Seq(S), NEW e \in S
  PROVE  Append(s, e) \in Seq(S)
  OBVIOUS

LEMMA HeadTailType ==
  ASSUME NEW S, NEW s \in Seq(S), s # <<>>
  PROVE  Head(s) \in S /\ Tail(s) \in Seq(S)
  OBVIOUS

\* The writer thread serves a command, and a writing client has one.
Busy ==
  /\ writer \in {"dispatch", "execute", "resolve"} => current \in Commands
  /\ \A t \in Clients : pc[t] \in {"gate for write", "submit", "wait"} => cmd[t] \in Commands

TypeInv == TypeOK /\ Busy

LEMMA TypeInit == Init => TypeInv
<1> SUFFICES ASSUME Init PROVE TypeInv
  OBVIOUS
<1>1. /\ queue \in Seq(Commands \cup {None})
      /\ committed \in Seq(Commands)
      /\ submitted \in Seq(Commands)
  BY DEF Init
<1>2. TypeOK
  BY <1>1 DEF Init, TypeOK, ClientSteps, WriterSteps, Replies, Outcomes
<1>3. Busy
  BY DEF Init, Busy
<1> QED
  BY <1>2, <1>3 DEF TypeInv

LEMMA TypeThread ==
  ASSUME TypeInv, WriterThread
  PROVE  TypeInv'
<1> USE RuntimeAssumption DEF TypeInv, TypeOK, Busy, WriterSteps, Replies, lock
<1>1. CASE TestLoop
  BY <1>1 DEF TestLoop
<1>2. CASE GetCommand
  <2>1. Head(queue) \in Commands \cup {None} /\ Tail(queue) \in Seq(Commands \cup {None})
    BY <1>2, HeadTailType DEF GetCommand
  <2>2. TypeOK'
    BY <1>2, <2>1 DEF GetCommand
  <2>3. Busy'
    BY <1>2, <2>1 DEF GetCommand
  <2> QED
    BY <2>2, <2>3
<1>3. CASE GetEmpty
  BY <1>3 DEF GetEmpty
<1>4. CASE EnterStore
  BY <1>4 DEF EnterStore
<1>5. CASE Execute
  <2>1. committed' \in Seq(Commands) /\ reply' \in Replies
    <3>1. Append(committed, current) \in Seq(Commands)
      BY <1>5, AppendType DEF Execute
    <3> QED
      BY <1>5, <3>1 DEF Execute
  <2>2. TypeOK'
    BY <1>5, <2>1 DEF Execute
  <2>3. Busy'
    BY <1>5 DEF Execute
  <2> QED
    BY <2>2, <2>3
<1>6. CASE Resolve
  BY <1>6 DEF Resolve
<1> QED
  BY <1>1, <1>2, <1>3, <1>4, <1>5, <1>6 DEF WriterThread

LEMMA TypeInvoke ==
  ASSUME TypeInv, NEW t \in Clients, Invoke(t)
  PROVE  TypeInv'
<1> USE RuntimeAssumption DEF TypeInv, TypeOK, Busy, ClientSteps, Outcomes, lock, thread, Goto
<1>1. CASE \E c \in Commands : CallWrite(t, c)
  <2> PICK c \in Commands : CallWrite(t, c)
    BY <1>1
  <2>1. TypeOK'
    BY DEF CallWrite
  <2>2. Busy'
    BY DEF CallWrite
  <2> QED
    BY <2>1, <2>2
<1>2. CASE CallRead(t)
  BY <1>2 DEF CallRead
<1>3. CASE CallPages(t)
  BY <1>3 DEF CallPages
<1>4. CASE Start(t)
  BY <1>4 DEF Start
<1>5. CASE CallClose(t)
  BY <1>5 DEF CallClose
<1> QED
  BY <1>1, <1>2, <1>3, <1>4, <1>5 DEF Invoke

LEMMA TypeContinue ==
  ASSUME TypeInv, NEW t \in Clients, Continue(t)
  PROVE  TypeInv'
<1> USE RuntimeAssumption
    DEF TypeInv, TypeOK, Busy, ClientSteps, Outcomes, lock, thread, Goto, End, EnterGate, LeaveGate
<1>1. CASE GateForWrite(t)
  BY <1>1 DEF GateForWrite
<1>2. CASE GateTimeout(t)
  BY <1>2 DEF GateTimeout
<1>3. CASE Submit(t)
  <2>1. cmd[t] \in Commands
    BY <1>3 DEF Submit
  <2>2. Append(queue, cmd[t]) \in Seq(Commands \cup {None})
    BY <2>1, AppendType
  <2>3. Append(submitted, cmd[t]) \in Seq(Commands)
    BY <2>1, AppendType
  <2>4. TypeOK'
    BY <1>3, <2>1, <2>2, <2>3 DEF Submit, Replies
  <2>5. Busy'
    BY <1>3 DEF Submit
  <2> QED
    BY <2>4, <2>5
<1>4. CASE Answer(t)
  BY <1>4 DEF Answer, Replies
<1>5. CASE AnswerTimeout(t)
  BY <1>5 DEF AnswerTimeout
<1>6. CASE GateForRead(t)
  BY <1>6 DEF GateForRead
<1>7. CASE Read(t)
  BY <1>7 DEF Read
<1>8. CASE LastPage(t)
  BY <1>8 DEF LastPage
<1>9. CASE GateForClose(t)
  BY <1>9 DEF GateForClose
<1>10. CASE CloseTimeout(t)
  BY <1>10 DEF CloseTimeout
<1>11. CASE SetStop(t)
  BY <1>11 DEF SetStop
<1>12. CASE PutPoison(t)
  <2>1. Append(queue, None) \in Seq(Commands \cup {None})
    BY AppendType
  <2> QED
    BY <1>12, <2>1 DEF PutPoison
<1>13. CASE Join(t)
  BY <1>13 DEF Join
<1>14. CASE CloseStore(t)
  BY <1>14 DEF CloseStore
<1>15. CASE CloseStoreFails(t)
  BY <1>15 DEF CloseStoreFails
<1> QED
  BY <1>1, <1>2, <1>3, <1>4, <1>5, <1>6, <1>7, <1>8, <1>9, <1>10, <1>11, <1>12, <1>13, <1>14,
     <1>15
  DEF Continue

LEMMA TypeStep == TypeInv /\ [Next]_vars => TypeInv'
<1> SUFFICES ASSUME TypeInv, [Next]_vars PROVE TypeInv'
  OBVIOUS
<1>1. CASE WriterThread
  BY <1>1, TypeThread
<1>2. CASE \E t \in Clients : Invoke(t) \/ Continue(t)
  BY <1>2, TypeInvoke, TypeContinue
<1>3. CASE UNCHANGED vars
  BY <1>3 DEF vars, lock, thread, TypeInv, TypeOK, Busy
<1> QED
  BY <1>1, <1>2, <1>3 DEF Next

LEMMA TypeHolds == Spec => []TypeInv
  BY TypeInit, TypeStep, PTL DEF Spec

\* Every variable keeps its type: the poison is never served as a command, and
\* what is submitted, committed and resolved are commands.
THEOREM TypeCorrect == Spec => []TypeOK
<1>1. TypeInv => TypeOK
  BY DEF TypeInv
<1> QED
  BY <1>1, TypeHolds, PTL

-----------------------------------------------------------------------------
(* The lifecycle lock.                                                     *)

\* Clients inside a call hold the lock for reading, a client that closes holds it
\* for writing unless the store is closed already, and the two exclude each other.
LockInv ==
  /\ lockWriter # None => readers = {}
  /\ ~started => store = "closed"
  /\ \A t \in Clients :
       /\ pc[t] \in {"submit", "wait", "read"} => t \in readers
       /\ pc[t] \in {"set stop", "poison", "join"} => lockWriter = t
       /\ pc[t] = "close store" => lockWriter = t \/ store = "closed"

\* While the store is open nobody has been told otherwise, and a call that got in
\* while it was open still finds it open.
OpenInv ==
  /\ store = "open" =>
       /\ \A c \in Commands : future[c] # "closed"
       /\ writer = "resolve" => reply # "closed"
  /\ \A t \in Clients : pc[t] # "idle" => outcome[t] = "none"
  /\ CloseWaitsForCalls

IInv == TypeInv /\ LockInv /\ OpenInv

LEMMA LockInit == Init => LockInv
  BY DEF Init, LockInv

LEMMA LockThread ==
  ASSUME TypeInv, LockInv, WriterThread
  PROVE  LockInv'
<1>1. UNCHANGED <<readers, lockWriter, started, store, pc>>
  BY DEF WriterThread, TestLoop, GetCommand, GetEmpty, EnterStore, Execute, Resolve, lock
<1> QED
  BY <1>1 DEF LockInv

LEMMA LockInvoke ==
  ASSUME TypeInv, LockInv, NEW t \in Clients, Invoke(t)
  PROVE  LockInv'
<1>1. /\ UNCHANGED <<readers, lockWriter, started, store>>
      /\ \A u \in Clients : u # t => pc'[u] = pc[u]
      /\ \/ pc'[t] \in {"idle", "gate for write", "gate for read", "page", "gate for close"}
         \/ pc'[t] = "close store" /\ ~started
  BY DEF Invoke, CallWrite, CallRead, CallPages, Start, CallClose, lock, Goto, TypeInv, TypeOK
<1> QED
  BY <1>1 DEF LockInv

LEMMA LockContinue ==
  ASSUME TypeInv, LockInv, NEW t \in Clients, Continue(t)
  PROVE  LockInv'
<1> USE RuntimeAssumption DEF LockInv, TypeInv, TypeOK, lock, Goto, End
<1>1. CASE GateForWrite(t)
  BY <1>1 DEF GateForWrite, EnterGate
<1>2. CASE GateTimeout(t)
  BY <1>2 DEF GateTimeout
<1>3. CASE Submit(t)
  BY <1>3 DEF Submit
<1>4. CASE Answer(t)
  BY <1>4 DEF Answer, LeaveGate
<1>5. CASE AnswerTimeout(t)
  BY <1>5 DEF AnswerTimeout, LeaveGate
<1>6. CASE GateForRead(t)
  BY <1>6 DEF GateForRead, EnterGate
<1>7. CASE Read(t)
  BY <1>7 DEF Read, LeaveGate
<1>8. CASE LastPage(t)
  BY <1>8 DEF LastPage
<1>9. CASE GateForClose(t)
  BY <1>9 DEF GateForClose, WriteLockBlocked
<1>10. CASE CloseTimeout(t)
  BY <1>10 DEF CloseTimeout
<1>11. CASE SetStop(t)
  BY <1>11 DEF SetStop
<1>12. CASE PutPoison(t)
  BY <1>12 DEF PutPoison
<1>13. CASE Join(t)
  BY <1>13 DEF Join
<1>14. CASE CloseStore(t)
  BY <1>14 DEF CloseStore
<1>15. CASE CloseStoreFails(t)
  BY <1>15 DEF CloseStoreFails
<1> QED
  BY <1>1, <1>2, <1>3, <1>4, <1>5, <1>6, <1>7, <1>8, <1>9, <1>10, <1>11, <1>12, <1>13, <1>14,
     <1>15
  DEF Continue

LEMMA OpenInit == Init => OpenInv
  BY DEF Init, OpenInv, CloseWaitsForCalls

LEMMA OpenThread ==
  ASSUME TypeInv, OpenInv, WriterThread
  PROVE  OpenInv'
<1> USE DEF OpenInv, CloseWaitsForCalls, TypeInv, TypeOK, Busy, lock
<1>1. CASE TestLoop
  BY <1>1 DEF TestLoop
<1>2. CASE GetCommand
  BY <1>2 DEF GetCommand
<1>3. CASE GetEmpty
  BY <1>3 DEF GetEmpty
<1>4. CASE EnterStore
  BY <1>4 DEF EnterStore
<1>5. CASE Execute
  BY <1>5 DEF Execute
<1>6. CASE Resolve
  BY <1>6 DEF Resolve
<1> QED
  BY <1>1, <1>2, <1>3, <1>4, <1>5, <1>6 DEF WriterThread

LEMMA OpenInvoke ==
  ASSUME TypeInv, OpenInv, NEW t \in Clients, Invoke(t)
  PROVE  OpenInv'
<1> USE DEF OpenInv, CloseWaitsForCalls, TypeInv, TypeOK, lock, thread, Goto
<1>1. CASE \E c \in Commands : CallWrite(t, c)
  <2> PICK c \in Commands : CallWrite(t, c)
    BY <1>1
  <2> QED
    BY DEF CallWrite
<1>2. CASE CallRead(t)
  BY <1>2 DEF CallRead
<1>3. CASE CallPages(t)
  BY <1>3 DEF CallPages
<1>4. CASE Start(t)
  BY <1>4 DEF Start
<1>5. CASE CallClose(t)
  BY <1>5 DEF CallClose
<1> QED
  BY <1>1, <1>2, <1>3, <1>4, <1>5 DEF Invoke

LEMMA OpenContinue ==
  ASSUME IInv, NEW t \in Clients, Continue(t)
  PROVE  OpenInv'
<1> USE RuntimeAssumption
    DEF IInv, OpenInv, CloseWaitsForCalls, TypeInv, TypeOK, Busy, lock, thread, Goto, End
<1>1. CASE GateForWrite(t)
  BY <1>1 DEF GateForWrite, EnterGate
<1>2. CASE GateTimeout(t)
  BY <1>2 DEF GateTimeout
<1>3. CASE Submit(t)
  BY <1>3 DEF Submit
<1>4. CASE Answer(t)
  BY <1>4 DEF Answer, LeaveGate, Replies
<1>5. CASE AnswerTimeout(t)
  BY <1>5 DEF AnswerTimeout, LeaveGate
<1>6. CASE GateForRead(t)
  BY <1>6 DEF GateForRead, EnterGate
<1>7. CASE Read(t)
  BY <1>7 DEF Read, LeaveGate
<1>8. CASE LastPage(t)
  BY <1>8 DEF LastPage
<1>9. CASE GateForClose(t)
  BY <1>9 DEF GateForClose
<1>10. CASE CloseTimeout(t)
  BY <1>10 DEF CloseTimeout
<1>11. CASE SetStop(t)
  BY <1>11 DEF SetStop
<1>12. CASE PutPoison(t)
  BY <1>12 DEF PutPoison
<1>13. CASE Join(t)
  BY <1>13 DEF Join
<1>14. CASE CloseStore(t)
  \* Either nobody is inside, or the store was closed before.
  <2>1. store = "open" => \A u \in Clients : pc[u] \notin {"submit", "wait", "read"}
    BY <1>14 DEF CloseStore, LockInv
  <2>2. /\ pc'[t] = "idle"
        /\ \A u \in Clients : u # t => /\ pc'[u] = pc[u] /\ outcome'[u] = outcome[u]
                                       /\ found'[u] = found[u]
    BY <1>14 DEF CloseStore
  <2> QED
    BY <1>14, <2>1, <2>2 DEF CloseStore
<1>15. CASE CloseStoreFails(t)
  BY <1>15 DEF CloseStoreFails
<1> QED
  BY <1>1, <1>2, <1>3, <1>4, <1>5, <1>6, <1>7, <1>8, <1>9, <1>10, <1>11, <1>12, <1>13, <1>14,
     <1>15
  DEF Continue

LEMMA IInvStep == IInv /\ [Next]_vars => IInv'
<1> SUFFICES ASSUME IInv, [Next]_vars PROVE IInv'
  OBVIOUS
<1>1. TypeInv'
  BY TypeStep DEF IInv
<1>2. CASE WriterThread
  BY <1>1, <1>2, LockThread, OpenThread DEF IInv
<1>3. CASE \E t \in Clients : Invoke(t) \/ Continue(t)
  BY <1>1, <1>3, LockInvoke, LockContinue, OpenInvoke, OpenContinue DEF IInv
<1>4. CASE UNCHANGED vars
  BY <1>1, <1>4 DEF IInv, LockInv, OpenInv, CloseWaitsForCalls, vars, lock, thread
<1> QED
  BY <1>2, <1>3, <1>4 DEF Next

LEMMA IInvHolds == Spec => []IInv
<1>1. Init => IInv
  BY TypeInit, LockInit, OpenInit DEF IInv
<1> QED
  BY <1>1, IInvStep, PTL DEF Spec

\* close() shuts nobody out who is in: a call that found the store open when it
\* got through the lifecycle lock never meets a closed store.
THEOREM CloseWaitsForCallsHolds == Spec => []CloseWaitsForCalls
<1>1. IInv => CloseWaitsForCalls
  BY DEF IInv, OpenInv
<1> QED
  BY <1>1, IInvHolds, PTL

-----------------------------------------------------------------------------
(* The refinement of RuntimeLifecycle.                                     *)

LEMMA LifecycleInit == Init => Lifecycle!Init
  BY DEF Init, Lifecycle!Init

LEMMA LifecycleContinue ==
  ASSUME IInv, NEW t \in Clients, Continue(t)
  PROVE  [Lifecycle!Next]_(Lifecycle!lifecycleVars)
<1> USE RuntimeAssumption
    DEF IInv, LockInv, TypeInv, TypeOK, lock, Lifecycle!lifecycleVars
<1>1. CASE GateForWrite(t) \/ GateForRead(t)
  <2>1. Lifecycle!Enter(t)
    BY <1>1 DEF GateForWrite, GateForRead, EnterGate, Lifecycle!Enter
  <2> QED
    BY <2>1 DEF Lifecycle!Next
<1>2. CASE Answer(t) \/ AnswerTimeout(t) \/ Read(t)
  <2>1. Lifecycle!Leave(t)
    BY <1>2 DEF Answer, AnswerTimeout, Read, LeaveGate, Lifecycle!Leave
  <2> QED
    BY <2>1 DEF Lifecycle!Next
<1>3. CASE GateTimeout(t) \/ Submit(t) \/ LastPage(t) \/ CloseTimeout(t) \/ SetStop(t)
           \/ PutPoison(t) \/ Join(t)
  BY <1>3 DEF GateTimeout, Submit, LastPage, CloseTimeout, SetStop, PutPoison, Join
<1>4. CASE GateForClose(t)
  <2>1. Lifecycle!BeginClose
    BY <1>4 DEF GateForClose, WriteLockBlocked, Lifecycle!BeginClose
  <2> QED
    BY <2>1 DEF Lifecycle!Next
<1>5. CASE CloseStore(t)
  <2>1. CASE lockWriter = t
    <3>1. Lifecycle!EndClose
      BY <1>5, <2>1 DEF CloseStore, Lifecycle!EndClose
    <3> QED
      BY <3>1 DEF Lifecycle!Next
  \* A second close, of a store that is closed already.
  <2>2. CASE lockWriter # t
    BY <1>5, <2>2 DEF CloseStore
  <2> QED
    BY <2>1, <2>2
<1>6. CASE CloseStoreFails(t)
  <2>1. CASE lockWriter = t
    <3>1. Lifecycle!AbortClose
      BY <1>6, <2>1 DEF CloseStoreFails, Lifecycle!AbortClose
    <3> QED
      BY <3>1 DEF Lifecycle!Next
  <2>2. CASE lockWriter # t
    BY <1>6, <2>2 DEF CloseStoreFails
  <2> QED
    BY <2>1, <2>2
<1> QED
  BY <1>1, <1>2, <1>3, <1>4, <1>5, <1>6 DEF Continue

LEMMA LifecycleStep == IInv /\ [Next]_vars => [Lifecycle!Next]_(Lifecycle!lifecycleVars)
<1> SUFFICES ASSUME IInv, [Next]_vars
             PROVE  [Lifecycle!Next]_(Lifecycle!lifecycleVars)
  OBVIOUS
<1>1. CASE WriterThread
  BY <1>1 DEF WriterThread, TestLoop, GetCommand, GetEmpty, EnterStore, Execute, Resolve, lock,
              Lifecycle!lifecycleVars
<1>2. CASE \E t \in Clients : Invoke(t)
  BY <1>2 DEF Invoke, CallWrite, CallRead, CallPages, Start, CallClose, lock,
              Lifecycle!lifecycleVars
<1>3. CASE \E t \in Clients : Continue(t)
  BY <1>3, LifecycleContinue
<1>4. CASE UNCHANGED vars
  BY <1>4 DEF vars, lock, Lifecycle!lifecycleVars
<1> QED
  BY <1>1, <1>2, <1>3, <1>4 DEF Next

\* The runtime implements its lifecycle: calls get in while nobody closes it, it
\* closes when nobody is in, and it never opens again.
THEOREM ImplementsLifecycleHolds == Spec => ImplementsLifecycle
  BY IInvHolds, LifecycleInit, LifecycleStep, PTL
  DEF Spec, ImplementsLifecycle, Lifecycle!Spec

-----------------------------------------------------------------------------
(* What a write is promised.                                               *)


Serving == writer \in {"dispatch", "execute"}

LEMMA AppendElements ==
  ASSUME NEW S, NEW s \in Seq(S), NEW e \in S
  PROVE  /\ DOMAIN Append(s, e) = DOMAIN s \cup {Len(s) + 1}
         /\ \A i \in DOMAIN s : Append(s, e)[i] = s[i] /\ i < Len(s) + 1
         /\ Append(s, e)[Len(s) + 1] = e
         /\ DOMAIN s \subseteq 1..Len(s) /\ Len(s) \in Nat
  OBVIOUS

LEMMA TailElements ==
  ASSUME NEW S, NEW s \in Seq(S), s # <<>>
  PROVE  /\ 1 \in DOMAIN s /\ Head(s) = s[1]
         /\ \A i \in DOMAIN Tail(s) : /\ i \in Nat /\ 1 < i + 1 /\ i + 1 \in DOMAIN s
                                      /\ Tail(s)[i] = s[i + 1]
         /\ DOMAIN s \subseteq Nat
  OBVIOUS

\* What the steps of the clients do to the writes.
Quiet == UNCHANGED <<queue, future, committed, cmd, submitted, late, thread>>

LEMMA ClientEffects ==
  ASSUME NEW t \in Clients, Invoke(t) \/ Continue(t)
  PROVE  \/ Quiet
         \/ \E c \in Commands : CallWrite(t, c)
         \/ Submit(t)
         \/ PutPoison(t)
<1>1. CASE Invoke(t)
  BY <1>1 DEF Invoke, CallRead, CallPages, Start, CallClose, Quiet
<1>2. CASE Continue(t)
  BY <1>2 DEF Continue, GateForWrite, GateTimeout, Answer, AnswerTimeout, GateForRead, Read,
              LastPage, GateForClose, CloseTimeout, SetStop, Join, CloseStore, CloseStoreFails,
              Quiet, thread
<1> QED
  BY <1>1, <1>2

-----------------------------------------------------------------------------
(* close() and the writer thread.                                          *)

\* The thread writes to an open store only, and ends only after the stop event.
StopInv ==
  /\ writer = "execute" => store = "open"
  /\ writer = "done" => stop
  /\ NothingStranded

LEMMA StopInit == Init => StopInv
  BY DEF Init, StopInv, NothingStranded

LEMMA StopThread ==
  ASSUME IInv, StopInv, WriterThread
  PROVE  StopInv'
<1> USE DEF StopInv, NothingStranded, IInv, TypeInv, TypeOK, lock
<1>1. CASE TestLoop
  BY <1>1 DEF TestLoop, LoopEnds
<1>2. CASE GetCommand
  BY <1>2 DEF GetCommand
<1>3. CASE GetEmpty
  BY <1>3 DEF GetEmpty
<1>4. CASE EnterStore
  BY <1>4 DEF EnterStore
<1>5. CASE Execute
  BY <1>5 DEF Execute
<1>6. CASE Resolve
  BY <1>6 DEF Resolve
<1> QED
  BY <1>1, <1>2, <1>3, <1>4, <1>5, <1>6 DEF WriterThread

LEMMA StopClient ==
  ASSUME IInv, StopInv, NEW t \in Clients, Invoke(t) \/ Continue(t)
  PROVE  StopInv'
<1> USE RuntimeAssumption DEF StopInv, NothingStranded, thread, lock
<1>1. UNCHANGED <<writer, current, reply>>
  BY DEF Invoke, CallWrite, CallRead, CallPages, Start, CallClose, Continue, GateForWrite,
         GateTimeout, Submit, Answer, AnswerTimeout, GateForRead, Read, LastPage, GateForClose,
         CloseTimeout, SetStop, PutPoison, Join, CloseStore, CloseStoreFails
\* Whoever closes the store waits until no thread writes.
<1>2. /\ writer = "execute" => store' = "open"
      /\ stop => stop'
  <2>1. CASE SetStop(t)
    BY <2>1 DEF SetStop
  <2>2. CASE CloseStore(t)
    BY <2>2 DEF CloseStore
  <2>3. CASE ~SetStop(t) /\ ~CloseStore(t)
    <3>1. UNCHANGED <<store, stop>>
      BY <2>3 DEF Invoke, CallWrite, CallRead, CallPages, Start, CallClose, Continue,
                  GateForWrite, GateTimeout, Submit, Answer, AnswerTimeout, GateForRead, Read,
                  LastPage, GateForClose, CloseTimeout, PutPoison, Join, CloseStoreFails
    <3> QED
      BY <3>1
  <2> QED
    BY <2>1, <2>2, <2>3
<1>3. ASSUME writer = "done" PROVE \A i \in DOMAIN queue' : queue'[i] \in late' \cup {None}
  <2>1. CASE Submit(t)
    \* The thread has ended, so it was stopped.
    <3>1. stop
      BY <1>3
    <3>2. queue' = Append(queue, cmd[t]) /\ late' = late \cup {cmd[t]} /\ cmd[t] \in Commands
      BY <2>1, <3>1 DEF Submit, IInv, TypeInv, Busy
    <3>3. queue \in Seq(Commands \cup {None})
      BY DEF IInv, TypeInv, TypeOK
    <3> QED
      BY <1>3, <3>2, <3>3, AppendElements
  <2>2. CASE PutPoison(t)
    <3>1. queue \in Seq(Commands \cup {None})
      BY DEF IInv, TypeInv, TypeOK
    <3> QED
      BY <1>3, <2>2, <3>1, AppendElements DEF PutPoison
  <2>3. CASE Quiet \/ \E c \in Commands : CallWrite(t, c)
    BY <1>3, <2>3 DEF Quiet, CallWrite
  <2> QED
    BY <2>1, <2>2, <2>3, ClientEffects
<1> QED
  BY <1>1, <1>2, <1>3

LEMMA StopStep == IInv /\ StopInv /\ [Next]_vars => StopInv'
<1> SUFFICES ASSUME IInv, StopInv, [Next]_vars PROVE StopInv'
  OBVIOUS
<1>1. CASE UNCHANGED vars
  BY <1>1 DEF StopInv, NothingStranded, vars, lock, thread
<1> QED
  BY <1>1, StopThread, StopClient DEF Next

LEMMA StopHolds == Spec => []StopInv
  BY IInvHolds, StopInit, StopStep, PTL DEF Spec

\* The writer thread ends only when it has served every command that was queued
\* before a close() stopped it, whoever submits while it is being stopped.
THEOREM NothingStrandedHolds == Spec => []NothingStranded
<1>1. StopInv => NothingStranded
  BY DEF StopInv
<1> QED
  BY <1>1, StopHolds, PTL

\* Nothing is committed after a close() has closed the store, although it gives up
\* waiting for the writer thread after a timeout.
THEOREM ClosedIsFinalHolds == Spec => ClosedIsFinal
<1>1. ASSUME StopInv, [Next]_vars, store = "closed" PROVE committed' = committed
  <2>1. CASE UNCHANGED vars
    BY <2>1 DEF vars
  <2>2. CASE WriterThread
    BY <1>1, <2>2 DEF WriterThread, TestLoop, GetCommand, GetEmpty, EnterStore, Execute, Resolve,
                      StopInv
  <2>3. ASSUME NEW t \in Clients, Invoke(t) \/ Continue(t) PROVE committed' = committed
    BY <2>3, ClientEffects DEF Quiet, CallWrite, Submit, PutPoison
  <2> QED
    BY <1>1, <2>1, <2>2, <2>3 DEF Next
<1>2. StopInv /\ [Next]_vars => [store = "closed" => committed' = committed]_vars
  BY <1>1
<1> QED
  BY <1>2, StopHolds, PTL DEF Spec, ClosedIsFinal

-----------------------------------------------------------------------------
(* The order of the writes.                                                *)

Before(s, c, d) == \E k, l \in DOMAIN s : k < l /\ s[k] = c /\ s[l] = d

In(s, c) == \E k \in DOMAIN s : s[k] = c

\* The committed commands, the one that is being served and the queue, one after
\* the other, are in the order of submission.
OrderInv ==
  /\ \A i, j \in DOMAIN committed :
       i < j => Before(submitted, committed[i], committed[j])
  /\ \A i \in DOMAIN committed :
       /\ In(submitted, committed[i])
       /\ Serving => Before(submitted, committed[i], current)
       /\ \A j \in DOMAIN queue : queue[j] # None => Before(submitted, committed[i], queue[j])
  /\ Serving =>
       /\ In(submitted, current)
       /\ \A j \in DOMAIN queue : queue[j] # None => Before(submitted, current, queue[j])
  /\ \A i, j \in DOMAIN queue :
       /\ queue[i] # None => In(submitted, queue[i])
       /\ i < j /\ queue[i] # None /\ queue[j] # None => Before(submitted, queue[i], queue[j])

LEMMA OrderInit == Init => OrderInv
  BY DEF Init, OrderInv, Serving

\* A command that is submitted comes after every one that was.
LEMMA SubmittedLast ==
  ASSUME TypeInv, NEW c \in Commands, submitted' = Append(submitted, c)
  PROVE  /\ In(submitted', c)
         /\ \A d : In(submitted, d) => In(submitted', d) /\ Before(submitted', d, c)
         /\ \A d, e : Before(submitted, d, e) => Before(submitted', d, e)
<1>1. submitted \in Seq(Commands)
  BY DEF TypeInv, TypeOK
<1>2. /\ DOMAIN submitted' = DOMAIN submitted \cup {Len(submitted) + 1}
      /\ \A i \in DOMAIN submitted : submitted'[i] = submitted[i] /\ i < Len(submitted) + 1
      /\ submitted'[Len(submitted) + 1] = c
  BY <1>1, AppendElements
<1> QED
  BY <1>2 DEF In, Before

LEMMA OrderThread ==
  ASSUME TypeInv, OrderInv, WriterThread
  PROVE  OrderInv'
<1>0. UNCHANGED submitted
  BY DEF WriterThread, TestLoop, GetCommand, GetEmpty, EnterStore, Execute, Resolve
<1>1. CASE TestLoop \/ GetEmpty \/ EnterStore \/ Resolve
  <2>1. (UNCHANGED <<queue, committed, current>> /\ (Serving' => Serving)) \/ Resolve
    BY <1>1 DEF TestLoop, GetEmpty, EnterStore, Serving
  <2>2. CASE Resolve
    BY <1>0, <2>2 DEF Resolve, Serving, OrderInv
  <2> QED
    BY <1>0, <2>1, <2>2 DEF OrderInv
<1>2. CASE GetCommand
  <2>1. /\ queue \in Seq(Commands \cup {None}) /\ queue # <<>>
        /\ queue' = Tail(queue) /\ current' = Head(queue)
        /\ Serving' => Head(queue) # None
        /\ UNCHANGED committed
    BY <1>2 DEF GetCommand, Serving, TypeInv, TypeOK
  <2>2. /\ 1 \in DOMAIN queue /\ current' = queue[1]
        /\ \A i \in DOMAIN queue' : /\ i \in Nat /\ 1 < i + 1 /\ i + 1 \in DOMAIN queue
                                    /\ queue'[i] = queue[i + 1]
        /\ DOMAIN queue \subseteq Nat
    BY <2>1, TailElements
  <2>3. UNCHANGED submitted
    BY <1>0
  <2>4. \A i, j \in DOMAIN queue' :
          /\ queue'[i] # None => In(submitted, queue'[i])
          /\ i < j /\ queue'[i] # None /\ queue'[j] # None => Before(submitted, queue'[i], queue'[j])
    <3>1. \A i, j \in DOMAIN queue' : i < j => i + 1 < j + 1
      BY <2>2
    <3> QED
      BY <2>2, <3>1 DEF OrderInv
  <2>5. \A i \in DOMAIN committed :
          /\ Serving' => Before(submitted, committed[i], current')
          /\ \A j \in DOMAIN queue' : queue'[j] # None => Before(submitted, committed[i], queue'[j])
    BY <2>1, <2>2 DEF OrderInv
  <2>6. Serving' =>
          /\ In(submitted, current')
          /\ \A j \in DOMAIN queue' : queue'[j] # None => Before(submitted, current', queue'[j])
    BY <2>1, <2>2 DEF OrderInv
  <2> QED
    BY <2>1, <2>3, <2>4, <2>5, <2>6 DEF OrderInv
<1>3. CASE Execute
  <2>1. UNCHANGED submitted
    BY <1>0
  <2>2. Serving /\ ~Serving' /\ UNCHANGED queue
    BY <1>3 DEF Execute, Serving
  <2>3. CASE UNCHANGED committed
    BY <2>1, <2>2, <2>3 DEF OrderInv
  <2>4. CASE committed' = Append(committed, current)
    <3>1. committed \in Seq(Commands) /\ current \in Commands
      BY <1>3 DEF Execute, TypeInv, TypeOK, Busy
    <3>2. /\ DOMAIN committed' = DOMAIN committed \cup {Len(committed) + 1}
          /\ \A i \in DOMAIN committed : committed'[i] = committed[i] /\ i < Len(committed) + 1
          /\ committed'[Len(committed) + 1] = current
          /\ DOMAIN committed \subseteq 1..Len(committed) /\ Len(committed) \in Nat
      BY <2>4, <3>1, AppendElements
    <3>3. \A i, j \in DOMAIN committed' : i < j => Before(submitted, committed'[i], committed'[j])
      BY <2>2, <3>2 DEF OrderInv
    <3>5. \A i \in DOMAIN committed' :
            /\ In(submitted, committed'[i])
            /\ \A j \in DOMAIN queue : queue[j] # None => Before(submitted, committed'[i], queue[j])
      BY <2>2, <3>2 DEF OrderInv
    <3> QED
      BY <2>1, <2>2, <3>3, <3>5 DEF OrderInv
  <2> QED
    BY <1>3, <2>3, <2>4 DEF Execute
<1> QED
  BY <1>1, <1>2, <1>3 DEF WriterThread

LEMMA OrderClient ==
  ASSUME TypeInv, OrderInv, NEW t \in Clients, Invoke(t) \/ Continue(t)
  PROVE  OrderInv'
<1> USE RuntimeAssumption DEF thread
<1>1. CASE Quiet \/ \E c \in Commands : CallWrite(t, c)
  <2>1. UNCHANGED <<queue, committed, submitted, current, writer>>
    BY <1>1 DEF Quiet, CallWrite
  <2> QED
    BY <2>1 DEF OrderInv, Serving
<1>2. queue \in Seq(Commands \cup {None})
  BY DEF TypeInv, TypeOK
<1>3. CASE Submit(t)
  <2> DEFINE c == cmd[t]
  <2>1. /\ c \in Commands
        /\ queue' = Append(queue, c) /\ submitted' = Append(submitted, c)
        /\ UNCHANGED <<committed, current, writer>>
    BY <1>3 DEF Submit, TypeInv, Busy
  <2> HIDE DEF c
  <2>2. /\ In(submitted', c)
        /\ \A d : In(submitted, d) => In(submitted', d) /\ Before(submitted', d, c)
        /\ \A d, e : Before(submitted, d, e) => Before(submitted', d, e)
    BY <2>1, SubmittedLast
  <2>3. /\ DOMAIN queue' = DOMAIN queue \cup {Len(queue) + 1}
        /\ \A i \in DOMAIN queue : queue'[i] = queue[i] /\ i < Len(queue) + 1
        /\ queue'[Len(queue) + 1] = c
        /\ DOMAIN queue \subseteq 1..Len(queue) /\ Len(queue) \in Nat
    BY <1>2, <2>1, AppendElements
  <2>4. \A i, j \in DOMAIN committed :
          i < j => Before(submitted', committed[i], committed[j])
    BY <2>2 DEF OrderInv
  <2>5. \A i, j \in DOMAIN queue' :
          /\ queue'[i] # None => In(submitted', queue'[i])
          /\ i < j /\ queue'[i] # None /\ queue'[j] # None => Before(submitted', queue'[i], queue'[j])
    BY <2>2, <2>3 DEF OrderInv
  <2>6. \A i \in DOMAIN committed :
          /\ In(submitted', committed[i])
          /\ Serving => Before(submitted', committed[i], current)
          /\ \A j \in DOMAIN queue' : queue'[j] # None => Before(submitted', committed[i], queue'[j])
    BY <2>2, <2>3 DEF OrderInv
  <2>7. Serving => /\ In(submitted', current)
                   /\ \A j \in DOMAIN queue' : queue'[j] # None => Before(submitted', current, queue'[j])
    BY <2>2, <2>3 DEF OrderInv
  <2> QED
    BY <2>1, <2>4, <2>5, <2>6, <2>7 DEF OrderInv, Serving
<1>4. CASE PutPoison(t)
  <2>1. /\ queue' = Append(queue, None)
        /\ UNCHANGED <<submitted, committed, current, writer>>
    BY <1>4 DEF PutPoison
  <2>2. /\ DOMAIN queue' = DOMAIN queue \cup {Len(queue) + 1}
        /\ \A i \in DOMAIN queue : queue'[i] = queue[i]
        /\ queue'[Len(queue) + 1] = None
    BY <1>2, <2>1, AppendElements
  <2>3. UNCHANGED submitted
    BY <2>1
  <2> QED
    BY <2>1, <2>2, <2>3 DEF OrderInv, Serving
<1> QED
  BY <1>1, <1>3, <1>4, ClientEffects

LEMMA OrderStep == TypeInv /\ OrderInv /\ [Next]_vars => OrderInv'
<1> SUFFICES ASSUME TypeInv, OrderInv, [Next]_vars PROVE OrderInv'
  OBVIOUS
<1>1. CASE UNCHANGED vars
  BY <1>1 DEF OrderInv, Serving, vars, thread
<1> QED
  BY <1>1, OrderThread, OrderClient DEF Next

\* Writes take effect in the order they were submitted, those whose callers have
\* given up waiting included.
THEOREM CommittedInOrderHolds == Spec => []CommittedInOrder
<1>1. OrderInv => CommittedInOrder
  BY DEF OrderInv, CommittedInOrder, Before
<1> QED
  BY <1>1, TypeHolds, OrderInit, OrderStep, PTL DEF Spec

-----------------------------------------------------------------------------
(* The answers.                                                            *)

\* A caller's command is not submitted before it submits it.
CallersInv ==
  \A t \in Clients : pc[t] \in {"gate for write", "submit"} => future[cmd[t]] = "unused"

OwnersInv == \A t, u \in Clients : cmd[t] = cmd[u] /\ cmd[t] # None => t = u

\* A command is in one place at a time, and waits to be executed.
QueueInv ==
  \A i \in DOMAIN queue : queue[i] # None =>
    /\ future[queue[i]] = "pending"
    /\ queue[i] \notin Range(committed)
    /\ queue[i] # current
    /\ \A j \in DOMAIN queue : queue[i] = queue[j] => i = j

CurrentInv ==
  current # None =>
    /\ writer \in {"dispatch", "execute", "resolve"}
    /\ future[current] = "pending"
    /\ Serving => current \notin Range(committed)
    /\ writer = "resolve" /\ reply = "result" => current \in Range(committed) \cup Snapshots
    /\ writer = "resolve" /\ reply = "closed" => current \notin Range(committed)

\* What a future says agrees with what was committed.
FutureInv ==
  \A c \in Commands : /\ future[c] \in {"unused", "closed"} => c \notin Range(committed)
                      /\ future[c] = "result" => c \in Range(committed) \cup Snapshots

AnswerInv == CallersInv /\ OwnersInv /\ QueueInv /\ CurrentInv /\ FutureInv

LEMMA AnswerInit == Init => AnswerInv
  BY DEF Init, AnswerInv, CallersInv, OwnersInv, QueueInv, CurrentInv, FutureInv, Range

LEMMA AnswerGet ==
  ASSUME TypeInv, AnswerInv, GetCommand
  PROVE  AnswerInv'
<1>1. /\ queue \in Seq(Commands \cup {None}) /\ queue # <<>>
      /\ queue' = Tail(queue) /\ current' = Head(queue)
      /\ writer' = IF Head(queue) = None THEN "test" ELSE "dispatch"
      /\ UNCHANGED <<reply, future, committed, pc, cmd, outcome>>
  BY DEF GetCommand, TypeInv, TypeOK
<1>2. /\ 1 \in DOMAIN queue /\ Head(queue) = queue[1]
      /\ \A i \in DOMAIN queue' : /\ i \in Nat /\ 1 < i + 1 /\ i + 1 \in DOMAIN queue
                                  /\ queue'[i] = queue[i + 1]
  BY <1>1, TailElements
<1>3. QueueInv'
  <2>1. SUFFICES ASSUME NEW i \in DOMAIN queue', queue'[i] # None
                 PROVE  /\ future[queue'[i]] = "pending"
                        /\ queue'[i] \notin Range(committed)
                        /\ queue'[i] # current'
                        /\ \A j \in DOMAIN queue' : queue'[i] = queue'[j] => i = j
    BY <1>1 DEF QueueInv
  <2>2. queue[i + 1] = queue'[i] /\ i + 1 \in DOMAIN queue /\ i \in Nat /\ i + 1 # 1
    BY <1>2
  <2>3. /\ future[queue'[i]] = "pending"
        /\ queue'[i] \notin Range(committed)
        /\ \A j \in DOMAIN queue : queue'[i] = queue[j] => i + 1 = j
    BY <2>1, <2>2 DEF AnswerInv, QueueInv
  <2>4. \A j \in DOMAIN queue' : queue'[i] = queue'[j] => i = j
    <3>1. SUFFICES ASSUME NEW j \in DOMAIN queue', queue'[i] = queue'[j] PROVE i = j
      OBVIOUS
    <3>2. j \in Nat /\ j + 1 \in DOMAIN queue /\ queue'[j] = queue[j + 1]
      BY <1>2
    <3>3. i + 1 = j + 1
      BY <2>3, <3>1, <3>2
    <3> QED
      BY <2>2, <3>2, <3>3
  <2> QED
    BY <1>1, <1>2, <2>2, <2>3, <2>4
<1>4. CurrentInv'
  BY <1>1, <1>2 DEF CurrentInv, AnswerInv, QueueInv, Serving
<1> QED
  BY <1>1, <1>3, <1>4 DEF AnswerInv, CallersInv, OwnersInv, FutureInv

LEMMA AnswerExecute ==
  ASSUME TypeInv, AnswerInv, Execute
  PROVE  AnswerInv'
<1>1. /\ writer = "execute" /\ writer' = "resolve" /\ current \in Commands /\ current # None
      /\ UNCHANGED <<queue, current, future, pc, cmd, outcome>>
      /\ reply' \in {"result", "exception"}
  BY RuntimeAssumption DEF Execute, TypeInv, Busy
<1>2. /\ future[current] = "pending" /\ current \notin Range(committed)
      /\ \A i \in DOMAIN queue : queue[i] # None => queue[i] # current
  BY <1>1 DEF AnswerInv, CurrentInv, QueueInv, Serving
<1>3. \/ UNCHANGED committed /\ (reply' = "exception" \/ current \in Snapshots)
      \/ committed' = Append(committed, current)
  <2>1. CASE current \in Snapshots
    BY <2>1 DEF Execute
  <2>2. CASE current \notin Snapshots
    BY <2>2 DEF Execute
  <2> QED
    BY <2>1, <2>2
<1>4. CASE UNCHANGED committed /\ (reply' = "exception" \/ current \in Snapshots)
  BY <1>1, <1>2, <1>4
  DEF AnswerInv, CallersInv, OwnersInv, QueueInv, CurrentInv, FutureInv, Serving
<1>5. CASE committed' = Append(committed, current)
  <2>1. committed \in Seq(Commands)
    BY DEF TypeInv, TypeOK
  <2>2. /\ DOMAIN committed' = DOMAIN committed \cup {Len(committed) + 1}
        /\ \A i \in DOMAIN committed : committed'[i] = committed[i]
        /\ committed'[Len(committed) + 1] = current
    BY <1>1, <1>5, <2>1, AppendElements
  <2>3. Range(committed)' = Range(committed) \cup {current}
    BY <1>1, <2>2 DEF Range
  <2> QED
    BY <1>1, <1>2, <1>5, <2>3
    DEF AnswerInv, CallersInv, OwnersInv, QueueInv, CurrentInv, FutureInv, Serving
<1> QED
  BY <1>3, <1>4, <1>5

LEMMA AnswerResolve ==
  ASSUME TypeInv, AnswerInv, Resolve
  PROVE  AnswerInv'
<1>1. /\ writer = "resolve" /\ current \in Commands /\ current # None
      /\ future' = [future EXCEPT ![current] = reply]
      /\ current' = None
      /\ UNCHANGED <<queue, committed, pc, cmd, outcome>>
  BY RuntimeAssumption DEF Resolve, TypeInv, Busy
<1>2. /\ future' \in [Commands -> Replies \cup {"unused", "pending"}]
      /\ future'[current] = reply
      /\ \A c : c # current => future'[c] = future[c]
  <2>1. future \in [Commands -> Replies \cup {"unused", "pending"}] /\ reply \in Replies
    BY DEF TypeInv, TypeOK
  <2>2. DOMAIN future = Commands
    BY <2>1
  <2>3. \A c : c # current => future'[c] = future[c]
    BY <1>1, <2>1
  <2> QED
    BY <1>1, <2>1, <2>3
<1>3. future[current] = "pending"
  BY <1>1 DEF AnswerInv, CurrentInv
<1>4. CallersInv'
  <2>1. \A t \in Clients : pc[t] \in {"gate for write", "submit"} => cmd[t] # current
    BY <1>3 DEF AnswerInv, CallersInv
  <2> QED
    BY <1>1, <1>2, <2>1 DEF AnswerInv, CallersInv
<1>5. QueueInv'
  BY <1>1, <1>2 DEF AnswerInv, QueueInv
<1>6. FutureInv'
  <2>1. /\ reply \in {"unused", "closed"} => current \notin Range(committed)
        /\ reply = "result" => current \in Range(committed) \cup Snapshots
    <3>1. reply # "unused"
      BY DEF TypeInv, TypeOK, Replies
    <3> QED
      BY <1>1, <3>1 DEF AnswerInv, CurrentInv
  <2> QED
    BY <1>1, <1>2, <2>1 DEF AnswerInv, FutureInv
<1> QED
  BY <1>1, <1>4, <1>5, <1>6 DEF AnswerInv, OwnersInv, CurrentInv

LEMMA AnswerThread ==
  ASSUME TypeInv, AnswerInv, WriterThread
  PROVE  AnswerInv'
<1>1. CASE TestLoop \/ GetEmpty
  <2>1. /\ UNCHANGED <<queue, current, future, committed, pc, cmd, outcome>>
        /\ writer \in {"test", "get"}
    BY <1>1 DEF TestLoop, GetEmpty
  <2> QED
    BY <2>1 DEF AnswerInv, CallersInv, OwnersInv, QueueInv, CurrentInv, FutureInv
<1>2. CASE EnterStore
  <2>1. /\ UNCHANGED <<queue, current, future, committed, pc, cmd, outcome>>
        /\ writer = "dispatch"
        /\ writer' = "execute" \/ (writer' = "resolve" /\ reply' = "closed")
    <3>1. CASE store = "open"
      BY <1>2, <3>1 DEF EnterStore
    <3>2. CASE store # "open"
      BY <1>2, <3>2 DEF EnterStore
    <3> QED
      BY <3>1, <3>2
  <2>2. CurrentInv'
    BY <2>1 DEF AnswerInv, CurrentInv, Serving
  <2> QED
    BY <2>1, <2>2 DEF AnswerInv, CallersInv, OwnersInv, QueueInv, FutureInv
<1> QED
  BY <1>1, <1>2, AnswerGet, AnswerExecute, AnswerResolve DEF WriterThread

\* A step of a client that leaves the writes alone: it may be told an answer.
LEMMA AnswerQuiet ==
  ASSUME TypeInv, AnswerInv, NEW t \in Clients, Invoke(t) \/ Continue(t), Quiet
  PROVE  AnswerInv'
<1>1. pc \in [Clients -> ClientSteps] /\ outcome \in [Clients -> Outcomes]
  BY DEF TypeInv, TypeOK
<1>2. CASE Continue(t)
  <2>1. /\ \A u \in Clients : u # t => pc'[u] = pc[u]
        /\ pc'[t] \in {"gate for write", "submit"} => pc[t] \in {"gate for write", "submit"}
    BY <1>1, <1>2 DEF Continue, GateForWrite, GateTimeout, Submit, Answer, AnswerTimeout,
         GateForRead, Read, LastPage, GateForClose, CloseTimeout, SetStop, PutPoison, Join,
         CloseStore, CloseStoreFails, Goto, End, EnterGate
  <2>2. CallersInv'
    BY <2>1 DEF AnswerInv, CallersInv, Quiet
  <2> QED
    BY <2>2 DEF AnswerInv, OwnersInv, QueueInv, CurrentInv, FutureInv, Serving, Quiet, thread
<1>3. CASE Invoke(t)
  <2>1. ASSUME NEW c \in Commands, CallWrite(t, c) PROVE FALSE
    <3>1. cmd[t] # c /\ cmd'[t] = c
      BY <2>1 DEF CallWrite, TypeInv, TypeOK
    <3> QED
      BY <3>1 DEF Quiet
  <2>2. /\ \A u \in Clients : u # t => pc'[u] = pc[u]
        /\ pc'[t] \notin {"gate for write", "submit"}
    BY <1>1, <1>3, <2>1 DEF Invoke, CallRead, CallPages, Start, CallClose, Goto
  <2>3. CallersInv'
    BY <2>2 DEF AnswerInv, CallersInv, Quiet
  <2> QED
    BY <2>3 DEF AnswerInv, OwnersInv, QueueInv, CurrentInv, FutureInv, Serving, Quiet, thread
<1> QED
  BY <1>2, <1>3

LEMMA AnswerCallWrite ==
  ASSUME TypeInv, AnswerInv, NEW t \in Clients, NEW c \in Commands, CallWrite(t, c)
  PROVE  AnswerInv'
<1>1. /\ future[c] = "unused" /\ \A u \in Clients : cmd[u] # c
      /\ UNCHANGED <<queue, future, committed, thread>>
  BY DEF CallWrite
<1>2. /\ cmd'[t] = c /\ outcome'[t] = "none"
      /\ \A u \in Clients : u # t => /\ pc'[u] = pc[u] /\ cmd'[u] = cmd[u]
                                     /\ outcome'[u] = outcome[u]
  BY DEF CallWrite, Goto, TypeInv, TypeOK
<1>3. CallersInv'
  BY <1>1, <1>2 DEF AnswerInv, CallersInv
<1>4. OwnersInv'
  BY <1>1, <1>2 DEF AnswerInv, OwnersInv
<1> QED
  BY <1>1, <1>3, <1>4 DEF AnswerInv, QueueInv, CurrentInv, FutureInv, Serving, thread

LEMMA AnswerSubmit ==
  ASSUME TypeInv, AnswerInv, NEW t \in Clients, Submit(t)
  PROVE  AnswerInv'
<1> DEFINE c == cmd[t]
<1>1. /\ c \in Commands /\ c # None /\ future[c] = "unused"
      /\ queue' = Append(queue, c)
      /\ pc' = [pc EXCEPT ![t] = "wait"]
      /\ UNCHANGED <<committed, thread, cmd, outcome>>
  BY RuntimeAssumption DEF Submit, Goto, TypeInv, Busy, AnswerInv, CallersInv
<1>2. /\ future'[c] = "pending"
      /\ \A d : d # c => future'[d] = future[d]
  BY <1>1 DEF Submit, TypeInv, TypeOK
<1>3. CallersInv'
  <2>1. \A u \in Clients : /\ u # t /\ cmd[u] # None => cmd[u] # c /\ pc'[u] = pc[u]
                           /\ pc'[t] = "wait"
    BY <1>1 DEF AnswerInv, OwnersInv, TypeInv, TypeOK
  <2>2. \A u \in Clients : pc[u] \in {"gate for write", "submit"} => cmd[u] # None
    BY RuntimeAssumption DEF TypeInv, Busy
  <2>3. \A u \in Clients : u # t => pc'[u] = pc[u]
    BY <1>1 DEF TypeInv, TypeOK
  <2>4. \A u \in Clients : pc'[u] \in {"gate for write", "submit"} => future'[cmd[u]] = "unused"
    BY <1>2, <2>1, <2>2, <2>3 DEF AnswerInv, CallersInv
  <2> QED
    BY <1>1, <2>4 DEF CallersInv
<1> HIDE DEF c
<1>4. c \notin Range(committed) /\ c # current /\ \A i \in DOMAIN queue : queue[i] # c
  BY <1>1 DEF AnswerInv, FutureInv, CurrentInv, QueueInv
<1>5. QueueInv'
  <2>1. queue \in Seq(Commands \cup {None})
    BY DEF TypeInv, TypeOK
  <2>2. /\ DOMAIN queue' = DOMAIN queue \cup {Len(queue) + 1}
        /\ \A i \in DOMAIN queue : queue'[i] = queue[i] /\ i < Len(queue) + 1
        /\ queue'[Len(queue) + 1] = c
    BY <1>1, <2>1, AppendElements
  <2> QED
    BY <1>1, <1>2, <1>4, <2>2 DEF AnswerInv, QueueInv, thread
<1>6. CurrentInv' /\ FutureInv'
  BY <1>1, <1>2, <1>4 DEF AnswerInv, CurrentInv, FutureInv, Serving, thread
<1> QED
  BY <1>1, <1>3, <1>5, <1>6 DEF AnswerInv, OwnersInv

LEMMA AnswerPoison ==
  ASSUME TypeInv, AnswerInv, NEW t \in Clients, PutPoison(t)
  PROVE  AnswerInv'
<1>1. /\ queue' = Append(queue, None)
      /\ UNCHANGED <<future, committed, thread, cmd, outcome>>
      /\ \A u \in Clients : pc'[u] \in {pc[u], "join"}
  BY DEF PutPoison, Goto, TypeInv, TypeOK
<1>2. queue \in Seq(Commands \cup {None})
  BY DEF TypeInv, TypeOK
<1>3. /\ DOMAIN queue' = DOMAIN queue \cup {Len(queue) + 1}
      /\ \A i \in DOMAIN queue : queue'[i] = queue[i]
      /\ queue'[Len(queue) + 1] = None
  BY <1>1, <1>2, AppendElements
<1>4. CallersInv'
  BY <1>1 DEF AnswerInv, CallersInv
<1>5. QueueInv'
  BY <1>1, <1>3 DEF AnswerInv, QueueInv, thread
<1> QED
  BY <1>1, <1>4, <1>5 DEF AnswerInv, OwnersInv, CurrentInv, FutureInv, Serving, thread

LEMMA AnswerStep == TypeInv /\ AnswerInv /\ [Next]_vars => AnswerInv'
<1> SUFFICES ASSUME TypeInv, AnswerInv, [Next]_vars PROVE AnswerInv'
  OBVIOUS
<1>1. CASE UNCHANGED vars
  BY <1>1 DEF AnswerInv, CallersInv, OwnersInv, QueueInv, CurrentInv, FutureInv, Serving,
              vars, thread
<1>2. ASSUME NEW t \in Clients, Invoke(t) \/ Continue(t) PROVE AnswerInv'
  BY <1>2, ClientEffects, AnswerQuiet, AnswerCallWrite, AnswerSubmit, AnswerPoison
<1> QED
  BY <1>1, <1>2, AnswerThread DEF Next

\* What a future tells its caller is true and final: a result only for what was
\* committed (or is a snapshot), a closed store only for what never was, and whatever
\* the answer, nothing of an answered command takes effect afterwards.
THEOREM AnswersAreTrueHolds == Spec => []AnswersAreTrue
<1>1. ASSUME AnswerInv PROVE AnswersAreTrue
  <2>1. SUFFICES ASSUME NEW c \in Commands
                 PROVE  /\ future[c] = "result" => c \in Range(committed) \cup Snapshots
                        /\ future[c] = "closed" => c \notin Range(committed)
                        /\ future[c] \in Replies => c # current /\ c \notin Range(queue)
    BY DEF AnswersAreTrue
  <2>2. c = current \/ c \in Range(queue) => future[c] = "pending"
    <3>1. c # None
      BY RuntimeAssumption
    <3> QED
      BY <1>1, <3>1 DEF AnswerInv, CurrentInv, QueueInv, Range
  <2> QED
    BY <1>1, <2>2 DEF AnswerInv, FutureInv, Replies
<1> QED
  BY <1>1, TypeHolds, AnswerInit, AnswerStep, PTL DEF Spec
=============================================================================
