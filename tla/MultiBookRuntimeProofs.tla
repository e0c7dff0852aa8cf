------------------------- MODULE MultiBookRuntimeProofs -------------------------
(***************************************************************************)
(* Proofs about MultiBookRuntime.tla, for any number of threads, books and *)
(* runtimes: what the dictionary holds is open and nobody's to close,      *)
(* nothing that runs is forgotten, and debug_snapshot always answers.      *)
(***************************************************************************)
EXTENDS MultiBookRuntime, TLAPS

-----------------------------------------------------------------------------
(* Types, and the dictionary's lock.                                       *)

Opening == {"persist", "wait", "register"}
Closing == {"next", "runtime gate", "stop"}
Writing == {"create", "open", "pop", "drain"} \cup Opening
Reading == {"lookup", "list", "debug", "look"}

TypeInv ==
  /\ readers \subseteq Threads
  /\ writer \in Threads \cup {None}
  /\ runtimes \in [Books -> Runtimes \cup {None}]
  /\ bookOf \in [Runtimes -> Books \cup {None}]
  /\ users \in [Runtimes -> SUBSET Threads]
  /\ closing \in [Runtimes -> BOOLEAN]
  /\ live \in [Runtimes -> BOOLEAN]
  /\ pc \in [Threads -> {"idle", "gate", "call gate", "served"} \cup Writing \cup Reading \cup Closing]
  /\ op \in [Threads -> Ops \cup {None}]
  /\ book \in [Threads -> Books \cup {None}]
  /\ runtime \in [Threads -> Runtimes \cup {None}]
  /\ todo \in [Threads -> SUBSET Runtimes]
  /\ DOMAIN outcome = Threads
  /\ orphans \subseteq Runtimes

\* What a call knows at its statements, and what it holds of the lock there.
CallKnows(t) ==
  /\ pc[t] = "gate" => op[t] \in Ops
  /\ pc[t] = "gate" /\ op[t] \notin {"close", "list", "debug"} => book[t] \in Books
  /\ pc[t] \in {"create", "open", "pop", "lookup"} \cup Opening => book[t] \in Books
  /\ pc[t] \in Opening \cup {"runtime gate", "stop", "call gate", "served"} =>
       runtime[t] \in Runtimes

CallHolds(t) ==
  /\ pc[t] \in Writing => writer = t
  /\ pc[t] \in Reading => t \in readers
  /\ pc[t] = "look" => todo[t] \subseteq Registered

CallsInv == \A t \in Threads : CallKnows(t)
LockInv == (writer # None => readers = {}) /\ \A t \in Threads : CallHolds(t)

-----------------------------------------------------------------------------
(* The runtimes.                                                           *)

\* A call that makes a runtime has one of its own, that nobody knows of.
FreshInv ==
  \A t \in Threads : pc[t] \in Opening =>
    /\ bookOf[runtime[t]] = book[t]
    /\ live[runtime[t]] /\ ~closing[runtime[t]]
    /\ runtime[t] \notin Registered
    /\ runtimes[book[t]] = None
    /\ \A u \in Threads : /\ u # t /\ pc[u] \in Opening => runtime[u] # runtime[t]
                          /\ pc[u] \in Closing =>
                               /\ runtime[t] \notin todo[u]
                               /\ pc[u] # "next" => runtime[u] # runtime[t]

\* A call closes runtimes that were constructed.
HandsInv ==
  \A t \in Threads : pc[t] \in Closing =>
    /\ \A i \in todo[t] : bookOf[i] # None
    /\ pc[t] # "next" => bookOf[runtime[t]] # None

\* A runtime is as its constructor leaves it until a call closes it.
UnusedInv == \A i \in Runtimes : bookOf[i] = None => live[i] /\ ~closing[i]

RuntimesInv ==
  FreshInv /\ HandsInv /\ UnusedInv /\ RegisteredRuns /\ NoneForgotten /\ SnapshotsAnswer

IInv == TypeInv /\ CallsInv /\ LockInv /\ RuntimesInv

LEMMA IInvInit == Init => IInv
<1> SUFFICES ASSUME Init PROVE IInv
  OBVIOUS
<1> USE MultiBookAssumption DEF Init
<1>1. TypeInv
  BY DEF TypeInv
<1>2. CallsInv /\ LockInv
  BY DEF CallsInv, LockInv, CallKnows, CallHolds, Opening, Writing, Reading
<1>3. FreshInv /\ HandsInv /\ RegisteredRuns /\ SnapshotsAnswer
  BY DEF FreshInv, HandsInv, RegisteredRuns, SnapshotsAnswer, Opening, Closing
<1>4. NoneForgotten /\ UnusedInv
  BY DEF NoneForgotten, UnusedInv, Constructed
<1> QED
  BY <1>1, <1>2, <1>3, <1>4 DEF IInv, RuntimesInv

\* RegisteredRuns makes the books of the dictionary share no runtime.
LEMMA OneBookEach ==
  ASSUME RegisteredRuns, NEW b \in Books, NEW c \in Books,
         runtimes[b] = runtimes[c], runtimes[b] # None
  PROVE  b = c
  BY DEF RegisteredRuns

-----------------------------------------------------------------------------
(* What a step of one thread leaves alone.                                 *)

\* The step is thread t's, and its variables keep their types.
Local(t) ==
  /\ pc' \in [Threads -> {"idle", "gate", "call gate", "served"} \cup Writing \cup Reading \cup Closing]
  /\ op' \in [Threads -> Ops \cup {None}]
  /\ book' \in [Threads -> Books \cup {None}]
  /\ runtime' \in [Threads -> Runtimes \cup {None}]
  /\ todo' \in [Threads -> SUBSET Runtimes]
  /\ DOMAIN outcome' = Threads
  /\ \A u \in Threads \ {t} : UNCHANGED <<pc[u], op[u], book[u], runtime[u], todo[u], outcome[u]>>

\* The types that a step leaves or gives to the shared variables.
Shared ==
  /\ readers' \subseteq Threads
  /\ writer' \in Threads \cup {None}
  /\ runtimes' \in [Books -> Runtimes \cup {None}]
  /\ bookOf' \in [Runtimes -> Books \cup {None}]
  /\ users' \in [Runtimes -> SUBSET Threads]
  /\ closing' \in [Runtimes -> BOOLEAN]
  /\ live' \in [Runtimes -> BOOLEAN]
  /\ orphans' \subseteq Runtimes

\* The dictionary changes only under the lock, so who reads it sees it stand still.
LEMMA LockKept ==
  ASSUME IInv, NEW t \in Threads, Local(t), UNCHANGED lock \/ Release(t),
         runtimes' = runtimes \/ writer = t, CallHolds(t)'
  PROVE  LockInv'
<1>1. writer' # None => readers' = {}
  BY DEF IInv, LockInv, Release, lock
<1>2. ASSUME NEW u \in Threads \ {t} PROVE CallHolds(u)'
  <2>1. UNCHANGED <<pc[u], todo[u]>> /\ u # t /\ u \in Threads
    BY <1>2 DEF Local
  <2>2. pc'[u] \in Writing => writer' = u
    BY <2>1 DEF IInv, LockInv, CallHolds, Release, lock
  <2>3. pc'[u] \in Reading => u \in readers'
    BY <2>1 DEF IInv, LockInv, CallHolds, Release, lock
  <2>4. ASSUME pc'[u] = "look" PROVE todo'[u] \subseteq Registered'
    <3>1. u \in readers /\ todo[u] \subseteq Registered
      BY <2>1, <2>4 DEF IInv, LockInv, CallHolds, Reading
    <3>2. runtimes' = runtimes
      BY <3>1, MultiBookAssumption DEF IInv, LockInv
    <3> QED
      BY <2>1, <3>1, <3>2 DEF Registered
  <2> QED
    BY <2>2, <2>3, <2>4 DEF CallHolds
<1> QED
  BY <1>1, <1>2 DEF LockInv

LEMMA Kept ==
  ASSUME IInv, NEW t \in Threads, Local(t), Shared, UNCHANGED lock \/ Release(t),
         runtimes' = runtimes \/ writer = t, CallHolds(t)', CallKnows(t)', RuntimesInv'
  PROVE  IInv'
<1>1. TypeInv'
  BY DEF TypeInv, Local, Shared
<1>2. CallsInv'
  <2> SUFFICES ASSUME NEW u \in Threads \ {t} PROVE CallKnows(u)'
    BY DEF CallsInv
  <2> QED
    BY DEF IInv, CallsInv, CallKnows, Local
<1>3. LockInv'
  BY LockKept
<1> QED
  BY <1>1, <1>2, <1>3 DEF IInv

\* A call that ends gives back the lock and what it held.
LEMMA EndEffect ==
  ASSUME TypeInv, NEW t \in Threads, NEW result, End(t, result)
  PROVE  /\ Local(t) /\ Release(t)
         /\ pc'[t] = "idle" /\ outcome'[t] = result
         /\ CallKnows(t)' /\ CallHolds(t)'
<1>1. Local(t) /\ Release(t) /\ pc'[t] = "idle" /\ outcome'[t] = result
  BY DEF End, Goto, Local, TypeInv
<1> QED
  BY <1>1 DEF CallKnows, CallHolds, Opening, Writing, Reading

-----------------------------------------------------------------------------
(* Steps that leave the runtimes where they are.                           *)

\* A thread that neither opens nor closes, before and after a step.
Aside(t) == pc[t] \notin Opening \cup Closing

LEMMA AsideKeeps ==
  ASSUME IInv, NEW t \in Threads, Aside(t), Aside(t)',
         UNCHANGED <<runtimes, bookOf, closing, live, orphans>>,
         Local(t),
         outcome'[t] # "Unavailable"
  PROVE  RuntimesInv'
<1>0. \A u \in Threads \ {t} :
        UNCHANGED <<pc[u], book[u], runtime[u], todo[u], outcome[u]>>
  BY DEF Local
<1>1. Registered' = Registered /\ Constructed' = Constructed
  BY DEF Registered, Constructed
<1>2. FreshInv'
  BY <1>0, <1>1 DEF IInv, RuntimesInv, FreshInv, Aside
<1>3. HandsInv'
  BY <1>0 DEF IInv, RuntimesInv, HandsInv, Aside
<1>4. RegisteredRuns'
  <2> SUFFICES ASSUME NEW b \in Books, runtimes[b] # None, NEW u \in Threads
               PROVE  /\ bookOf[runtimes[b]] = b /\ live[runtimes[b]] /\ ~closing[runtimes[b]]
                      /\ pc'[u] \in Closing =>
                           runtimes[b] \notin todo'[u] /\ (pc'[u] # "next" => runtimes[b] # runtime'[u])
    BY MultiBookAssumption DEF RegisteredRuns, Closing
  <2>1. pc'[u] \in Closing => u # t
    BY DEF Aside
  <2>2. /\ bookOf[runtimes[b]] = b /\ live[runtimes[b]] /\ ~closing[runtimes[b]]
        /\ pc[u] \in Closing =>
             runtimes[b] \notin todo[u] /\ (pc[u] # "next" => runtimes[b] # runtime[u])
    BY DEF IInv, RuntimesInv, RegisteredRuns, Closing
  <2> QED
    BY <1>0, <2>1, <2>2
<1>5. \A i : InHand(i) => InHand(i)'
  BY <1>0 DEF InHand, Aside, Opening, Closing
<1>6. NoneForgotten'
  BY <1>1, <1>5 DEF IInv, RuntimesInv, NoneForgotten
<1>7. SnapshotsAnswer' /\ UnusedInv'
  BY <1>0 DEF IInv, RuntimesInv, SnapshotsAnswer, UnusedInv
<1> QED
  BY <1>2, <1>3, <1>4, <1>6, <1>7 DEF RuntimesInv

\* What the calls of the dictionary do that neither open nor close a runtime.
LEMMA EndKeeps ==
  ASSUME IInv, NEW t \in Threads, NEW result, End(t, result), Aside(t), result # "Unavailable",
         UNCHANGED <<runtimes, bookOf, closing, live, orphans>>, users' \in [Runtimes -> SUBSET Threads]
  PROVE  IInv'
<1>1. /\ Local(t) /\ Release(t) /\ pc'[t] = "idle" /\ outcome'[t] = result
      /\ CallKnows(t)' /\ CallHolds(t)'
  BY EndEffect DEF IInv
<1>2. Aside(t)'
  BY <1>1 DEF Aside, Opening, Closing
<1>3. Shared
  BY <1>1 DEF Shared, Release, IInv, TypeInv
<1>4. RuntimesInv'
  BY <1>1, <1>2, AsideKeeps
<1> QED
  BY <1>1, <1>3, <1>4, Kept

LEMMA InvokeKeeps ==
  ASSUME IInv, NEW t \in Threads, Invoke(t)
  PROVE  IInv'
<1>1. PICK o \in Calls[t] : \E b \in IF o \in {"close", "list", "debug"} THEN {None} ELSE Books : Call(t, o, b)
  BY DEF Invoke
<1>2. PICK b \in IF o \in {"close", "list", "debug"} THEN {None} ELSE Books : Call(t, o, b)
  BY <1>1
<1>3. o \in Ops /\ b \in Books \cup {None} /\ (o \notin {"close", "list", "debug"} => b \in Books)
  BY <1>2, MultiBookAssumption
<1>4. Local(t) /\ pc'[t] = "gate" /\ op'[t] = o /\ book'[t] = b /\ outcome'[t] = "none"
  BY <1>2, <1>3 DEF Call, Goto, Local, IInv, TypeInv
<1>5. CallKnows(t)' /\ CallHolds(t)' /\ Aside(t) /\ Aside(t)'
  BY <1>2, <1>3, <1>4 DEF CallKnows, CallHolds, Aside, Call, Opening, Closing, Writing, Reading
<1>6. Shared /\ UNCHANGED <<lock, runtimes, bookOf, closing, live, orphans>>
  BY <1>2 DEF Call, Shared, IInv, TypeInv, lock, lives
<1>7. RuntimesInv'
  BY <1>4, <1>5, <1>6, AsideKeeps
<1> QED
  BY <1>4, <1>5, <1>6, <1>7, Kept

\* The lock is given to a writer alone, or to readers.
LEMMA GateKeeps ==
  ASSUME IInv, NEW t \in Threads, Gate(t)
  PROVE  IInv'
<1>1. op[t] \in Ops /\ (op[t] \notin {"close", "list", "debug"} => book[t] \in Books)
  BY DEF Gate, IInv, CallsInv, CallKnows
<1>2. /\ Body(op[t]) \in {"create", "open", "pop", "drain", "lookup", "list", "debug"}
      /\ op[t] \in ForWriting <=> Body(op[t]) \in {"create", "open", "pop", "drain"}
      /\ Body(op[t]) \in {"create", "open", "pop", "lookup"} => book[t] \in Books
  BY <1>1 DEF Body, Ops, ForWriting
<1>3. Local(t) /\ pc'[t] = Body(op[t]) /\ book' = book /\ outcome' = outcome
  BY <1>2 DEF Gate, Goto, Local, IInv, TypeInv, Writing, Reading
<1>4. CallKnows(t)' /\ Aside(t) /\ Aside(t)'
  BY <1>2, <1>3 DEF CallKnows, Aside, Gate, Opening, Closing
<1>5. UNCHANGED <<runtimes, bookOf, users, closing, live, orphans>>
  BY DEF Gate, lives
<1>6. Shared
  BY <1>5 DEF Shared, Gate, IInv, TypeInv
<1>7. outcome[t] # "Unavailable"
  BY DEF IInv, RuntimesInv, SnapshotsAnswer
<1>8. RuntimesInv'
  BY <1>3, <1>4, <1>5, <1>7, AsideKeeps
<1>9. TypeInv'
  BY <1>3, <1>6 DEF TypeInv, Local, Shared
<1>10. CallsInv'
  <2> SUFFICES ASSUME NEW u \in Threads \ {t} PROVE CallKnows(u)'
    BY <1>4 DEF CallsInv
  <2> QED
    BY <1>3 DEF IInv, CallsInv, CallKnows, Local
<1>11. LockInv'
  <2>1. writer' # None => readers' = {}
    BY MultiBookAssumption DEF Gate
  <2>2. CallHolds(t)'
    BY <1>2, <1>3, MultiBookAssumption DEF Gate, CallHolds, Writing, Reading, Opening
  <2>3. ASSUME NEW u \in Threads \ {t} PROVE CallHolds(u)'
    <3>1. UNCHANGED <<pc[u], todo[u]>> /\ u \in Threads
      BY <1>3, <2>3 DEF Local
    <3>5. Registered' = Registered
      BY <1>5 DEF Registered
    <3>2. pc[u] \notin Writing
      BY <3>1, MultiBookAssumption DEF Gate, IInv, LockInv, CallHolds
    <3>3. pc[u] \in Reading => u \in readers'
      BY <3>1 DEF Gate, IInv, LockInv, CallHolds
    <3>4. pc[u] = "look" => todo[u] \subseteq Registered
      BY <3>1 DEF IInv, LockInv, CallHolds
    <3> QED
      BY <3>1, <3>2, <3>3, <3>4, <3>5 DEF CallHolds
  <2> QED
    BY <2>1, <2>2, <2>3 DEF LockInv
<1> QED
  BY <1>8, <1>9, <1>10, <1>11 DEF IInv

LEMMA LookupKeeps ==
  ASSUME IInv, NEW t \in Threads, Lookup(t)
  PROVE  IInv'
<1>1. /\ Aside(t) /\ book[t] \in Books /\ pc[t] = "lookup"
      /\ UNCHANGED <<runtimes, bookOf, users, closing, live, orphans>>
  BY DEF Lookup, Aside, Opening, Closing, lives, IInv, CallsInv, CallKnows
<1>2. CASE runtimes[book[t]] = None
  <2>1. End(t, "KeyError")
    BY <1>2 DEF Lookup
  <2>2. users' \in [Runtimes -> SUBSET Threads]
    BY <1>1 DEF IInv, TypeInv
  <2> QED
    BY <1>1, <2>1, <2>2, EndKeeps
<1>3. CASE runtimes[book[t]] # None
  <2>1. runtimes[book[t]] \in Runtimes
    BY <1>1, <1>3 DEF IInv, TypeInv
  <2>2. /\ Local(t) /\ Release(t) /\ pc'[t] = "call gate" /\ runtime'[t] \in Runtimes
        /\ outcome' = outcome
    BY <1>3, <2>1 DEF Lookup, Local, Goto, IInv, TypeInv
  <2>3. Shared
    BY <1>1, <2>2 DEF Shared, Release, IInv, TypeInv
  <2>4. Aside(t)' /\ CallKnows(t)' /\ CallHolds(t)'
    BY <2>2 DEF Aside, CallKnows, CallHolds, Opening, Closing, Writing, Reading
  <2>5. outcome'[t] # "Unavailable"
    BY <2>2 DEF IInv, RuntimesInv, SnapshotsAnswer
  <2>6. RuntimesInv'
    BY <1>1, <2>2, <2>4, <2>5, AsideKeeps
  <2> QED
    BY <1>1, <2>2, <2>3, <2>4, <2>6, Kept
<1> QED
  BY <1>2, <1>3

LEMMA CallGateKeeps ==
  ASSUME IInv, NEW t \in Threads, CallGate(t)
  PROVE  IInv'
<1>1. /\ Aside(t) /\ runtime[t] \in Runtimes
      /\ UNCHANGED <<lock, runtimes, bookOf, closing, live, orphans>>
  BY DEF CallGate, Aside, Opening, Closing, IInv, CallsInv, CallKnows
<1>2. Local(t) /\ pc'[t] = "served" /\ runtime' = runtime /\ outcome' = outcome
  BY DEF CallGate, Local, Goto, IInv, TypeInv
<1>3. Shared
  BY <1>1 DEF Shared, CallGate, Enter, IInv, TypeInv, lock
<1>4. Aside(t)' /\ CallKnows(t)' /\ CallHolds(t)'
  BY <1>1, <1>2 DEF Aside, CallKnows, CallHolds, Opening, Closing, Writing, Reading
<1>5. outcome'[t] # "Unavailable"
  BY <1>2 DEF IInv, RuntimesInv, SnapshotsAnswer
<1>6. RuntimesInv'
  BY <1>1, <1>2, <1>4, <1>5, AsideKeeps
<1> QED
  BY <1>1, <1>2, <1>3, <1>4, <1>6, Kept

LEMMA ServedKeeps ==
  ASSUME IInv, NEW t \in Threads, Served(t)
  PROVE  IInv'
<1>1. PICK result \in {"ok", "Error", "Timeout", "Closed"} : End(t, result)
  BY DEF Served
<1>2. Aside(t) /\ UNCHANGED <<runtimes, bookOf, closing, live, orphans>>
  BY DEF Served, Aside, Opening, Closing
<1>3. users' \in [Runtimes -> SUBSET Threads]
  BY DEF Served, Leave, IInv, TypeInv
<1> QED
  BY <1>1, <1>2, <1>3, EndKeeps

\* debug_snapshot takes its list of runtimes under the lock, and keeps the lock.
LEMMA DebugKeeps ==
  ASSUME IInv, NEW t \in Threads, Debug(t)
  PROVE  IInv'
<1>1. /\ Aside(t) /\ t \in readers
      /\ UNCHANGED <<lock, runtimes, bookOf, users, closing, live, orphans>>
  BY DEF Debug, Aside, Opening, Closing, IInv, LockInv, CallHolds, Reading, lives
<1>2. Registered \subseteq Runtimes
  <2> SUFFICES ASSUME NEW b \in Books, runtimes[b] # None PROVE runtimes[b] \in Runtimes
    BY DEF Registered
  <2> QED
    BY DEF IInv, TypeInv
<1>3. Local(t) /\ pc'[t] = "look" /\ todo'[t] = Registered /\ outcome' = outcome
  BY <1>2 DEF Debug, Local, Goto, IInv, TypeInv, Reading
<1>4. Shared
  BY <1>1 DEF Shared, IInv, TypeInv, lock
<1>5. Registered' = Registered
  BY <1>1 DEF Registered
<1>6. Aside(t)' /\ CallKnows(t)' /\ CallHolds(t)'
  BY <1>1, <1>3, <1>5 DEF Aside, CallKnows, CallHolds, Opening, Closing, Writing, Reading, lock
<1>7. outcome'[t] # "Unavailable"
  BY <1>3 DEF IInv, RuntimesInv, SnapshotsAnswer
<1>8. RuntimesInv'
  BY <1>1, <1>3, <1>6, <1>7, AsideKeeps
<1> QED
  BY <1>1, <1>3, <1>4, <1>6, <1>8, Kept

\* What the dictionary holds while the lock is held can be looked at.
LEMMA LookKeeps ==
  ASSUME IInv, NEW t \in Threads, Look(t)
  PROVE  IInv'
<1>1. /\ pc[t] = "look" /\ Aside(t) /\ t \in readers /\ todo[t] \subseteq Registered
      /\ UNCHANGED <<runtimes, bookOf, users, closing, live, orphans>>
  BY DEF Look, Aside, Opening, Closing, IInv, LockInv, CallHolds, Reading, lives
<1>2. users' \in [Runtimes -> SUBSET Threads]
  BY <1>1 DEF IInv, TypeInv
<1>3. CASE todo[t] = {}
  <2>1. End(t, "ok")
    BY <1>3 DEF Look
  <2> QED
    BY <1>1, <1>2, <2>1, EndKeeps
<1>4. CASE todo[t] # {}
  <2>1. PICK i \in todo[t] :
          IF CloserAt(i) \/ ~live[i]
          THEN End(t, "Unavailable")
          ELSE /\ todo' = [todo EXCEPT ![t] = @ \ {i}]
               /\ UNCHANGED <<lock, pc, op, book, runtime, outcome>>
    BY <1>4 DEF Look
  <2>2. live[i] /\ ~CloserAt(i)
    <3>1. PICK b \in Books : runtimes[b] = i /\ runtimes[b] # None
      BY <1>1 DEF Registered
    <3>2. /\ live[i] /\ ~closing[i]
          /\ \A u \in Threads : pc[u] = "runtime gate" => runtime[u] # i
      BY <3>1 DEF IInv, RuntimesInv, RegisteredRuns
    <3> QED
      BY <3>2 DEF CloserAt
  <2>3. todo' = [todo EXCEPT ![t] = @ \ {i}] /\ UNCHANGED <<lock, pc, op, book, runtime, outcome>>
    BY <2>1, <2>2
  <2>4. Local(t) /\ pc'[t] = "look" /\ todo'[t] \subseteq todo[t]
    BY <1>1, <2>3 DEF Local, IInv, TypeInv, Reading
  <2>5. Shared
    BY <1>1, <2>3 DEF Shared, IInv, TypeInv, lock
  <2>6. Registered' = Registered
    BY <1>1 DEF Registered
  <2>7. Aside(t)' /\ CallKnows(t)' /\ CallHolds(t)'
    BY <1>1, <2>3, <2>4, <2>6
    DEF Aside, CallKnows, CallHolds, Opening, Closing, Writing, Reading, lock
  <2>8. outcome'[t] # "Unavailable"
    BY <2>3 DEF IInv, RuntimesInv, SnapshotsAnswer
  <2>9. RuntimesInv'
    BY <1>1, <2>4, <2>7, <2>8, AsideKeeps
  <2> QED
    BY <1>1, <2>3, <2>4, <2>5, <2>7, <2>9, Kept
<1> QED
  BY <1>3, <1>4

LEMMA ServeLateKeeps ==
  ASSUME IInv, NEW i \in Runtimes, ServeLate(i)
  PROVE  IInv'
<1>1. UNCHANGED <<lock, runtimes, bookOf, users, closing, live, pc, op, book, runtime, todo,
                  outcome, orphans>>
  BY DEF ServeLate, lives
<1>2. TypeInv'
  BY <1>1 DEF IInv, TypeInv, lock
<1>3. CallsInv'
  BY <1>1 DEF IInv, CallsInv, CallKnows
<1>4. Registered' = Registered /\ Constructed' = Constructed
  BY <1>1 DEF Registered, Constructed
<1>5. LockInv'
  BY <1>1, <1>4 DEF IInv, LockInv, CallHolds, lock
<1>6. FreshInv' /\ HandsInv' /\ UnusedInv'
  BY <1>1, <1>4 DEF IInv, RuntimesInv, FreshInv, HandsInv, UnusedInv
<1>7. RegisteredRuns' /\ SnapshotsAnswer'
  BY <1>1 DEF IInv, RuntimesInv, RegisteredRuns, SnapshotsAnswer
<1>8. NoneForgotten'
  BY <1>1, <1>4 DEF IInv, RuntimesInv, NoneForgotten, InHand
<1> QED
  BY <1>2, <1>3, <1>5, <1>6, <1>7, <1>8 DEF IInv, RuntimesInv

-----------------------------------------------------------------------------
(* Construct.                                                              *)

LEMMA NextRuntimeIsFresh ==
  ASSUME Runtimes \ Constructed # {}
  PROVE  NextRuntime \in Runtimes /\ bookOf[NextRuntime] = None
<1>1. \E i \in Runtimes : i \notin Constructed
  OBVIOUS
<1>2. NextRuntime \in Runtimes /\ NextRuntime \notin Constructed
  BY <1>1 DEF NextRuntime
<1> QED
  BY <1>2 DEF Constructed

LEMMA ConstructEffect ==
  ASSUME TypeInv, NEW t \in Threads, NEW step \in Opening, Construct(t, step), book[t] \in Books
  PROVE  /\ Local(t) /\ Shared
         /\ UNCHANGED <<lock, runtimes, users, closing, live, orphans, book[t], todo[t], outcome>>
         /\ pc'[t] = step
         /\ runtime'[t] \in Runtimes
         /\ bookOf[runtime'[t]] = None
         /\ bookOf' = [bookOf EXCEPT ![runtime'[t]] = book[t]]
<1>1. NextRuntime \in Runtimes /\ bookOf[NextRuntime] = None
  BY NextRuntimeIsFresh DEF Construct
<1>2. runtime'[t] = NextRuntime
  BY DEF Construct, TypeInv
<1> QED
  BY <1>1, <1>2 DEF Construct, Goto, Local, Shared, TypeInv, Writing, lives, lock

\* Calls that open a book are alone in it, and so are those that take one out.
LEMMA OnlyWriter ==
  ASSUME IInv, NEW t \in Threads, pc[t] \in Writing, NEW u \in Threads, pc[u] \in Opening
  PROVE  u = t
  BY DEF IInv, LockInv, CallHolds, Writing

LEMMA ConstructKeeps ==
  ASSUME IInv, NEW t \in Threads, NEW step \in Opening, Construct(t, step),
         pc[t] \in {"create", "open"}, runtimes[book[t]] = None
  PROVE  IInv'
<1>1. book[t] \in Books /\ writer = t
  BY DEF IInv, CallsInv, CallKnows, LockInv, CallHolds, Writing
<1> DEFINE j == runtime'[t]
<1>2. /\ Local(t) /\ Shared
      /\ UNCHANGED <<lock, runtimes, users, closing, live, orphans, book[t], todo[t], outcome>>
      /\ pc'[t] = step
      /\ j \in Runtimes /\ bookOf[j] = None
      /\ bookOf' = [bookOf EXCEPT ![j] = book[t]]
  BY <1>1, ConstructEffect DEF IInv
<1> HIDE DEF j
<1>3. /\ bookOf'[j] = book[t] /\ book[t] # None
      /\ \A i \in Runtimes : i # j => bookOf'[i] = bookOf[i]
  BY <1>1, <1>2, MultiBookAssumption DEF IInv, TypeInv
<1>4. \A u \in Threads \ {t} : UNCHANGED <<pc[u], book[u], runtime[u], todo[u], outcome[u]>>
  BY <1>2 DEF Local
<1>5. \A u \in Threads \ {t} : pc[u] \notin Opening
  BY OnlyWriter DEF Writing
<1>6. /\ \A b \in Books : runtimes[b] # None => runtimes[b] # j /\ runtimes[b] \in Runtimes
      /\ \A u \in Threads : pc[u] \in Closing =>
            j \notin todo[u] /\ (pc[u] # "next" => runtime[u] # j)
  <2>1. ASSUME NEW b \in Books, runtimes[b] # None
        PROVE  runtimes[b] # j /\ runtimes[b] \in Runtimes
    <3>1. bookOf[runtimes[b]] = b /\ b # None
      BY <2>1, MultiBookAssumption DEF IInv, RuntimesInv, RegisteredRuns
    <3> QED
      BY <1>2, <2>1, <3>1 DEF IInv, TypeInv
  <2>2. ASSUME NEW u \in Threads, pc[u] \in Closing
        PROVE  j \notin todo[u] /\ (pc[u] # "next" => runtime[u] # j)
    BY <1>2, <2>2 DEF IInv, RuntimesInv, HandsInv
  <2> QED
    BY <2>1, <2>2
<1>7. Registered' = Registered /\ j \notin Registered
  BY <1>2, <1>6 DEF Registered
<1>8. live[j] /\ ~closing[j]
  BY <1>2 DEF IInv, RuntimesInv, UnusedInv
<1>9. FreshInv'
  <2> SUFFICES ASSUME NEW u \in Threads, pc'[u] \in Opening
               PROVE  /\ bookOf'[runtime'[u]] = book'[u]
                      /\ live'[runtime'[u]] /\ ~closing'[runtime'[u]]
                      /\ runtime'[u] \notin Registered'
                      /\ runtimes'[book'[u]] = None
                      /\ \A w \in Threads :
                            /\ w # u /\ pc'[w] \in Opening => runtime'[w] # runtime'[u]
                            /\ pc'[w] \in Closing =>
                                 /\ runtime'[u] \notin todo'[w]
                                 /\ pc'[w] # "next" => runtime'[w] # runtime'[u]
    BY DEF FreshInv
  <2>1. u = t /\ runtime'[u] = j
    BY <1>4, <1>5 DEF j
  <2>2. \A w \in Threads : w # u => pc'[w] \notin Opening
    BY <2>1, <1>4, <1>5
  <2>3. \A w \in Threads : pc'[w] \in Closing => w # t
    BY <1>2 DEF Opening, Closing
  <2> QED
    BY <1>2, <1>3, <1>4, <1>6, <1>7, <1>8, <2>1, <2>2, <2>3
<1>10. \A u \in Threads : pc'[u] \in Closing => u # t
  BY <1>2 DEF Opening, Closing
<1>11. HandsInv'
  <2> SUFFICES ASSUME NEW u \in Threads \ {t}, pc[u] \in Closing
               PROVE  /\ \A i \in todo[u] : bookOf'[i] # None
                      /\ pc[u] # "next" => bookOf'[runtime[u]] # None
    BY <1>4, <1>10 DEF HandsInv
  <2>1. todo[u] \subseteq Runtimes /\ (pc[u] # "next" => runtime[u] \in Runtimes)
    BY DEF IInv, TypeInv, CallsInv, CallKnows, Closing
  <2>2. /\ \A i \in todo[u] : bookOf[i] # None
        /\ pc[u] # "next" => bookOf[runtime[u]] # None
    BY DEF IInv, RuntimesInv, HandsInv
  <2> QED
    BY <1>3, <1>6, <2>1, <2>2
<1>12. UnusedInv'
  BY <1>2, <1>3 DEF IInv, RuntimesInv, UnusedInv
<1>13. RegisteredRuns'
  <2> SUFFICES ASSUME NEW b \in Books, runtimes[b] # None
               PROVE  /\ bookOf'[runtimes[b]] = b /\ live[runtimes[b]] /\ ~closing[runtimes[b]]
                      /\ \A u \in Threads : pc'[u] \in Closing =>
                           runtimes[b] \notin todo'[u] /\ (pc'[u] # "next" => runtimes[b] # runtime'[u])
    BY <1>2 DEF RegisteredRuns, Closing
  <2>1. /\ bookOf[runtimes[b]] = b /\ live[runtimes[b]] /\ ~closing[runtimes[b]]
        /\ \A u \in Threads : pc[u] \in Closing =>
             runtimes[b] \notin todo[u] /\ (pc[u] # "next" => runtimes[b] # runtime[u])
    BY DEF IInv, RuntimesInv, RegisteredRuns, Closing
  <2> QED
    BY <1>3, <1>4, <1>6, <1>10, <2>1
<1>14. NoneForgotten'
  <2> SUFFICES ASSUME NEW i \in Constructed', live'[i]
               PROVE  i \in Registered' \/ InHand(i)' \/ i \in orphans'
    BY DEF NoneForgotten
  <2>1. CASE i = j
    BY <1>2, <2>1 DEF InHand, j, Opening
  <2>2. CASE i # j
    <3>1. i \in Constructed /\ live[i]
      BY <1>2, <1>3, <2>2 DEF Constructed
    <3>2. InHand(i) => InHand(i)'
      BY <1>4 DEF InHand
    <3> QED
      BY <1>2, <1>7, <3>1, <3>2 DEF IInv, RuntimesInv, NoneForgotten
  <2> QED
    BY <2>1, <2>2
<1>15. SnapshotsAnswer'
  BY <1>2 DEF IInv, RuntimesInv, SnapshotsAnswer
<1>16. CallKnows(t)' /\ CallHolds(t)'
  BY <1>1, <1>2 DEF CallKnows, CallHolds, Opening, Writing, Reading, lock, j
<1>17. RuntimesInv'
  BY <1>9, <1>11, <1>12, <1>13, <1>14, <1>15 DEF RuntimesInv
<1> QED
  BY <1>2, <1>16, <1>17, Kept

-----------------------------------------------------------------------------
(* The other steps of create_book and open_book.                           *)

\* RegisteredRuns, for one book.
LEMMA Found ==
  ASSUME IInv, NEW b \in Books, runtimes[b] # None
  PROVE  /\ runtimes[b] \in Runtimes
         /\ bookOf[runtimes[b]] = b /\ live[runtimes[b]] /\ ~closing[runtimes[b]]
         /\ \A u \in Threads : pc[u] \in Closing =>
              runtimes[b] \notin todo[u] /\ (pc[u] # "next" => runtimes[b] # runtime[u])
<1>1. runtimes[b] \in Runtimes
  BY DEF IInv, TypeInv
<1> QED
  BY <1>1 DEF IInv, RuntimesInv, RegisteredRuns, Closing

\* The converse, with primes: what a step has to show of RegisteredRuns.
LEMMA FoundAfter ==
  ASSUME \A b \in Books : runtimes'[b] # None =>
           /\ bookOf'[runtimes'[b]] = b /\ live'[runtimes'[b]] /\ ~closing'[runtimes'[b]]
           /\ \A u \in Threads : pc'[u] \in Closing =>
                runtimes'[b] \notin todo'[u] /\ (pc'[u] # "next" => runtimes'[b] # runtime'[u])
  PROVE  RegisteredRuns'
  BY DEF RegisteredRuns, Closing

LEMMA OpeningKeeps ==
  ASSUME IInv, NEW t \in Threads, Persist(t) \/ Persisted(t)
  PROVE  IInv'
<1>1. /\ pc[t] \in Opening /\ runtime[t] \in Runtimes /\ book[t] \in Books
      /\ UNCHANGED <<lock, runtimes, bookOf, closing, live, orphans, op, book, runtime, todo, outcome>>
  BY DEF Persist, Persisted, Opening, IInv, CallsInv, CallKnows
<1>2. Local(t) /\ pc'[t] \in Opening
  <2>1. PICK step \in {"wait", "register"} : pc' = [pc EXCEPT ![t] = step]
    BY DEF Persist, Persisted, Goto
  <2> QED
    BY <1>1, <2>1 DEF Local, IInv, TypeInv, Opening, Writing
<1>3. Shared
  <2>1. \/ users' = [users EXCEPT ![runtime[t]] = @ \cup {t}]
        \/ users' = [users EXCEPT ![runtime[t]] = @ \ {t}]
    BY DEF Persist, Persisted, Enter, Leave
  <2>2. users[runtime[t]] \in SUBSET Threads
    BY <1>1 DEF IInv, TypeInv
  <2>3. PICK inside \in SUBSET Threads : users' = [users EXCEPT ![runtime[t]] = inside]
    BY <2>1, <2>2
  <2>4. users' \in [Runtimes -> SUBSET Threads]
    BY <1>1, <2>3 DEF IInv, TypeInv
  <2> QED
    BY <1>1, <2>4 DEF Shared, IInv, TypeInv, lock
<1>4. CallHolds(t)' /\ CallKnows(t)'
  BY <1>1, <1>2
  DEF CallHolds, CallKnows, Opening, Writing, Reading, IInv, LockInv, lock
<1>5. /\ \A u \in Threads : (pc[u] \in Opening <=> pc'[u] \in Opening)
      /\ \A u \in Threads : pc'[u] \in Closing => pc[u] = pc'[u]
  BY <1>1, <1>2 DEF Local, Opening, Closing
<1>6. Registered' = Registered /\ Constructed' = Constructed
  BY <1>1 DEF Registered, Constructed
<1>7. FreshInv'
  BY <1>1, <1>5, <1>6 DEF IInv, RuntimesInv, FreshInv
<1>8. HandsInv' /\ UnusedInv' /\ SnapshotsAnswer'
  BY <1>1, <1>5 DEF IInv, RuntimesInv, HandsInv, UnusedInv, SnapshotsAnswer
<1>9. RegisteredRuns'
  BY <1>1, <1>5, Found, FoundAfter
<1>10. NoneForgotten'
  <2>1. \A i : InHand(i) => InHand(i)'
    BY <1>1, <1>2 DEF InHand, Local, Opening, Closing
  <2> QED
    BY <1>1, <1>6, <2>1 DEF IInv, RuntimesInv, NoneForgotten
<1> QED
  BY <1>1, <1>2, <1>3, <1>4, <1>7, <1>8, <1>9, <1>10, Kept DEF RuntimesInv

\* The runtime whose book was not stored goes to the orphans.
LEMMA NotPersistedKeeps ==
  ASSUME IInv, NEW t \in Threads, NotPersisted(t)
  PROVE  IInv'
<1>1. PICK result \in {"Error", "Timeout"} : End(t, result)
  BY DEF NotPersisted
<1>2. /\ pc[t] = "wait" /\ runtime[t] \in Runtimes /\ writer = t
      /\ orphans' = orphans \cup {runtime[t]}
      /\ UNCHANGED <<runtimes, bookOf, closing, live>>
  BY DEF NotPersisted, Opening, Writing, IInv, CallsInv, CallKnows, LockInv, CallHolds
<1>3. /\ Local(t) /\ Release(t) /\ pc'[t] = "idle" /\ outcome'[t] = result
      /\ CallKnows(t)' /\ CallHolds(t)'
  BY <1>1, EndEffect DEF IInv
<1>4. Shared
  BY <1>2, <1>3 DEF Shared, Release, NotPersisted, Leave, IInv, TypeInv
<1>5. \A u \in Threads \ {t} : UNCHANGED <<pc[u], book[u], runtime[u], todo[u], outcome[u]>>
  BY <1>3 DEF Local
<1>6. \A u \in Threads : pc'[u] \notin Opening
  BY <1>2, <1>3, <1>5, OnlyWriter DEF Opening, Writing
<1>7. FreshInv'
  BY <1>6 DEF FreshInv
<1>8. \A u \in Threads : pc'[u] \in Closing => u # t
  BY <1>3 DEF Closing
<1>9. HandsInv' /\ UnusedInv' /\ SnapshotsAnswer'
  BY <1>2, <1>3, <1>5, <1>8 DEF IInv, RuntimesInv, HandsInv, UnusedInv, SnapshotsAnswer
<1>10. RegisteredRuns'
  BY <1>2, <1>5, <1>8, Found, FoundAfter
<1>11. NoneForgotten'
  <2>1. Registered' = Registered /\ Constructed' = Constructed
    BY <1>2 DEF Registered, Constructed
  <2>2. \A i : InHand(i) => InHand(i)' \/ i = runtime[t]
    BY <1>2, <1>5 DEF InHand
  <2> QED
    BY <1>2, <2>1, <2>2 DEF IInv, RuntimesInv, NoneForgotten
<1>12. RuntimesInv'
  BY <1>7, <1>9, <1>10, <1>11 DEF RuntimesInv
<1> QED
  BY <1>2, <1>3, <1>4, <1>12, Kept

\* The book joins the dictionary with a runtime that was nobody else's.
LEMMA RegisterKeeps ==
  ASSUME IInv, NEW t \in Threads, Register(t)
  PROVE  IInv'
<1>1. /\ pc[t] = "register" /\ runtime[t] \in Runtimes /\ book[t] \in Books /\ writer = t
      /\ runtimes' = [runtimes EXCEPT ![book[t]] = runtime[t]]
      /\ End(t, "ok")
      /\ UNCHANGED <<bookOf, users, closing, live, orphans>>
  BY DEF Register, Opening, Writing, IInv, CallsInv, CallKnows, LockInv, CallHolds, lives
<1>2. /\ Local(t) /\ Release(t) /\ pc'[t] = "idle" /\ outcome'[t] = "ok"
      /\ CallKnows(t)' /\ CallHolds(t)'
  BY <1>1, EndEffect DEF IInv
<1>3. Shared
  BY <1>1, <1>2 DEF Shared, Release, IInv, TypeInv
<1>4. \A u \in Threads \ {t} : UNCHANGED <<pc[u], book[u], runtime[u], todo[u], outcome[u]>>
  BY <1>2 DEF Local
<1>5. \A u \in Threads : pc'[u] \notin Opening
  BY <1>1, <1>2, <1>4, OnlyWriter DEF Opening, Writing
<1>6. FreshInv'
  BY <1>5 DEF FreshInv
<1>7. \A u \in Threads : pc'[u] \in Closing => u # t
  BY <1>2 DEF Closing
<1>8. HandsInv' /\ UnusedInv' /\ SnapshotsAnswer'
  BY <1>1, <1>2, <1>4, <1>7 DEF IInv, RuntimesInv, HandsInv, UnusedInv, SnapshotsAnswer
<1>9. /\ runtimes'[book[t]] = runtime[t]
      /\ \A b \in Books : b # book[t] => runtimes'[b] = runtimes[b]
  BY <1>1 DEF IInv, TypeInv
<1>10. /\ bookOf[runtime[t]] = book[t] /\ live[runtime[t]] /\ ~closing[runtime[t]]
       /\ runtimes[book[t]] = None
       /\ \A u \in Threads : pc[u] \in Closing =>
            runtime[t] \notin todo[u] /\ (pc[u] # "next" => runtime[u] # runtime[t])
  BY <1>1 DEF IInv, RuntimesInv, FreshInv, Opening
<1>11. RegisteredRuns'
  <2> SUFFICES ASSUME NEW b \in Books, runtimes'[b] # None
               PROVE  /\ bookOf'[runtimes'[b]] = b /\ live'[runtimes'[b]] /\ ~closing'[runtimes'[b]]
                      /\ \A u \in Threads : pc'[u] \in Closing =>
                           /\ runtimes'[b] \notin todo'[u]
                           /\ pc'[u] # "next" => runtimes'[b] # runtime'[u]
    BY FoundAfter
  <2>1. CASE b = book[t]
    BY <1>1, <1>4, <1>7, <1>9, <1>10, <2>1
  <2>2. CASE b # book[t]
    BY <1>1, <1>4, <1>7, <1>9, <2>2, Found
  <2> QED
    BY <2>1, <2>2
<1>12. NoneForgotten'
  <2>1. Constructed' = Constructed
    BY <1>1 DEF Constructed
  <2>2. \A i : InHand(i) => InHand(i)' \/ i = runtime[t]
    BY <1>1, <1>4 DEF InHand
  <2>3. runtime[t] \in Registered'
    BY <1>1, <1>9, MultiBookAssumption DEF Registered
  <2>4. Registered \subseteq Registered'
    <3> SUFFICES ASSUME NEW b \in Books, runtimes[b] # None PROVE runtimes[b] \in Registered'
      BY DEF Registered
    <3>1. runtimes'[b] = runtimes[b]
      BY <1>9, <1>10
    <3> QED
      BY <3>1 DEF Registered
  <2> QED
    BY <1>1, <2>1, <2>2, <2>3, <2>4 DEF IInv, RuntimesInv, NoneForgotten
<1>13. RuntimesInv'
  BY <1>6, <1>8, <1>11, <1>12 DEF RuntimesInv
<1> QED
  BY <1>1, <1>2, <1>3, <1>13, Kept

-----------------------------------------------------------------------------
(* close_book and close.                                                   *)

\* What both do under the lock: take runtimes out of the dictionary to close them.
LEMMA TakenKeeps ==
  ASSUME IInv, NEW t \in Threads, pc[t] \in {"pop", "drain"}, NEW taken \in SUBSET Books,
         runtimes' = [b \in Books |-> IF b \in taken THEN None ELSE runtimes[b]],
         todo' = [todo EXCEPT ![t] = {runtimes[b] : b \in taken} \ {None}],
         Release(t), Goto(t, "next"),
         UNCHANGED <<bookOf, users, closing, live, orphans, op, book, runtime, outcome>>
  PROVE  IInv'
<1>1. writer = t /\ pc[t] \notin Opening \cup Closing
  BY DEF Opening, Closing, Writing, IInv, LockInv, CallHolds
<1>2. {runtimes[b] : b \in taken} \ {None} \subseteq Runtimes
  <2> SUFFICES ASSUME NEW b \in taken, runtimes[b] # None PROVE runtimes[b] \in Runtimes
    OBVIOUS
  <2> QED
    BY DEF IInv, TypeInv
<1>3. /\ Local(t) /\ pc'[t] = "next"
      /\ todo'[t] = {runtimes[b] : b \in taken} \ {None}
  BY <1>2 DEF Local, Goto, IInv, TypeInv, Closing
<1>4. Shared
  BY DEF Shared, Release, IInv, TypeInv
<1>5. CallKnows(t)' /\ CallHolds(t)'
  BY <1>3 DEF CallKnows, CallHolds, Opening, Writing, Reading
<1>6. \A u \in Threads \ {t} : UNCHANGED <<pc[u], book[u], runtime[u], todo[u], outcome[u]>>
  BY <1>3 DEF Local
<1>7. FreshInv'
  <2>1. \A u \in Threads : pc'[u] \notin Opening
    BY <1>3, <1>6, OnlyWriter DEF Opening, Writing
  <2> QED
    BY <2>1 DEF FreshInv
<1>8. HandsInv'
  <2>1. \A b \in taken : runtimes[b] # None => bookOf[runtimes[b]] # None
    BY Found, MultiBookAssumption
  <2> QED
    BY <1>3, <1>6, <2>1 DEF IInv, RuntimesInv, HandsInv
<1>9. UnusedInv' /\ SnapshotsAnswer'
  BY DEF IInv, RuntimesInv, UnusedInv, SnapshotsAnswer
<1>10. RegisteredRuns'
  <2> SUFFICES ASSUME NEW b \in Books, runtimes'[b] # None, NEW u \in Threads
               PROVE  /\ bookOf[runtimes'[b]] = b /\ live[runtimes'[b]] /\ ~closing[runtimes'[b]]
                      /\ pc'[u] \in Closing =>
                           /\ runtimes'[b] \notin todo'[u]
                           /\ pc'[u] # "next" => runtimes'[b] # runtime'[u]
    BY FoundAfter
  <2>1. b \notin taken /\ runtimes'[b] = runtimes[b]
    OBVIOUS
  <2>2. \A c \in taken : runtimes[c] # runtimes[b]
    BY <2>1, OneBookEach DEF IInv, RuntimesInv
  <2>3. CASE u = t
    BY <1>3, <2>1, <2>2, <2>3, Found
  <2>4. CASE u # t
    BY <1>6, <2>1, <2>4, Found
  <2> QED
    BY <2>3, <2>4
<1>11. NoneForgotten'
  <2> SUFFICES ASSUME NEW i \in Constructed, live[i]
               PROVE  i \in Registered' \/ InHand(i)' \/ i \in orphans
    BY DEF NoneForgotten, Constructed
  <2>1. CASE InHand(i)
    BY <1>1, <1>6, <2>1 DEF InHand, Opening, Closing
  <2>2. CASE i \in Registered
    <3>1. PICK b \in Books : runtimes[b] = i /\ i # None
      BY <2>2 DEF Registered
    <3>2. CASE b \in taken
      BY <1>3, <3>1, <3>2 DEF InHand
    <3>3. CASE b \notin taken
      BY <3>1, <3>3 DEF Registered
    <3> QED
      BY <3>2, <3>3
  <2> QED
    BY <2>1, <2>2 DEF IInv, RuntimesInv, NoneForgotten
<1>12. RuntimesInv'
  BY <1>7, <1>8, <1>9, <1>10, <1>11 DEF RuntimesInv
<1> QED
  BY <1>1, <1>3, <1>4, <1>5, <1>12, Kept

LEMMA PopKeeps ==
  ASSUME IInv, NEW t \in Threads, Pop(t)
  PROVE  IInv'
<1>1. book[t] \in Books /\ pc[t] = "pop"
  BY DEF Pop, IInv, CallsInv, CallKnows
<1>2. runtimes' = [b \in Books |-> IF b \in {book[t]} THEN None ELSE runtimes[b]]
  BY <1>1 DEF Pop, IInv, TypeInv
<1>3. /\ todo' = [todo EXCEPT ![t] = {runtimes[b] : b \in {book[t]}} \ {None}]
      /\ Release(t) /\ Goto(t, "next")
      /\ UNCHANGED <<bookOf, users, closing, live, orphans, op, book, runtime, outcome>>
  BY DEF Pop, lives
<1> QED
  BY <1>1, <1>2, <1>3, TakenKeeps

LEMMA DrainKeeps ==
  ASSUME IInv, NEW t \in Threads, Drain(t)
  PROVE  IInv'
<1>1. /\ pc[t] = "drain"
      /\ runtimes' = [b \in Books |-> IF b \in Books THEN None ELSE runtimes[b]]
      /\ todo' = [todo EXCEPT ![t] = {runtimes[b] : b \in Books} \ {None}]
      /\ Release(t) /\ Goto(t, "next")
      /\ UNCHANGED <<bookOf, users, closing, live, orphans, op, book, runtime, outcome>>
  BY DEF Drain, Registered, lives
<1> QED
  BY <1>1, TakenKeeps

\* The runtime to close next, if any.
LEMMA CloseNextKeeps ==
  ASSUME IInv, NEW t \in Threads, CloseNext(t)
  PROVE  IInv'
<1>1. /\ pc[t] = "next" /\ todo[t] \subseteq Runtimes
      /\ UNCHANGED <<runtimes, bookOf, users, closing, live, orphans>>
  BY DEF CloseNext, lives, IInv, TypeInv
<1>2. /\ Local(t) /\ (Release(t) \/ UNCHANGED lock) /\ CallKnows(t)' /\ CallHolds(t)'
      /\ outcome'[t] # "Unavailable" /\ pc'[t] \in {"idle", "runtime gate"}
      /\ pc'[t] = "idle" => todo[t] = {}
      /\ pc'[t] = "runtime gate" =>
           runtime'[t] \in todo[t] /\ todo'[t] = todo[t] \ {runtime'[t]}
  <2>1. CASE todo[t] = {}
    <3>1. End(t, "ok")
      BY <2>1 DEF CloseNext
    <3>2. Local(t) /\ Release(t) /\ pc'[t] = "idle" /\ outcome'[t] = "ok"
      BY <3>1, EndEffect DEF IInv
    <3>3. CallKnows(t)' /\ CallHolds(t)'
      BY <3>1, EndEffect DEF IInv
    <3> QED
      BY <2>1, <3>2, <3>3
  <2>2. CASE todo[t] # {}
    <3>1. PICK i \in todo[t] :
            /\ runtime' = [runtime EXCEPT ![t] = i]
            /\ todo' = [todo EXCEPT ![t] = @ \ {i}]
            /\ Goto(t, "runtime gate")
            /\ UNCHANGED <<lock, op, book, outcome>>
      BY <2>2 DEF CloseNext
    <3>2. Local(t) /\ pc'[t] = "runtime gate" /\ runtime'[t] = i /\ todo'[t] = todo[t] \ {i}
      BY <1>1, <3>1 DEF Goto, Local, IInv, TypeInv, Closing
    <3>3. outcome'[t] # "Unavailable"
      BY <3>1 DEF IInv, RuntimesInv, SnapshotsAnswer
    <3>4. CallKnows(t)' /\ CallHolds(t)'
      BY <1>1, <3>2 DEF CallKnows, CallHolds, Opening, Writing, Reading
    <3> QED
      BY <3>1, <3>2, <3>3, <3>4
  <2> QED
    BY <2>1, <2>2
<1>3. Shared
  BY <1>1, <1>2 DEF Shared, Release, IInv, TypeInv, lock
<1>4. \A u \in Threads \ {t} : UNCHANGED <<pc[u], book[u], runtime[u], todo[u], outcome[u]>>
  BY <1>2 DEF Local
<1>5. Registered' = Registered /\ Constructed' = Constructed
  BY <1>1 DEF Registered, Constructed
<1>6. FreshInv'
  <2> SUFFICES ASSUME NEW u \in Threads, pc'[u] \in Opening
               PROVE  /\ bookOf'[runtime'[u]] = book'[u]
                      /\ live'[runtime'[u]] /\ ~closing'[runtime'[u]]
                      /\ runtime'[u] \notin Registered'
                      /\ runtimes'[book'[u]] = None
                      /\ \A w \in Threads :
                            /\ w # u /\ pc'[w] \in Opening => runtime'[w] # runtime'[u]
                            /\ pc'[w] \in Closing =>
                                 /\ runtime'[u] \notin todo'[w]
                                 /\ pc'[w] # "next" => runtime'[w] # runtime'[u]
    BY DEF FreshInv
  <2>0. u # t /\ pc[u] \in Opening /\ UNCHANGED <<pc[u], book[u], runtime[u]>>
    BY <1>2, <1>4 DEF Opening
  <2>1. /\ bookOf[runtime[u]] = book[u]
        /\ live[runtime[u]] /\ ~closing[runtime[u]]
        /\ runtime[u] \notin Registered
        /\ runtimes[book[u]] = None
        /\ runtime[u] \notin todo[t]
        /\ \A w \in Threads :
              /\ w # u /\ pc[w] \in Opening => runtime[w] # runtime[u]
              /\ pc[w] \in Closing =>
                   /\ runtime[u] \notin todo[w]
                   /\ pc[w] # "next" => runtime[w] # runtime[u]
    BY <2>0, <1>1 DEF IInv, RuntimesInv, FreshInv, Closing
  <2>2. ASSUME NEW w \in Threads
        PROVE  /\ w # u /\ pc'[w] \in Opening => runtime'[w] # runtime[u]
               /\ pc'[w] \in Closing =>
                    /\ runtime[u] \notin todo'[w]
                    /\ pc'[w] # "next" => runtime'[w] # runtime[u]
    <3>1. CASE w = t
      BY <1>2, <2>1, <3>1 DEF Opening, Closing
    <3>2. CASE w # t
      BY <1>4, <2>1, <3>2
    <3> QED
      BY <3>1, <3>2
  <2> QED
    BY <2>0, <1>1, <1>5, <2>1, <2>2
<1>7. HandsInv'
  BY <1>1, <1>2, <1>4 DEF IInv, RuntimesInv, HandsInv, Closing
<1>8. UnusedInv' /\ SnapshotsAnswer'
  BY <1>1, <1>2, <1>4 DEF IInv, RuntimesInv, UnusedInv, SnapshotsAnswer
<1>9. RegisteredRuns'
  <2> SUFFICES ASSUME NEW b \in Books, runtimes[b] # None, NEW u \in Threads
               PROVE  /\ bookOf[runtimes[b]] = b /\ live[runtimes[b]] /\ ~closing[runtimes[b]]
                      /\ pc'[u] \in Closing =>
                           runtimes[b] \notin todo'[u] /\ (pc'[u] # "next" => runtimes[b] # runtime'[u])
    BY <1>1, FoundAfter
  <2>1. CASE u = t
    BY <1>1, <1>2, <2>1, Found DEF Closing
  <2>2. CASE u # t
    BY <1>4, <2>2, Found
  <2> QED
    BY <2>1, <2>2
<1>10. NoneForgotten'
  <2>1. \A i : InHand(i) => InHand(i)'
    BY <1>1, <1>2, <1>4 DEF InHand
  <2> QED
    BY <1>1, <1>5, <2>1 DEF IInv, RuntimesInv, NoneForgotten
<1>11. RuntimesInv'
  BY <1>6, <1>7, <1>8, <1>9, <1>10 DEF RuntimesInv
<1> QED
  BY <1>1, <1>2, <1>3, <1>11, Kept

\* A call that has a runtime in hand changes it, or gives up what it has in hand.
LEMMA HandKeeps ==
  ASSUME IInv, NEW t \in Threads, pc[t] \in {"runtime gate", "stop"}, Local(t), Shared,
         Release(t) \/ UNCHANGED lock, CallKnows(t)', CallHolds(t)',
         UNCHANGED <<runtimes, bookOf>>,
         \A i \in Runtimes \ {runtime[t]} : UNCHANGED <<closing[i], live[i]>>,
         outcome'[t] # "Unavailable",
         pc'[t] \in {"idle", "stop", "next"},
         pc'[t] = "stop" => runtime'[t] = runtime[t],
         pc'[t] # "idle" => todo'[t] = todo[t],
         orphans \subseteq orphans',
         pc'[t] = "idle" => todo[t] \cup {runtime[t]} \subseteq orphans',
         pc'[t] = "next" => ~live'[runtime[t]]
  PROVE  IInv'
<1>1. /\ runtime[t] \in Runtimes /\ bookOf[runtime[t]] # None
      /\ \A i \in todo[t] : bookOf[i] # None
  BY DEF IInv, CallsInv, CallKnows, RuntimesInv, HandsInv, Closing
<1>2. \A u \in Threads \ {t} : UNCHANGED <<pc[u], book[u], runtime[u], todo[u], outcome[u]>>
  BY DEF Local
<1>3. Registered' = Registered /\ Constructed' = Constructed
  BY DEF Registered, Constructed
<1>4. FreshInv'
  <2> SUFFICES ASSUME NEW u \in Threads, pc'[u] \in Opening
               PROVE  /\ bookOf'[runtime'[u]] = book'[u]
                      /\ live'[runtime'[u]] /\ ~closing'[runtime'[u]]
                      /\ runtime'[u] \notin Registered'
                      /\ runtimes'[book'[u]] = None
                      /\ \A w \in Threads :
                            /\ w # u /\ pc'[w] \in Opening => runtime'[w] # runtime'[u]
                            /\ pc'[w] \in Closing =>
                                 /\ runtime'[u] \notin todo'[w]
                                 /\ pc'[w] # "next" => runtime'[w] # runtime'[u]
    BY DEF FreshInv
  <2>0. u # t /\ pc[u] \in Opening /\ UNCHANGED <<pc[u], book[u], runtime[u]>>
    BY <1>2 DEF Opening
  <2>1. /\ bookOf[runtime[u]] = book[u]
        /\ live[runtime[u]] /\ ~closing[runtime[u]]
        /\ runtime[u] \notin Registered
        /\ runtimes[book[u]] = None
        /\ runtime[u] \notin todo[t] /\ runtime[u] # runtime[t]
        /\ \A w \in Threads :
              /\ w # u /\ pc[w] \in Opening => runtime[w] # runtime[u]
              /\ pc[w] \in Closing =>
                   /\ runtime[u] \notin todo[w]
                   /\ pc[w] # "next" => runtime[w] # runtime[u]
    BY <2>0 DEF IInv, RuntimesInv, FreshInv, Closing
  <2>2. ASSUME NEW w \in Threads
        PROVE  /\ w # u /\ pc'[w] \in Opening => runtime'[w] # runtime[u]
               /\ pc'[w] \in Closing =>
                    /\ runtime[u] \notin todo'[w]
                    /\ pc'[w] # "next" => runtime'[w] # runtime[u]
    <3>1. CASE w = t
      BY <2>1, <3>1 DEF Opening, Closing
    <3>2. CASE w # t
      BY <1>2, <2>1, <3>2
    <3> QED
      BY <3>1, <3>2
  <2>3. runtime[u] \in Runtimes
    BY <2>0 DEF IInv, CallsInv, CallKnows
  <2> QED
    BY <2>0, <1>3, <2>1, <2>2, <2>3
<1>5. HandsInv'
  BY <1>1, <1>2 DEF IInv, RuntimesInv, HandsInv, Closing
<1>6. UnusedInv' /\ SnapshotsAnswer'
  BY <1>1, <1>2 DEF IInv, RuntimesInv, UnusedInv, SnapshotsAnswer
<1>7. RegisteredRuns'
  <2> SUFFICES ASSUME NEW b \in Books, runtimes[b] # None, NEW u \in Threads
               PROVE  /\ bookOf[runtimes[b]] = b /\ live'[runtimes[b]] /\ ~closing'[runtimes[b]]
                      /\ pc'[u] \in Closing =>
                           runtimes[b] \notin todo'[u] /\ (pc'[u] # "next" => runtimes[b] # runtime'[u])
    BY FoundAfter
  <2>1. runtimes[b] # runtime[t] /\ runtimes[b] \notin todo[t]
    BY Found DEF Closing
  <2>2. bookOf[runtimes[b]] = b /\ live'[runtimes[b]] /\ ~closing'[runtimes[b]]
    BY <2>1, Found
  <2>3. CASE u = t
    BY <2>1, <2>2, <2>3 DEF Closing
  <2>4. CASE u # t
    <3>1. pc[u] \in Closing =>
            runtimes[b] \notin todo[u] /\ (pc[u] # "next" => runtimes[b] # runtime[u])
      BY Found
    <3> QED
      BY <1>2, <2>2, <2>4, <3>1
  <2> QED
    BY <2>3, <2>4
<1>8. NoneForgotten'
  <2> SUFFICES ASSUME NEW i \in Constructed, live'[i]
               PROVE  i \in Registered \/ InHand(i)' \/ i \in orphans'
    BY <1>3 DEF NoneForgotten
  <2>1. i \in Runtimes
    BY DEF Constructed
  <2>2. CASE i = runtime[t]
    BY <2>2 DEF InHand
  <2>3. CASE i # runtime[t]
    <3>1. live[i]
      BY <2>1, <2>3
    <3>2. InHand(i) => InHand(i)' \/ i \in orphans'
      BY <1>2, <2>3 DEF InHand
    <3> QED
      BY <3>1, <3>2 DEF IInv, RuntimesInv, NoneForgotten
  <2> QED
    BY <2>2, <2>3
<1>9. RuntimesInv'
  BY <1>4, <1>5, <1>6, <1>7, <1>8 DEF RuntimesInv
<1> QED
  BY <1>9, Kept

LEMMA RuntimeGateKeeps ==
  ASSUME IInv, NEW t \in Threads, RuntimeGate(t)
  PROVE  IInv'
<1>1. /\ pc[t] = "runtime gate" /\ runtime[t] \in Runtimes
      /\ closing' = [closing EXCEPT ![runtime[t]] = TRUE]
      /\ UNCHANGED <<lock, runtimes, bookOf, users, live, orphans, op, book, runtime, todo, outcome>>
  BY DEF RuntimeGate, IInv, CallsInv, CallKnows
<1>2. Local(t) /\ pc'[t] = "stop"
  BY <1>1 DEF RuntimeGate, Goto, Local, IInv, TypeInv, Closing
<1>3. Shared /\ \A i \in Runtimes \ {runtime[t]} : UNCHANGED <<closing[i], live[i]>>
  BY <1>1 DEF Shared, IInv, TypeInv, lock
<1>4. CallKnows(t)' /\ CallHolds(t)'
  BY <1>1, <1>2 DEF CallKnows, CallHolds, Opening, Writing, Reading
<1>5. outcome'[t] # "Unavailable"
  BY <1>1 DEF IInv, RuntimesInv, SnapshotsAnswer
<1> QED
  BY <1>1, <1>2, <1>3, <1>4, <1>5, HandKeeps

\* The exception leaves the runtimes in hand behind, which are orphans from now on.
LEMMA RuntimeGateTimeoutKeeps ==
  ASSUME IInv, NEW t \in Threads, RuntimeGateTimeout(t)
  PROVE  IInv'
<1>1. /\ pc[t] = "runtime gate" /\ runtime[t] \in Runtimes /\ todo[t] \subseteq Runtimes
      /\ End(t, "Timeout")
      /\ orphans' = orphans \cup todo[t] \cup {runtime[t]}
      /\ UNCHANGED <<runtimes, bookOf, users, closing, live>>
  BY DEF RuntimeGateTimeout, lives, IInv, TypeInv, CallsInv, CallKnows
<1>2. /\ Local(t) /\ Release(t) /\ pc'[t] = "idle" /\ outcome'[t] = "Timeout"
      /\ CallKnows(t)' /\ CallHolds(t)'
  BY <1>1, EndEffect DEF IInv
<1>3. Shared
  BY <1>1, <1>2 DEF Shared, Release, IInv, TypeInv
<1> QED
  BY <1>1, <1>2, <1>3, HandKeeps

LEMMA StopKeeps ==
  ASSUME IInv, NEW t \in Threads, Stop(t)
  PROVE  IInv'
<1>1. /\ pc[t] = "stop" /\ runtime[t] \in Runtimes
      /\ closing' = [closing EXCEPT ![runtime[t]] = FALSE]
      /\ live' = [live EXCEPT ![runtime[t]] = FALSE]
      /\ UNCHANGED <<lock, runtimes, bookOf, users, orphans, op, book, runtime, todo, outcome>>
  BY DEF Stop, IInv, CallsInv, CallKnows
<1>2. Local(t) /\ pc'[t] = "next"
  BY <1>1 DEF Stop, Goto, Local, IInv, TypeInv, Closing
<1>3. Shared
  BY <1>1 DEF Shared, IInv, TypeInv, lock
<1>4. /\ \A i \in Runtimes \ {runtime[t]} : UNCHANGED <<closing[i], live[i]>>
      /\ ~live'[runtime[t]]
  BY <1>1 DEF IInv, TypeInv
<1>5. CallKnows(t)' /\ CallHolds(t)'
  BY <1>1, <1>2 DEF CallKnows, CallHolds, Opening, Writing, Reading
<1>6. outcome'[t] # "Unavailable"
  BY <1>1 DEF IInv, RuntimesInv, SnapshotsAnswer
<1> QED
  BY <1>1, <1>2, <1>3, <1>4, <1>5, <1>6, HandKeeps

\* So does the exception of a store that does not close.
LEMMA StopFailsKeeps ==
  ASSUME IInv, NEW t \in Threads, StopFails(t)
  PROVE  IInv'
<1>1. /\ pc[t] = "stop" /\ runtime[t] \in Runtimes /\ todo[t] \subseteq Runtimes
      /\ closing' = [closing EXCEPT ![runtime[t]] = FALSE]
      /\ End(t, "Error")
      /\ orphans' = orphans \cup todo[t] \cup {runtime[t]}
      /\ UNCHANGED <<runtimes, bookOf, users, live>>
  BY DEF StopFails, IInv, TypeInv, CallsInv, CallKnows
<1>2. /\ Local(t) /\ Release(t) /\ pc'[t] = "idle" /\ outcome'[t] = "Error"
      /\ CallKnows(t)' /\ CallHolds(t)'
  BY <1>1, EndEffect DEF IInv
<1>3. Shared
  BY <1>1, <1>2 DEF Shared, Release, IInv, TypeInv
<1>4. \A i \in Runtimes \ {runtime[t]} : UNCHANGED <<closing[i], live[i]>>
  BY <1>1 DEF IInv, TypeInv
<1> QED
  BY <1>1, <1>2, <1>3, <1>4, HandKeeps

-----------------------------------------------------------------------------
(* Every step.                                                             *)

LEMMA CreateKeeps ==
  ASSUME IInv, NEW t \in Threads, Create(t) \/ Open(t)
  PROVE  IInv'
<1>1. pc[t] \in {"create", "open"} /\ Aside(t)
  BY DEF Create, Open, Aside, Opening, Closing
<1>2. \/ \E result \in {"ValueError", "KeyError", "ok", "Error"} :
           End(t, result) /\ UNCHANGED <<runtimes, bookOf, lives, orphans>>
      \/ ~AlreadyOpen(book[t]) /\ \E step \in {"persist", "register"} : Construct(t, step)
  BY DEF Create, Open, ConstructFails
<1>3. ASSUME NEW result \in {"ValueError", "KeyError", "ok", "Error"}, End(t, result),
             UNCHANGED <<runtimes, bookOf, lives, orphans>>
      PROVE  IInv'
  <2>1. UNCHANGED <<users, closing, live>>
    BY <1>3 DEF lives
  <2>2. users' \in [Runtimes -> SUBSET Threads]
    BY <2>1 DEF IInv, TypeInv
  <2> QED
    BY <1>1, <1>3, <2>1, <2>2, EndKeeps
<1>4. ASSUME ~AlreadyOpen(book[t]), NEW step \in {"persist", "register"}, Construct(t, step)
      PROVE  IInv'
  BY <1>1, <1>4, ConstructKeeps DEF AlreadyOpen, Opening
<1> QED
  BY <1>2, <1>3, <1>4

\* A call that only ends, and takes nothing with it.
LEMMA EndingKeeps ==
  ASSUME IInv, NEW t \in Threads, GateTimeout(t) \/ CallGateTimeout(t) \/ List(t) \/ LookFails(t)
  PROVE  IInv'
<1>1. Aside(t) /\ UNCHANGED <<runtimes, bookOf, users, closing, live, orphans>>
  BY DEF GateTimeout, CallGateTimeout, List, LookFails, Aside, Opening, Closing, lives
<1>2. PICK result \in {"Timeout", "ok", "Error"} : End(t, result)
  BY DEF GateTimeout, CallGateTimeout, List, LookFails
<1>3. users' \in [Runtimes -> SUBSET Threads]
  BY <1>1 DEF IInv, TypeInv
<1> QED
  BY <1>1, <1>2, <1>3, EndKeeps

LEMMA StutterKeeps ==
  ASSUME IInv, UNCHANGED vars
  PROVE  IInv'
<1>1. UNCHANGED <<lock, runtimes, bookOf, lives, pc, op, book, runtime, todo, outcome, orphans>>
  BY DEF vars
<1>2. Registered' = Registered /\ Constructed' = Constructed
  BY <1>1 DEF Registered, Constructed
<1>3. TypeInv'
  BY <1>1 DEF IInv, TypeInv, lock, lives
<1>4. CallsInv' /\ LockInv'
  BY <1>1, <1>2 DEF IInv, CallsInv, CallKnows, LockInv, CallHolds, lock
<1>5. FreshInv' /\ HandsInv' /\ UnusedInv'
  BY <1>1, <1>2 DEF IInv, RuntimesInv, FreshInv, HandsInv, UnusedInv, lives
<1>6. RegisteredRuns' /\ NoneForgotten' /\ SnapshotsAnswer'
  BY <1>1, <1>2 DEF IInv, RuntimesInv, RegisteredRuns, NoneForgotten, InHand, SnapshotsAnswer, lives
<1> QED
  BY <1>3, <1>4, <1>5, <1>6 DEF IInv, RuntimesInv

LEMMA NextKeeps ==
  ASSUME IInv, [Next]_vars
  PROVE  IInv'
<1>1. ASSUME NEW t \in Threads, Continue(t) PROVE IInv'
  BY <1>1, GateKeeps, EndingKeeps, CreateKeeps, OpeningKeeps, NotPersistedKeeps, RegisterKeeps,
     PopKeeps, DrainKeeps, CloseNextKeeps, RuntimeGateKeeps, RuntimeGateTimeoutKeeps, StopKeeps,
     StopFailsKeeps, LookupKeeps, CallGateKeeps, ServedKeeps, DebugKeeps, LookKeeps
  DEF Continue
<1> QED
  BY <1>1, InvokeKeeps, ServeLateKeeps, StutterKeeps DEF Next

THEOREM InvariantHolds == Spec => []IInv
  BY IInvInit, NextKeeps, PTL DEF Spec

\* RegisteredRuns: whoever looks a book up finds a runtime that is open, on the
\* file of that book, and that no call is about to close.
THEOREM RegisteredRunsHolds == Spec => []RegisteredRuns
<1>1. IInv => RegisteredRuns
  BY DEF IInv, RuntimesInv
<1> QED
  BY <1>1, InvariantHolds, PTL

\* NoneForgotten: a runtime that runs is in the dictionary, in the hands of a
\* call, or was left behind by a call that raised.
THEOREM NoneForgottenHolds == Spec => []NoneForgotten
<1>1. IInv => NoneForgotten
  BY DEF IInv, RuntimesInv
<1> QED
  BY <1>1, InvariantHolds, PTL

\* SnapshotsAnswer: debug_snapshot, under the dictionary's lock, never meets a
\* runtime that is closed or being closed, or whose lock a closer waits for.
THEOREM SnapshotsAnswerHolds == Spec => []SnapshotsAnswer
<1>1. IInv => SnapshotsAnswer
  BY DEF IInv, RuntimesInv
<1> QED
  BY <1>1, InvariantHolds, PTL

-----------------------------------------------------------------------------
(* Each runtime is used as its lifecycle allows.                           *)

\* Whoever closes a runtime is alone in it.
StopInv ==
  \A t \in Threads : pc[t] = "stop" =>
    /\ closing[runtime[t]]
    /\ \A u \in Threads : u # t /\ pc[u] = "stop" => runtime[u] # runtime[t]

Use(i) == L(i)!Next \/ UNCHANGED <<users[i], closing[i], live[i]>>

LEMMA EnterUses ==
  ASSUME IInv, NEW t \in Threads, NEW i \in Runtimes,
         runtime[t] \in Runtimes, ~closing[runtime[t]],
         Enter(t, runtime[t]), UNCHANGED <<closing, live>>
  PROVE  Use(i)
<1>1. users'[i] = IF i = runtime[t] THEN users[i] \cup {t} ELSE users[i]
  BY DEF Enter, IInv, TypeInv
<1>2. UNCHANGED <<closing[i], live[i]>>
  OBVIOUS
<1>3. CASE i = runtime[t]
  BY <1>1, <1>2, <1>3 DEF Use, L!Next, L!Enter
<1>4. CASE i # runtime[t]
  BY <1>1, <1>2, <1>4 DEF Use
<1> QED
  BY <1>3, <1>4

LEMMA LeaveUses ==
  ASSUME IInv, NEW t \in Threads, NEW i \in Runtimes,
         Leave(t, runtime[t]), UNCHANGED <<closing, live>>
  PROVE  Use(i)
<1>1. users'[i] = IF i = runtime[t] THEN users[i] \ {t} ELSE users[i]
  BY DEF Leave, IInv, TypeInv
<1>2. UNCHANGED <<closing[i], live[i]>>
  OBVIOUS
<1>3. CASE i = runtime[t]
  BY <1>1, <1>2, <1>3 DEF Use, L!Next, L!Leave
<1>4. CASE i # runtime[t]
  BY <1>1, <1>2, <1>4 DEF Use
<1> QED
  BY <1>3, <1>4

LEMMA GateUses ==
  ASSUME IInv, NEW t \in Threads, NEW i \in Runtimes, RuntimeGate(t)
  PROVE  Use(i)
<1>1. /\ ~closing[runtime[t]] /\ users[runtime[t]] = {}
      /\ UNCHANGED <<users[i], live[i]>>
      /\ closing'[i] = IF i = runtime[t] THEN TRUE ELSE closing[i]
  BY DEF RuntimeGate, IInv, TypeInv
<1>2. CASE i = runtime[t]
  BY <1>1, <1>2 DEF Use, L!Next, L!BeginClose
<1>3. CASE i # runtime[t]
  BY <1>1, <1>3 DEF Use
<1> QED
  BY <1>2, <1>3

LEMMA StopUses ==
  ASSUME IInv, StopInv, NEW t \in Threads, NEW i \in Runtimes, Stop(t)
  PROVE  Use(i)
<1>1. /\ closing[runtime[t]]
      /\ UNCHANGED users[i]
      /\ closing'[i] = IF i = runtime[t] THEN FALSE ELSE closing[i]
      /\ live'[i] = IF i = runtime[t] THEN FALSE ELSE live[i]
  BY DEF Stop, StopInv, IInv, TypeInv
<1>2. CASE i = runtime[t]
  BY <1>1, <1>2 DEF Use, L!Next, L!EndClose
<1>3. CASE i # runtime[t]
  BY <1>1, <1>3 DEF Use
<1> QED
  BY <1>2, <1>3

LEMMA StopFailsUses ==
  ASSUME IInv, StopInv, NEW t \in Threads, NEW i \in Runtimes, StopFails(t)
  PROVE  Use(i)
<1>1. /\ closing[runtime[t]]
      /\ UNCHANGED <<users[i], live[i]>>
      /\ closing'[i] = IF i = runtime[t] THEN FALSE ELSE closing[i]
  BY DEF StopFails, StopInv, IInv, TypeInv
<1>2. CASE i = runtime[t]
  BY <1>1, <1>2 DEF Use, L!Next, L!AbortClose
<1>3. CASE i # runtime[t]
  BY <1>1, <1>3 DEF Use
<1> QED
  BY <1>2, <1>3

\* The steps that touch the life of some runtime.
LEMMA NextUses ==
  ASSUME IInv, StopInv, [Next]_vars, lives' # lives, NEW i \in Runtimes
  PROVE  Use(i)
<1>1. PICK t \in Threads :
        \/ Persist(t) \/ Persisted(t) \/ NotPersisted(t) \/ RuntimeGate(t) \/ Stop(t)
        \/ StopFails(t) \/ CallGate(t) \/ Served(t)
  <2>1. ASSUME NEW t \in Threads, Invoke(t) PROVE lives' = lives
    BY <2>1 DEF Invoke, Call
  <2>2. ASSUME NEW t \in Threads, Continue(t)
        PROVE  \/ lives' = lives
               \/ Persist(t) \/ Persisted(t) \/ NotPersisted(t) \/ RuntimeGate(t) \/ Stop(t)
               \/ StopFails(t) \/ CallGate(t) \/ Served(t)
    BY <2>2
    DEF Continue, Gate, GateTimeout, Create, Open, Construct, ConstructFails, Register, Pop, Drain,
        CloseNext, RuntimeGateTimeout, Lookup, CallGateTimeout, List, Debug, Look, LookFails
  <2> QED
    BY <2>1, <2>2 DEF Next, ServeLate, vars
<1>2. CASE Persist(t)
  <2>1. runtime[t] \in Runtimes /\ ~closing[runtime[t]]
    BY <1>2 DEF Persist, IInv, CallsInv, CallKnows, RuntimesInv, FreshInv, Opening
  <2> QED
    BY <1>2, <2>1, EnterUses DEF Persist
<1>3. CASE CallGate(t)
  <2>1. runtime[t] \in Runtimes
    BY <1>3 DEF CallGate, IInv, CallsInv, CallKnows
  <2> QED
    BY <1>3, <2>1, EnterUses DEF CallGate
<1>4. CASE Persisted(t) \/ NotPersisted(t) \/ Served(t)
  BY <1>4, LeaveUses DEF Persisted, NotPersisted, Served
<1> QED
  BY <1>1, <1>2, <1>3, <1>4, GateUses, StopUses, StopFailsUses

LEMMA StopInvInit == Init => StopInv
  BY DEF Init, StopInv

LEMMA StopInvNext ==
  ASSUME IInv, StopInv, [Next]_vars
  PROVE  StopInv'
<1>1. ASSUME UNCHANGED closing, \A t \in Threads : pc'[t] = "stop" => pc[t] = "stop" /\ UNCHANGED runtime[t]
      PROVE  StopInv'
  BY <1>1 DEF StopInv
<1>2. ASSUME NEW t \in Threads, pc'[t] # "stop", UNCHANGED closing,
             \A u \in Threads \ {t} : UNCHANGED <<pc[u], runtime[u]>>
      PROVE  StopInv'
  BY <1>1, <1>2
<1>3. ASSUME NEW t \in Threads, NEW result, End(t, result), UNCHANGED closing
      PROVE  StopInv'
  BY <1>2, <1>3, EndEffect DEF IInv, Local
<1>4. ASSUME NEW t \in Threads, NEW step, step # "stop", Goto(t, step), UNCHANGED closing,
             UNCHANGED runtime \/ \E i : runtime' = [runtime EXCEPT ![t] = i]
      PROVE  StopInv'
  <2>1. pc'[t] # "stop" /\ \A u \in Threads \ {t} : UNCHANGED <<pc[u], runtime[u]>>
    BY <1>4 DEF Goto, IInv, TypeInv
  <2> QED
    BY <1>2, <1>4, <2>1
<1>5. ASSUME NEW t \in Threads, RuntimeGate(t) PROVE StopInv'
  <2>1. /\ ~closing[runtime[t]] /\ runtime[t] \in Runtimes /\ runtime' = runtime
        /\ closing' = [closing EXCEPT ![runtime[t]] = TRUE]
        /\ \A u \in Threads : pc'[u] = IF u = t THEN "stop" ELSE pc[u]
    BY <1>5 DEF RuntimeGate, Goto, IInv, TypeInv, CallsInv, CallKnows
  <2>2. \A u \in Threads : pc[u] = "stop" => runtime[u] # runtime[t] /\ runtime[u] \in Runtimes
    BY <2>1 DEF StopInv, IInv, CallsInv, CallKnows
  <2>3. \A i \in Runtimes : closing'[i] = IF i = runtime[t] THEN TRUE ELSE closing[i]
    BY <2>1 DEF IInv, TypeInv
  <2>4. ASSUME NEW u \in Threads, pc'[u] = "stop"
        PROVE  closing'[runtime[u]] /\ \A w \in Threads : w # u /\ pc'[w] = "stop" => runtime[w] # runtime[u]
    <3>1. CASE u = t
      BY <2>1, <2>2, <2>3, <3>1
    <3>2. CASE u # t
      <4>1. /\ pc[u] = "stop" /\ closing[runtime[u]]
            /\ \A w \in Threads : w # u /\ pc[w] = "stop" => runtime[w] # runtime[u]
        BY <2>1, <2>4, <3>2 DEF StopInv
      <4> QED
        BY <2>1, <2>2, <2>3, <3>2, <4>1
    <3> QED
      BY <3>1, <3>2
  <2> QED
    BY <2>1, <2>4 DEF StopInv
<1>6. ASSUME NEW t \in Threads, Stop(t) \/ StopFails(t) PROVE StopInv'
  <2>1. /\ pc[t] = "stop" /\ runtime[t] \in Runtimes
        /\ closing' = [closing EXCEPT ![runtime[t]] = FALSE]
        /\ pc'[t] # "stop" /\ \A u \in Threads \ {t} : UNCHANGED <<pc[u], runtime[u]>>
    BY <1>6 DEF Stop, StopFails, End, Goto, IInv, TypeInv, CallsInv, CallKnows
  <2>2. \A u \in Threads : u # t /\ pc[u] = "stop" => runtime[u] # runtime[t] /\ runtime[u] \in Runtimes
    BY <2>1 DEF StopInv, IInv, CallsInv, CallKnows
  <2>3. \A i \in Runtimes : closing'[i] = IF i = runtime[t] THEN FALSE ELSE closing[i]
    BY <2>1 DEF IInv, TypeInv
  <2> QED
    BY <2>1, <2>2, <2>3 DEF StopInv
<1>7. ASSUME NEW t \in Threads, Invoke(t) PROVE StopInv'
  <2>1. Goto(t, "gate") /\ UNCHANGED <<closing, runtime>>
    BY <1>7 DEF Invoke, Call, lives
  <2> QED
    BY <1>4, <2>1
<1>8. ASSUME NEW t \in Threads, Gate(t) PROVE StopInv'
  <2>1. Body(op[t]) # "stop"
    BY <1>8 DEF Gate, Body, IInv, CallsInv, CallKnows, Ops
  <2> QED
    BY <1>4, <1>8, <2>1 DEF Gate, lives
<1>9. ASSUME NEW t \in Threads,
             \/ Persist(t) \/ Persisted(t) \/ Pop(t) \/ Drain(t) \/ CallGate(t) \/ Debug(t)
      PROVE  StopInv'
  <2>1. UNCHANGED <<closing, runtime>> /\ \E step \in {"wait", "register", "next", "served", "look"} : Goto(t, step)
    BY <1>9 DEF Persist, Persisted, Pop, Drain, CallGate, Debug, lives
  <2> QED
    BY <1>4, <2>1
<1>10. ASSUME NEW t \in Threads,
              \/ GateTimeout(t) \/ NotPersisted(t) \/ Register(t) \/ RuntimeGateTimeout(t)
              \/ CallGateTimeout(t) \/ Served(t) \/ List(t) \/ LookFails(t)
       PROVE  StopInv'
  <2>1. UNCHANGED closing /\ \E result \in {"ok", "Error", "Timeout", "Closed"} : End(t, result)
    BY <1>10
    DEF GateTimeout, NotPersisted, Register, RuntimeGateTimeout, CallGateTimeout, Served, List,
        LookFails, lives
  <2> QED
    BY <1>3, <2>1
<1>11. ASSUME NEW t \in Threads, Create(t) \/ Open(t) PROVE StopInv'
  <2>1. \/ UNCHANGED lives /\ \E result : End(t, result)
        \/ \E step \in {"persist", "register"} : Construct(t, step)
    BY <1>11 DEF Create, Open, ConstructFails
  <2> QED
    BY <1>3, <1>4, <2>1 DEF Construct, lives
<1>12. ASSUME NEW t \in Threads, CloseNext(t) \/ Lookup(t) \/ Look(t) PROVE StopInv'
  <2>1. UNCHANGED closing
    BY <1>12 DEF CloseNext, Lookup, Look, lives
  <2>2. \/ \E result : End(t, result)
        \/ \E i : \E step \in {"runtime gate", "call gate"} :
              Goto(t, step) /\ runtime' = [runtime EXCEPT ![t] = i]
        \/ UNCHANGED <<pc, runtime>>
    BY <1>12 DEF CloseNext, Lookup, Look
  <2> QED
    BY <1>1, <1>3, <1>4, <2>1, <2>2
<1>13. ASSUME UNCHANGED <<pc, runtime, closing>> PROVE StopInv'
  BY <1>1, <1>13
<1>14. ASSUME NEW t \in Threads, Continue(t) PROVE StopInv'
  BY <1>5, <1>6, <1>8, <1>9, <1>10, <1>11, <1>12, <1>14 DEF Continue
<1> QED
  BY <1>7, <1>13, <1>14 DEF Next, ServeLate, vars, lives

\* UsesLifecycle: every runtime is entered, closed and left as RuntimeLifecycle
\* allows, although it is looked up under one lock and used under another.
THEOREM UsesLifecycleHolds == Spec => UsesLifecycle
<1>1. Init => \A i \in Runtimes : L(i)!Init
  BY DEF Init, L!Init
<1>2. IInv /\ StopInv /\ [Next]_vars =>
        [\A i \in Runtimes : [L(i)!Next]_<<users[i], closing[i], live[i]>>]_lives
  <2> SUFFICES ASSUME IInv, StopInv, [Next]_vars, lives' # lives, NEW i \in Runtimes
               PROVE  [L(i)!Next]_<<users[i], closing[i], live[i]>>
    OBVIOUS
  <2> QED
    BY NextUses DEF Use
<1> QED
  BY <1>1, <1>2, InvariantHolds, StopInvInit, StopInvNext, PTL DEF Spec, UsesLifecycle
=============================================================================
