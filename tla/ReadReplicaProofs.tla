-------------------------- MODULE ReadReplicaProofs --------------------------
(***************************************************************************)
(* Proofs about ReadReplica.tla, for any number of tasks and connections:  *)
(* the current connection stays open until close(), and connections leak   *)
(* only where two refreshes overlap or an open is cut short.               *)
(***************************************************************************)
EXTENDS ReadReplica, TLAPS

-----------------------------------------------------------------------------
(* The inductive invariant.                                                *)

TypeInv ==
  /\ reader \in Connections
  /\ state \in [Connections -> {"unused", "open", "closed"}]
  /\ closed \in BOOLEAN
  /\ lost \subseteq Connections
  /\ pc \in [Tasks -> {"idle", "connect", "check", "select", "yielded"} \cup LoadSteps]
  /\ goal \in [Tasks -> Reads \cup {"refresh", None}]
  /\ old \in [Tasks -> Connections \cup {None}]
  /\ fresh \in [Tasks -> Connections \cup {None}]

\* A task between Connect and Opened, and no other, holds a connection that it
\* has opened and that is nobody else's.
FreshInv ==
  /\ \A t \in Tasks : IF pc[t] = "check"
                      THEN /\ fresh[t] \in Connections
                           /\ state[fresh[t]] = "open"
                           /\ fresh[t] # reader
                      ELSE fresh[t] = None
  /\ \A t, u \in Tasks : pc[t] = "check" /\ fresh[t] = fresh[u] => t = u

\* What a refresh will close was the current reader once, so it is not what
\* another refresh is about to install.
OldInv ==
  /\ state[reader] # "unused"
  /\ \A t \in Tasks : pc[t] \in {"connect", "check"} =>
       /\ old[t] \in Connections
       /\ state[old[t]] # "unused"
       /\ \A u \in Tasks : old[t] # fresh[u]

IInv == TypeInv /\ FreshInv /\ OldInv /\ CurrentIsOpen /\ OnlyKnownLeaks

-----------------------------------------------------------------------------
LEMMA IInvInit == Init => IInv
<1> SUFFICES ASSUME Init PROVE IInv
  OBVIOUS
<1> USE ReplicaAssumption DEF Init
<1>1. TypeInv
  BY DEF TypeInv
<1>2. FreshInv
  BY DEF FreshInv
<1>3. OldInv
  BY DEF OldInv
<1>4. CurrentIsOpen /\ OnlyKnownLeaks
  BY DEF CurrentIsOpen, OnlyKnownLeaks
<1> QED
  BY <1>1, <1>2, <1>3, <1>4 DEF IInv

\* A step that changes neither connections nor what tasks hold of a refresh.
LEMMA IInvQuiet ==
  ASSUME IInv, TypeInv',
         UNCHANGED <<reader, state, closed, lost, old, fresh>>,
         NEW t \in Tasks,
         pc[t] # "check", pc'[t] \notin {"connect", "check"},
         \A u \in Tasks \ {t} : pc'[u] = pc[u]
  PROVE  IInv'
<1> USE DEF IInv
<1>1. \A u \in Tasks : pc'[u] = "check" <=> pc[u] = "check"
  OBVIOUS
<1>2. \A u \in Tasks : pc'[u] \in {"connect", "check"} => pc[u] \in {"connect", "check"}
  OBVIOUS
<1>3. FreshInv'
  BY <1>1 DEF FreshInv
<1>4. OldInv'
  BY <1>2 DEF OldInv
<1>5. CurrentIsOpen' /\ OnlyKnownLeaks'
  BY DEF CurrentIsOpen, OnlyKnownLeaks
<1> QED
  BY <1>3, <1>4, <1>5

\* A call that ends in a state in which its task holds no connection of a refresh.
LEMMA IInvLeave ==
  ASSUME IInv, NEW t \in Tasks, pc[t] # "check", Leave(t),
         UNCHANGED <<reader, state, closed, lost>>
  PROVE  IInv'
<1> USE DEF IInv, Leave, Goto
<1>1. TypeInv'
  BY DEF TypeInv
<1>2. fresh' = fresh
  BY DEF TypeInv, FreshInv
<1>3. FreshInv'
  BY <1>2 DEF FreshInv, TypeInv
<1>4. OldInv'
  BY <1>2 DEF OldInv, TypeInv
<1>5. CurrentIsOpen' /\ OnlyKnownLeaks'
  BY <1>2 DEF CurrentIsOpen, OnlyKnownLeaks
<1> QED
  BY <1>1, <1>3, <1>4, <1>5

LEMMA IInvCalls ==
  ASSUME IInv, NEW t \in Tasks, Call(t)
  PROVE  IInv'
<1> USE ReplicaAssumption DEF IInv
<1>1. ASSUME NEW method \in Reads \cup {"refresh"}, pc[t] = "idle", BeginRefresh(t, method)
      PROVE  IInv'
  <2> USE <1>1 DEF BeginRefresh, Goto
  <2>1. TypeInv'
    BY DEF TypeInv
  <2>2. FreshInv'
    BY DEF FreshInv, TypeInv
  <2>3. OldInv'
    BY DEF OldInv, TypeInv, FreshInv
  <2>4. CurrentIsOpen' /\ OnlyKnownLeaks'
    BY DEF CurrentIsOpen, OnlyKnownLeaks
  <2> QED
    BY <2>1, <2>2, <2>3, <2>4
<1>2. ASSUME NEW method \in Reads, CallRead(t, method)
      PROVE  IInv'
  <2>1. CASE due
    BY <1>1, <1>2, <2>1 DEF CallRead
  <2>2. CASE ~due
    <3>1. pc'[t] \in {"book", "select"} /\ \A u \in Tasks \ {t} : pc'[u] = pc[u]
      BY <1>2, <2>2 DEF CallRead, Goto, FirstSelect, TypeInv
    <3>2. TypeInv'
      BY <1>2, <2>2, <3>1 DEF CallRead, Goto, FirstSelect, TypeInv, LoadSteps
    <3>3. IInv'
      BY <1>2, <2>2, <3>1, <3>2, IInvQuiet DEF CallRead
    <3> QED
      BY <3>3
  <2> QED
    BY <2>1, <2>2
<1>3. CASE CallRefresh(t)
  BY <1>1, <1>3 DEF CallRefresh
<1>4. CASE Close(t)
  <2> USE <1>4 DEF Close
  <2>1. TypeInv'
    BY DEF TypeInv
  <2>2. FreshInv'
    BY DEF FreshInv, TypeInv
  <2>3. OldInv'
    BY DEF OldInv, TypeInv
  <2>4. CurrentIsOpen' /\ OnlyKnownLeaks'
    BY DEF CurrentIsOpen, OnlyKnownLeaks, TypeInv
  <2> QED
    BY <2>1, <2>2, <2>3, <2>4
<1> QED
  BY <1>2, <1>3, <1>4 DEF Call

LEMMA IInvOpen ==
  ASSUME IInv, NEW t \in Tasks,
         Connect(t) \/ ConnectFails(t) \/ CheckFails(t) \/ OpenCut(t) \/ Opened(t)
  PROVE  IInv'
<1> USE ReplicaAssumption DEF IInv
<1>1. CASE Connect(t)
  <2> USE <1>1 DEF Connect, Goto
  <2>1. PICK c \in Connections : /\ state[c] = "unused"
                                 /\ state' = [state EXCEPT ![c] = "open"]
                                 /\ fresh' = [fresh EXCEPT ![t] = c]
    OBVIOUS
  <2>2. c # reader /\ \A u \in Tasks : c # fresh[u]
    BY <2>1 DEF OldInv, FreshInv, TypeInv
  <2>3. TypeInv'
    BY <2>1 DEF TypeInv
  <2>4. FreshInv'
    BY <2>1, <2>2 DEF FreshInv, TypeInv
  <2>5. OldInv'
    BY <2>1, <2>2 DEF OldInv, TypeInv
  <2>6. CurrentIsOpen' /\ OnlyKnownLeaks'
    BY <2>1, <2>2 DEF CurrentIsOpen, OnlyKnownLeaks, TypeInv, FreshInv
  <2> QED
    BY <2>3, <2>4, <2>5, <2>6
<1>2. CASE ConnectFails(t)
  BY <1>2, IInvLeave DEF ConnectFails
<1>3. CASE CheckFails(t)
  <2> USE <1>3 DEF CheckFails, Leave, Goto
  <2>1. TypeInv'
    BY DEF TypeInv, FreshInv
  <2>2. FreshInv'
    BY DEF FreshInv, TypeInv
  <2>3. OldInv'
    BY DEF OldInv, TypeInv, FreshInv
  <2>4. CurrentIsOpen' /\ OnlyKnownLeaks'
    BY DEF CurrentIsOpen, OnlyKnownLeaks, TypeInv, FreshInv
  <2> QED
    BY <2>1, <2>2, <2>3, <2>4
<1>4. CASE OpenCut(t)
  <2> USE <1>4 DEF OpenCut, Leave, Goto
  <2>1. TypeInv'
    BY DEF TypeInv, FreshInv
  <2>2. FreshInv'
    BY DEF FreshInv, TypeInv
  <2>3. OldInv'
    BY DEF OldInv, TypeInv
  <2>4. CurrentIsOpen' /\ OnlyKnownLeaks'
    BY DEF CurrentIsOpen, OnlyKnownLeaks, TypeInv
  <2> QED
    BY <2>1, <2>2, <2>3, <2>4
<1>5. CASE Opened(t)
  <2> DEFINE next == pc'[t]
  <2>1. /\ pc' = [pc EXCEPT ![t] = next]
        /\ next \in {"idle", "book", "select"}
        /\ old' = [old EXCEPT ![t] = None]
        /\ fresh' = [fresh EXCEPT ![t] = None]
        /\ goal' \in [Tasks -> Reads \cup {"refresh", None}]
    BY <1>5 DEF Opened, Leave, Goto, FirstSelect, TypeInv
  <2>2. /\ pc[t] = "check"
        /\ reader' = fresh[t]
        /\ state' = [state EXCEPT ![old[t]] = "closed"]
        /\ lost' = IF reader = old[t] THEN lost ELSE lost \cup {reader}
        /\ closed' = closed
    BY <1>5 DEF Opened
  <2>3. /\ fresh[t] \in Connections /\ state[fresh[t]] = "open"
        /\ old[t] \in Connections /\ state[old[t]] # "unused"
        /\ \A u \in Tasks : old[t] # fresh[u]
    BY <2>2 DEF FreshInv, OldInv
  <2> HIDE DEF next
  <2>4. TypeInv'
    BY <2>1, <2>2, <2>3 DEF TypeInv, LoadSteps
  <2>5. FreshInv'
    BY <2>1, <2>2, <2>3 DEF FreshInv, TypeInv
  <2>6. OldInv'
    BY <2>1, <2>2, <2>3 DEF OldInv, TypeInv
  <2>7. CurrentIsOpen' /\ OnlyKnownLeaks'
    BY <2>1, <2>2, <2>3 DEF CurrentIsOpen, OnlyKnownLeaks, TypeInv, FreshInv
  <2> QED
    BY <2>4, <2>5, <2>6, <2>7
<1> QED
  BY <1>1, <1>2, <1>3, <1>4, <1>5

LEMMA IInvReads ==
  ASSUME IInv, NEW t \in Tasks,
         LoadStep(t) \/ LoadDone(t) \/ SelectDone(t) \/ Page(t) \/ NextPage(t) \/ ReadFails(t)
  PROVE  IInv'
<1> USE DEF LoadSteps
<1>1. ASSUME NEW step \in {"select", "yielded"} \cup LoadSteps, pc[t] # "check", Goto(t, step),
             UNCHANGED <<reader, state, closed, lost, goal, old, fresh>>
      PROVE  IInv'
  <2>1. TypeInv'
    BY <1>1 DEF IInv, TypeInv, Goto
  <2>2. pc'[t] \notin {"connect", "check"} /\ \A u \in Tasks \ {t} : pc'[u] = pc[u]
    BY <1>1 DEF IInv, TypeInv, Goto
  <2> QED
    BY <1>1, <2>1, <2>2, IInvQuiet
<1>2. CASE LoadStep(t)
  BY <1>1, <1>2 DEF LoadStep
<1>3. CASE LoadDone(t) \/ SelectDone(t) \/ ReadFails(t)
  BY <1>3, IInvLeave DEF LoadDone, SelectDone, ReadFails
<1>4. CASE Page(t) \/ NextPage(t)
  <2>1. CASE Leave(t)
    BY <1>4, <2>1, IInvLeave DEF Page, NextPage
  <2>2. CASE ~Leave(t)
    BY <1>1, <1>4, <2>2 DEF Page, NextPage
  <2> QED
    BY <2>1, <2>2
<1> QED
  BY <1>2, <1>3, <1>4

LEMMA IInvStep == IInv /\ [Next]_vars => IInv'
<1> SUFFICES ASSUME IInv, [Next]_vars PROVE IInv'
  OBVIOUS
<1>1. CASE UNCHANGED vars \/ Tick
  BY <1>1 DEF IInv, TypeInv, FreshInv, OldInv, CurrentIsOpen, OnlyKnownLeaks, vars, Tick
<1>2. ASSUME NEW t \in Tasks, Call(t) \/ Await(t) PROVE IInv'
  BY <1>2, IInvCalls, IInvOpen, IInvReads DEF Await
<1> QED
  BY <1>1, <1>2 DEF Next

-----------------------------------------------------------------------------
(* The theorems.                                                           *)

\* Until close(), _reader is an open connection: no refresh, failed, cancelled
\* or overlapping, leaves the replica with a closed one.
THEOREM CurrentIsOpenHolds == Spec => []CurrentIsOpen
<1>1. IInv => CurrentIsOpen
  BY DEF IInv
<1> QED
  BY <1>1, IInvInit, IInvStep, PTL DEF Spec

\* Every open connection is the current one, one that a refresh holds, or was
\* lost by an overlap of refreshes or a cut open.
THEOREM OnlyKnownLeaksHolds == Spec => []OnlyKnownLeaks
<1>1. IInv => OnlyKnownLeaks
  BY DEF IInv
<1> QED
  BY <1>1, IInvInit, IInvStep, PTL DEF Spec
=============================================================================
