-------------------------- MODULE RuntimeLifecycle ---------------------------
(***************************************************************************)
(* What a LedgerRuntime promises about its life, whatever it is asked to   *)
(* write: calls get in while nobody closes it, and it closes when nobody   *)
(* is in.  LedgerRuntime implements this, and MultiBookRuntime uses each   *)
(* of its runtimes in this way.                                            *)
(***************************************************************************)
CONSTANT Clients

VARIABLES users,   \* the clients inside a call
          closing, \* somebody closes the runtime
          open     \* its store is open

lifecycleVars == <<users, closing, open>>

Init == users = {} /\ closing = FALSE /\ open = TRUE

Enter(c) ==
  /\ ~closing
  /\ users' = users \cup {c}
  /\ UNCHANGED <<closing, open>>

Leave(c) ==
  /\ users' = users \ {c}
  /\ UNCHANGED <<closing, open>>

BeginClose ==
  /\ ~closing
  /\ users = {}
  /\ closing' = TRUE
  /\ UNCHANGED <<users, open>>

\* A runtime never opens again.
EndClose ==
  /\ closing
  /\ closing' = FALSE
  /\ open' = FALSE
  /\ UNCHANGED users

\* A close that raises leaves the runtime open.
AbortClose ==
  /\ closing
  /\ closing' = FALSE
  /\ UNCHANGED <<users, open>>

Next == BeginClose \/ EndClose \/ AbortClose \/ \E c \in Clients : Enter(c) \/ Leave(c)

Spec == Init /\ [][Next]_lifecycleVars
=============================================================================
