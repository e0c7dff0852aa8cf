--------------------------- MODULE MCLedgerRuntime ---------------------------
(* The runtime with two clients, numbered 1 and 2.                         *)
EXTENDS LedgerRuntime

\* Both clients write and close; reads, pages and start are made by one of them.
MCMixed == [t \in Clients |-> IF t = 1 THEN {"write", "read", "start", "close"}
                                      ELSE {"write", "pages", "close"}]
=============================================================================
