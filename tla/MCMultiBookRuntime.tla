------------------------- MODULE MCMultiBookRuntime --------------------------
(* Two threads, two books and a small number of runtimes.                  *)
EXTENDS MultiBookRuntime

MCMixed == [t \in Threads |-> IF t = 1 THEN {"create_book", "close", "debug"}
                                       ELSE {"open_book", "close_book", "route", "list"}]
=============================================================================
