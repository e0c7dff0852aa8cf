-------------------------- MODULE MCFinestVXService --------------------------
(* The service with two clients, one interpreter, and books of the shipped *)
(* pack or of one that only the service's registry has.                    *)
EXTENDS FinestVXService, MCLedgerData

MCPacks == {LatviaPack, "own"}

\* A book; two callers who post under one reference, one of them in a period
\* that the book does not have; and a reversal.
MCServiceRequests ==
  {Create(<<"cash", "sales">>, <<"jan">>, <<>>, "alice"),
   Append_(Posted("t1", Sale, "jan", None), "alice"),
   Append_(Posted("t1", Split, "feb", None), "bob"),
   Reverse_("t1", "t2", "bob")}
=============================================================================
