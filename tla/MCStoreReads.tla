---------------------------- MODULE MCStoreReads ----------------------------
(* Two callers, a pool of two connections and a ledger that is created and *)
(* then extended while a call reads it.                                    *)
EXTENDS StoreReads, MCLedgerData

MCWrites ==
  {Create(<<"cash", "sales">>, <<"jan">>, <<Posted("t1", Sale, "jan", None)>>, "alice"),
   Append_(Posted("t2", Split, None, None), "bob")}
=============================================================================
