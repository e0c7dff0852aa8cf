------------------------- MODULE MCSqliteLedgerStore -------------------------
(* Two threads on one store, and one thread on each of two stores.         *)
EXTENDS SqliteLedgerStore, MCLedgerData

MCOneStore == [t \in Threads |-> CHOOSE s \in Stores : TRUE]

\* Threads and stores are numbered: thread n calls store n.
MCOwnStore == [t \in Threads |-> t]

Opening == Create(<<"cash", "sales">>, <<"jan">>, <<Posted("t1", Sale, "jan", None)>>, "alice")

\* One store: creation, appends that succeed and fail in each way, reversals.
MCStoreRequests ==
  {Opening,
   Append_(Posted("t2", Split, None, "t1"), "bob"),
   Append_(Draft("t2", Single), "bob"),
   Reverse_("t1", "t2", "bob"), Reverse_("t1", "t3", "alice"),
   Legislate("t1", "alice")}

\* Two stores, writes that do not depend on a read: no reversal.
MCAppendRequests ==
  {Opening,
   Create(<<"cash">>, <<>>, <<>>, "bob"),
   Append_(Posted("t2", Split, None, "t1"), "bob"),
   Append_(Posted("t2", Sale, "jan", None), "alice"),
   Append_(Posted("t3", Signless, None, None), "alice")}

\* Two stores, reversals of the opening transaction.
MCReversalRequests == {Opening, Reverse_("t1", "t2", "bob"), Reverse_("t1", "t3", "alice")}
=============================================================================
