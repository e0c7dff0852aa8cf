---------------------------- MODULE MCLedgerData ----------------------------
(* Values of the ledger's constants for TLC, shared by the MC modules.     *)
EXTENDS LedgerData

MCRefs == {"t1", "t2", "t3"}
MCAccounts == {"cash", "sales"}
MCPeriods == {"jan", "feb"}
MCCurrencies == {"EUR", "USD"}
MCActors == {"alice", "bob"}

L(a, s, n, c) == [account |-> a, side |-> s, amount |-> n, currency |-> c]

Sale == <<L("cash", "Dr", 2, "EUR"), L("sales", "Cr", 2, "EUR")>>
Split == <<L("cash", "Dr", 2, "EUR"), L("sales", "Cr", 1, "EUR"), L("sales", "Cr", 1, "EUR")>>
Mixed == <<L("cash", "Dr", 2, "EUR"), L("sales", "Cr", 2, "USD")>>
Signless == <<L("cash", "Dr", 0, "EUR"), L("sales", "Cr", NegativeZero, "EUR")>>
Single == <<L("cash", "Dr", 0, "EUR")>>

Posted(ref, lines, period, of) ==
  [ref |-> ref, lines |-> lines, period |-> period, of |-> of, note |-> "caller",
   state |-> "posted"]
Draft(ref, lines) == [Posted(ref, lines, None, None) EXCEPT !.state = "draft"]

Create(accounts, periods, transactions, actor) ==
  [op |-> "create_book", accounts |-> accounts, periods |-> periods,
   transactions |-> transactions, actor |-> actor]
Append_(tx, actor) == [op |-> "append_transaction", tx |-> tx, actor |-> actor]
Reverse_(original, reversal, actor) ==
  [op |-> "append_reversal", original |-> original, reversal |-> reversal, actor |-> actor]
Legislate(ref, actor) == [op |-> "append_legislative_result", ref |-> ref, actor |-> actor]

\* Books: without accounts, with an opening transaction, and with the opening
\* transaction given twice.
Creates ==
  LET opening == Posted("t1", Sale, "jan", None)
  IN {Create(<<>>, <<>>, <<>>, "alice"),
      Create(<<"cash", "sales">>, <<"jan">>, <<>>, "alice"),
      Create(<<"cash", "sales">>, <<"jan">>, <<opening>>, "alice"),
      Create(<<"cash", "sales">>, <<"jan">>, <<opening, opening>>, "alice"),
      Create(<<"cash">>, <<"jan">>, <<>>, "bob")}

\* Appends: balanced in two and three lines, pointing at another transaction,
\* a draft, one currency against another, a single line and a -0 amount.
Appends ==
  {Append_(Posted("t1", Sale, "jan", None), "alice"),
   Append_(Posted("t2", Split, None, None), "bob"),
   Append_(Posted("t3", Sale, "jan", "t1"), "alice"),
   Append_(Draft("t2", Single), "bob"),
   Append_(Posted("t2", Mixed, None, None), "bob"),
   Append_(Posted("t3", Single, None, None), "bob"),
   Append_(Posted("t3", Signless, None, None), "alice")}

Reverses ==
  {Reverse_("t1", "t2", "bob"), Reverse_("t1", "t3", "alice"),
   Reverse_("t2", "t3", "bob"), Reverse_("t3", "t1", "bob"), Reverse_("t2", "t2", "bob")}

MCRequests == Creates \cup Appends \cup Reverses \cup {Legislate("t1", "bob"), Legislate("t3", "alice")}

\* A period the book does not have.
MCUnknownPeriod == MCRequests \cup {Append_(Posted("t2", Sale, "feb", None), "bob")}
=============================================================================
