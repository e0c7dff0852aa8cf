------------------------------ MODULE MCLedger ------------------------------
(* The abstract ledger with three references, two accounts and two         *)
(* currencies; and, from initial states of their own, charts of up to four *)
(* accounts, collections of up to three periods in four days, and          *)
(* conversions of up to 120 minor units in currencies of 0, 2, 3 and 4     *)
(* digits, by a Decimal that keeps three digits.                           *)
EXTENDS Validation, CoreModels, MCLedgerData

MCRates == {<<0, 1>>, <<11, 10>>, <<150, 1>>, <<7, 100>>, <<33, 100>>}

\* The ledger grows only beside the given that is nothing.
LedgerOnly == given.of = "nothing" /\ UNCHANGED given

MCNext == \E r \in Requests : \/ LedgerOnly /\ CreateBook(r)
                              \/ LedgerOnly /\ AppendTransaction(r)
                              \/ LedgerOnly /\ AppendReversal(r)
                              \/ LedgerOnly /\ AppendLegislativeResult(r)

MCInit == Init /\ ModelsInit

MCSpec == MCInit /\ [][MCNext]_<<ledger, given>>
=============================================================================
