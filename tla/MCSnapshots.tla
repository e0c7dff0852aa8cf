----------------------------- MODULE MCSnapshots -----------------------------
EXTENDS Snapshots

CONSTANTS demo, copy

MCStems == {demo, copy}

\* compress is True unless the caller says otherwise: beside the ledger, and to
\* a name that ends in ".sqlite3".
MCDestinations == [path : {<<copy, ".zst">>, <<copy, ".sqlite3">>, <<demo, ".zst">>},
                   compress : {TRUE}]
=============================================================================
