----------------------------- MODULE MCRecovery -----------------------------
EXTENDS Recovery
CONSTANTS j1, j2, w1, w2
\* A worker that succeeds and says so, one that fails without a result file.
SomeOutcomes == {<<"ok", "completed">>, <<"error", "none">>}
=============================================================================
