--------------------------- MODULE MCDiagnostics ---------------------------
(* Four runs: two of one id, and two on one manager.                        *)
EXTENDS Diagnostics

FourRuns == 1..4
Ids == <<"a", "a", "b", "c">>
Managers == <<"m", "n", "m", "o">>
=============================================================================
