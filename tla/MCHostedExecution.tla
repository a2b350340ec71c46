------------------------- MODULE MCHostedExecution -------------------------
(* Small instances of HostedExecution for TLC. *)
EXTENDS HostedExecution

CONSTANTS j1, j2

OneJob == {j1}
TwoJobs == {j1, j2}

\* The prices of j1 and j2 differ, so that a mix-up shows in the balance.
Prices == [j \in Jobs |-> IF j = j1 THEN 1 ELSE 2]
=============================================================================
