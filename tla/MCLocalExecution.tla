-------------------------- MODULE MCLocalExecution --------------------------
(* Small instances of LocalExecution for TLC. *)
EXTENDS LocalExecution, TLC

CONSTANTS j1, j2, s1, s2

OneJob == {j1}
TwoJobs == {j1, j2}
OneServer == {s1}
TwoServers == {s1, s2}

JobSymmetry == Permutations(Jobs)
ServerSymmetry == Permutations(Servers)
=============================================================================
