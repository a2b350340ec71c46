----------------------------- MODULE MCRetention -----------------------------
(* Small instances of Retention for TLC. *)
EXTENDS Retention, TLC

CONSTANTS j1, s1, k1

OneJob == {j1}
OneKey == {k1}
OneSource == {s1}
=============================================================================
