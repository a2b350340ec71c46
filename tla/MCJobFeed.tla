------------------------------ MODULE MCJobFeed ------------------------------
(* Small instances of JobFeed for TLC. *)
EXTENDS JobFeed, TLC

CONSTANTS j1, c1, work, home, none

OneJob == {j1}
OneClient == {c1}
TwoAddresses == {work, home}
FollowsJob == [c \in OneClient |-> j1]
=============================================================================
