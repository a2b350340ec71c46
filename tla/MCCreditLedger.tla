--------------------------- MODULE MCCreditLedger ---------------------------
(* A small instance of CreditLedger for TLC. *)
EXTENDS CreditLedger, Pricing

CONSTANTS old, new,       \* an account from before the lots, and a new one
          i0, i1,         \* the old account's jobs at the migration
          j1, j2,         \* requests
          p1, p2          \* Checkout Sessions

\* j2 repeats the request of j1: a chapter with characters, of two credits; the
\* old jobs read a page, of one.
Requests == [j \in Jobs |->
  IF j \in {i0, i1}
  THEN [account |-> old, key |-> "none", spec |-> 0,
        price |-> CreditsForCharacters(1000, 126, FALSE)]
  ELSE [account |-> old, key |-> "k", spec |-> 1,
        price |-> CreditsForCharacters(4000, 126, TRUE)]]

Sessions == [p \in Payments |->
  [account |-> old, credits |-> IF p = p1 THEN 1 ELSE 2]]
=============================================================================
