---------------------------- MODULE PricingProofs ----------------------------
(***************************************************************************)
(* Theorems about Pricing, for every length of a book and every cost.      *)
(***************************************************************************)
EXTENDS Pricing, TLAPS

\* Rounding up: the least number of credits that covers an amount.
LEMMA RoundedUp ==
  ASSUME NEW n \in Nat, NEW c \in Int, c = (n + (Million - 1)) \div Million
  PROVE  c * Million >= n /\ (c - 1) * Million < n
BY SMT DEF Million

\* A job is charged the least whole number of credits that covers twice its
\* estimated cost (three times with character casting), never a credit more,
\* and never nothing if it has speech: submit refuses empty_speech alone
\* (jobs/dispatcher.py:61), and a reservation is of at least one credit
\* (storage/postgres.py:648).
THEOREM PriceCoversCost ==
  ASSUME NEW characters \in Nat, NEW cost \in Nat \ {0}, NEW multivoice \in BOOLEAN
  PROVE  LET price == CreditsForCharacters(characters, cost, multivoice)
             amount == characters * cost * Factor(multivoice) IN
         /\ price \in Nat
         /\ price * Million >= amount
         /\ (price - 1) * Million < amount
         /\ price = 0 <=> characters = 0
<1> DEFINE amount == characters * cost * Factor(multivoice)
           price == CreditsForCharacters(characters, cost, multivoice)
<1>1. Factor(multivoice) \in {2, 3}
  BY DEF Factor
<1>2. amount \in Nat /\ (amount = 0 <=> characters = 0)
  <2>1. characters * cost \in Nat /\ (characters * cost = 0 <=> characters = 0)
    BY SMT
  <2>2. QED
    BY <1>1, <2>1, SMT
<1>3. price = (amount + (Million - 1)) \div Million
  BY DEF CreditsForCharacters
<1>4. price \in Nat
  <2> HIDE DEF price, amount
  <2>1. QED
    BY <1>2, <1>3, SMT DEF Million
<1>5. price * Million >= amount /\ (price - 1) * Million < amount
  <2> HIDE DEF price, amount
  <2>1. QED
    BY <1>2, <1>3, <1>4, RoundedUp
<1>6. price = 0 <=> amount = 0
  <2> HIDE DEF price, amount
  <2>1. QED
    BY <1>2, <1>4, <1>5, SMT DEF Million
<1>7. QED
  BY <1>2, <1>4, <1>5, <1>6
=============================================================================
