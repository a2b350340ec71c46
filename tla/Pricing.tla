------------------------------- MODULE Pricing -------------------------------
(***************************************************************************)
(* billing/pricing.py: what a job costs, in whole credits.  The price of a *)
(* million characters is KENKUI_ESTIMATED_COST_CENTS_PER_MILLION.          *)
(***************************************************************************)
EXTENDS Integers

Million == 1000000

\* Twice the estimated cost, and half as much again for character casting.
Factor(multivoice) == IF multivoice THEN 3 ELSE 2

\* credits_for_characters: what is begun of a credit is a credit.
CreditsForCharacters(characters, cost, multivoice) ==
  (characters * cost * Factor(multivoice) + (Million - 1)) \div Million
=============================================================================
