---------------------------- MODULE MCDiscounts ----------------------------
(* A small instance of Discounts for TLC.                                  *)
EXTENDS Discounts, TLC

(* An eighth of a price, which no cent divides, with a ceiling; more than  *)
(* all of it.                                                              *)
Eighth == [kind |-> "PERCENTAGE", value |-> 1250, least |-> 0, capped |-> TRUE, cap |-> 50]
All    == [kind |-> "PERCENTAGE", value |-> 15000, least |-> 300, capped |-> FALSE, cap |-> 0]

Has(code, terms, active) == [code |-> code, terms |-> terms, limit |-> 1, active |-> active]

CONSTANTS c1, c2
SomeSettings ==
    {Has(c1, Eighth, TRUE), Has(c1, Eighth, FALSE), Has(c2, All, TRUE)}

SomeBaskets == {[t \in SeatTypes |-> IF t = "STANDARD" THEN n ELSE 0] : n \in {1, 2}}

Symmetry == Permutations(Request)
=============================================================================
