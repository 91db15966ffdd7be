------------------------------ MODULE Pricing ------------------------------
(***************************************************************************)
(* What a seat costs and what a discount takes off an order.  holdSeats    *)
(* and validateAndCalculateDiscount compute the discount each in its own   *)
(* way; the database then rounds the discount and what remains to two      *)
(* decimals, each by itself.                                               *)
(*                                                                         *)
(* Stored amounts are in cents (decimal(12,2)).  Orders are whole units,   *)
(* for every seat's price is rounded.  A percentage of two decimals of an  *)
(* order is a whole number of ten-thousandths, the unit of what is not     *)
(* stored yet.  Arithmetic is exact.                                       *)
(***************************************************************************)
EXTENDS Integers

Least(a, b) == IF a <= b THEN a ELSE b
Most(a, b) == IF a <= b THEN b ELSE a

SeatTypes == {"STANDARD", "VIP", "COUPLE"}

(* Math.round: to the nearest whole number, halves up.                     *)
Rounded(n, unit) == (2 * n + unit) \div (2 * unit)

(* The showtime's price, in cents, times 1, 1.2 or 1.5, in whole units.    *)
SeatPrice(cents, seatType) ==
    Rounded(cents * (IF seatType = "VIP" THEN 12 ELSE IF seatType = "COUPLE" THEN 15 ELSE 10),
            1000)

(* The terms of a discount: its discountType, its discountValue, its       *)
(* minOrderAmount, and its maxDiscountAmount if it is `capped', all in     *)
(* hundredths.  A cap that was read from the database is a string, so that *)
(* 0 is one too; neither the cap nor the minimum need be positive.         *)
AllTerms == [kind : {"PERCENTAGE", "FIXED_AMOUNT"}, value : Nat, least : Int,
             capped : BOOLEAN, cap : Int]

(* An order is so many seats of each type.                                 *)
OrderOf(cents, seats) ==
    seats["STANDARD"] * SeatPrice(cents, "STANDARD") + seats["VIP"] * SeatPrice(cents, "VIP")
    + seats["COUPLE"] * SeatPrice(cents, "COUPLE")

OfOrder(order) == 10000 * order
OfCents(cents) == 100 * cents

----------------------------------------------------------------------------
(* holdSeats                                                               *)

(* Mutation: the ceiling is forgotten.                                     *)
HoldPercentageUncapped(t, order) == order * t.value

HoldPercentage(t, order) ==
    IF t.capped THEN Least(order * t.value, OfCents(t.cap)) ELSE order * t.value

HoldDiscount(t, order) ==
    IF t.kind = "PERCENTAGE" THEN HoldPercentage(t, order)
    ELSE Least(OfCents(t.value), OfOrder(order))

(* Mutation: a discount above the order is not kept from a negative rest.  *)
HoldFinalUnbounded(t, order) == OfOrder(order) - HoldDiscount(t, order)

(* A percentage may be above 100: what is left is never below 0.           *)
HoldFinal(t, order) == Most(0, OfOrder(order) - HoldDiscount(t, order))

----------------------------------------------------------------------------
(* validateAndCalculateDiscount                                            *)

QuotedAmount(t, order) ==
    IF t.kind # "PERCENTAGE" THEN OfCents(t.value)
    ELSE IF t.capped /\ order * t.value > OfCents(t.cap) THEN OfCents(t.cap)
    ELSE order * t.value

QuotedFinal(t, order) == OfOrder(order) - Least(QuotedAmount(t, order), OfOrder(order))

----------------------------------------------------------------------------
(* A decimal(12,2) column: to the nearest cent, halves away from zero.     *)
InCents(n) == IF n >= 0 THEN Rounded(n, 100) ELSE -Rounded(-n, 100)
=============================================================================
