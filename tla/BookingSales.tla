--------------------------- MODULE BookingSales ---------------------------
(***************************************************************************)
(* Booking implements SeatSales.  A seat is held by the request whose id   *)
(* is the value of its key and which knows that it locked it; it is bought *)
(* by the reservation whose row is CONFIRMED; and the promise stands as    *)
(* long as none of the four hazards has come true.                         *)
(***************************************************************************)
EXTENDS BookingProperties

Holds == [r \in Reservation |-> {s \in got[r] : owner[s] = r}]

Bought == [r \in Reservation |-> IF status[r] = "CONFIRMED" THEN want[r] ELSE {}]

Phase == [r \in Reservation |->
            IF status[r] \in {"NONE", "PENDING"} THEN "open"
            ELSE IF status[r] = "CONFIRMED" THEN "sold" ELSE "over"]

Sales == INSTANCE SeatSales WITH
    asked <- want, holds <- Holds, bought <- Bought, phase <- Phase,
    exclusive <- (windows = {})

(* Outside the four hazards every step of the booking flow is one step of  *)
(* the abstract sale, or none of its business: seats are held by one       *)
(* reservation at a time and never while sold, a payment sells all the     *)
(* seats of a reservation at once and only if it still holds every one, a  *)
(* cancellation or expiry returns all of them at once, and a reservation   *)
(* that was cancelled or expired is never sold.                            *)
ImplementsSeatSales == Sales!Spec
=============================================================================
