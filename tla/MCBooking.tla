----------------------------- MODULE MCBooking -----------------------------
(***************************************************************************)
(* Small instances of Booking for TLC.  The configurations give the        *)
(* constants their values; reservations, seats and handlers are model      *)
(* values no action tells apart, so the safety runs use them as symmetry   *)
(* sets.  The liveness runs do not.                                        *)
(***************************************************************************)
EXTENDS BookingSales, TLC

Symmetry ==
    Permutations(Reservation) \cup Permutations(Seat) \cup Permutations(Handler)
=============================================================================
