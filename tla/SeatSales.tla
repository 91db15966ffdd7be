----------------------------- MODULE SeatSales -----------------------------
(***************************************************************************)
(* What the booking flow promises about the seats of a showtime, with      *)
(* nothing of how: no locks, no deadlines, no requests in progress.  A     *)
(* reservation asks for seats that are not sold, holds each of them alone, *)
(* buys all of them at once while it holds every one, and gives all of     *)
(* them back at once; then it is over for good.                            *)
(*                                                                         *)
(* The promise has an end: `exclusive' turns FALSE when one of the hazards *)
(* the code does not exclude has come true, and from then on nothing is    *)
(* promised.  BookingSales shows that Booking implements this, and which   *)
(* hazards those are.                                                      *)
(***************************************************************************)
CONSTANTS
    Reservation,
    Seat

VARIABLES
    asked,      \* the seats each reservation asked for
    holds,      \* the seats it holds
    bought,     \* the seats sold to it
    phase,      \* not sold yet, sold, or over
    exclusive   \* whether the promise still stands

salesVars == <<asked, holds, bought, phase, exclusive>>

Init ==
    /\ asked = [r \in Reservation |-> {}]
    /\ holds = [r \in Reservation |-> {}]
    /\ bought = [r \in Reservation |-> {}]
    /\ phase = [r \in Reservation |-> "open"]
    /\ exclusive = TRUE

SoldSeat(s) == \E q \in Reservation : s \in bought[q]
HeldSeat(s) == \E q \in Reservation : s \in holds[q]

Ask(r, S) ==
    /\ phase[r] = "open" /\ holds[r] = {}
    /\ \A s \in S : ~SoldSeat(s)
    /\ asked' = [asked EXCEPT ![r] = S]
    /\ UNCHANGED <<holds, bought, phase, exclusive>>

(* A seat is held by one reservation, and never one that is sold.          *)
Hold(r, s) ==
    /\ phase[r] = "open" /\ s \in asked[r]
    /\ ~HeldSeat(s) /\ ~SoldSeat(s)
    /\ holds' = [holds EXCEPT ![r] = @ \cup {s}]
    /\ UNCHANGED <<asked, bought, phase, exclusive>>

(* Holds end, by a release or with time.                                   *)
LetGo(S) ==
    /\ holds' = [r \in Reservation |-> holds[r] \ S]
    /\ UNCHANGED <<asked, bought, phase, exclusive>>

(* All the seats asked for are sold in one step, and all are held then.    *)
Sell(r) ==
    /\ phase[r] = "open" /\ holds[r] = asked[r]
    /\ bought' = [bought EXCEPT ![r] = asked[r]]
    /\ phase' = [phase EXCEPT ![r] = "sold"]
    /\ UNCHANGED <<asked, holds, exclusive>>

(* An unpaid reservation ends, or a paid one gives all its seats back.     *)
Close(r) ==
    /\ phase[r] # "over"
    /\ bought' = [bought EXCEPT ![r] = {}]
    /\ phase' = [phase EXCEPT ![r] = "over"]
    /\ UNCHANGED <<asked, holds, exclusive>>

(* The promise is off.                                                     *)
Waive == exclusive' = FALSE

Next ==
    \/ \E S \in SUBSET Seat : LetGo(S)
    \/ \E r \in Reservation :
        \/ \E S \in SUBSET Seat : Ask(r, S)
        \/ \E s \in Seat : Hold(r, s)
        \/ Sell(r) \/ Close(r)
    \/ Waive

Spec == Init /\ [][Next]_salesVars

----------------------------------------------------------------------------
SalesTypeOK ==
    /\ asked \in [Reservation -> SUBSET Seat]
    /\ holds \in [Reservation -> SUBSET Seat]
    /\ bought \in [Reservation -> SUBSET Seat]
    /\ phase \in [Reservation -> {"open", "sold", "over"}]
    /\ exclusive \in BOOLEAN

(* No seat is sold to two reservations: the promise, in the terms of what  *)
(* was bought.  It follows from the holds: selling asks for no seat to be  *)
(* unsold.                                                                 *)
SoldToOne ==
    exclusive => \A r, q \in Reservation : r # q => bought[r] \cap bought[q] = {}

(* ... because what one reservation holds no other holds or has bought.    *)
HeldByOne ==
    exclusive =>
        \A r, q \in Reservation : r # q => holds[r] \cap (holds[q] \cup bought[q]) = {}
=============================================================================
