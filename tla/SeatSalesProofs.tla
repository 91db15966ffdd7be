-------------------------- MODULE SeatSalesProofs --------------------------
(***************************************************************************)
(* The abstract sale keeps its promise: no seat is sold to two.            *)
(***************************************************************************)
EXTENDS SeatSales, TLAPS

(* Every variable of the abstract sale keeps its type while the promise    *)
(* stands; afterwards nothing is said.                                     *)
Promised == exclusive = TRUE => SalesTypeOK /\ HeldByOne /\ SoldToOne

(* One step of the abstract sale keeps holds apart from one another and    *)
(* from what others bought, and so sales apart.                            *)
LEMMA PromisedStep == Promised /\ [Next]_salesVars => Promised'
<1> SUFFICES ASSUME Promised, [Next]_salesVars, exclusive' = TRUE PROVE Promised'
  BY DEF Promised
<1> USE DEF Promised, SalesTypeOK, HeldByOne, SoldToOne, SoldSeat, HeldSeat
<1>1. ASSUME NEW S \in SUBSET Seat, LetGo(S) PROVE Promised'
  BY <1>1 DEF LetGo
<1>2. ASSUME NEW r \in Reservation, NEW S \in SUBSET Seat, Ask(r, S) PROVE Promised'
  BY <1>2 DEF Ask
<1>3. ASSUME NEW r \in Reservation, NEW s \in Seat, Hold(r, s) PROVE Promised'
  BY <1>3 DEF Hold
<1>4. ASSUME NEW r \in Reservation, Sell(r) PROVE Promised'
  BY <1>4 DEF Sell
<1>5. ASSUME NEW r \in Reservation, Close(r) PROVE Promised'
  BY <1>5 DEF Close
<1>6. CASE Waive
  BY <1>6 DEF Waive
<1>7. CASE UNCHANGED salesVars
  BY <1>7 DEF salesVars
<1> QED
  BY <1>1, <1>2, <1>3, <1>4, <1>5, <1>6, <1>7 DEF Next

(* The abstract sale never sells a seat to two reservations while its      *)
(* promise stands: what SeatSales promises of the code's seats is more     *)
(* than a list of steps.                                                   *)
THEOREM SalesAreExclusive == Spec => []SoldToOne
<1>1. Init => Promised
  BY DEF Init, Promised, SalesTypeOK, HeldByOne, SoldToOne
<1>2. Promised => SoldToOne
  BY DEF Promised, SoldToOne
<1> QED
  BY <1>1, <1>2, PromisedStep, PTL DEF Spec
=============================================================================
