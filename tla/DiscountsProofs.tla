-------------------------- MODULE DiscountsProofs --------------------------
(***************************************************************************)
(* Discounts and the reservations that use them, for any number of         *)
(* requests and restarts, any codes and terms, any price and any choice of *)
(* seats.  One lemma per inductive invariant, with one step per action.    *)
(***************************************************************************)
EXTENDS Discounts, TLAPS

(* A percentage, a price or a number of seats times another is one.        *)
LEMMA ProductNat == ASSUME NEW a \in Nat, NEW b \in Nat PROVE a * b \in Nat
  OBVIOUS

(* Seats are priced in whole units that are not negative.                  *)
LEMMA SeatPriceNat ==
    ASSUME NEW cents \in Nat, NEW seatType \in SeatTypes
    PROVE  SeatPrice(cents, seatType) \in Nat
<1>1. SeatPrice(cents, "VIP") \in Nat
  BY DEF SeatPrice, Rounded
<1>2. SeatPrice(cents, "COUPLE") \in Nat
  BY DEF SeatPrice, Rounded
<1>3. SeatPrice(cents, "STANDARD") \in Nat
  BY DEF SeatPrice, Rounded
<1> QED
  BY <1>1, <1>2, <1>3 DEF SeatTypes

(* So is an order.                                                         *)
LEMMA OrderNat ==
    ASSUME NEW cents \in Nat, NEW seats \in [SeatTypes -> Nat]
    PROVE  OrderOf(cents, seats) \in Nat
<1>1. \A t \in SeatTypes : seats[t] * SeatPrice(cents, t) \in Nat
  BY SeatPriceNat, ProductNat
<1> QED
  BY <1>1 DEF OrderOf, SeatTypes

(* A percentage of an order never adds to it.                              *)
LEMMA PercentNat ==
    ASSUME NEW t \in AllTerms, NEW order \in Nat
    PROVE  order * t.value \in Nat
  BY ProductNat DEF AllTerms

(* holdSeats computes whole ten-thousandths.                               *)
LEMMA HoldInt ==
    ASSUME NEW t \in AllTerms, NEW order \in Nat
    PROVE  HoldDiscount(t, order) \in Int /\ HoldFinal(t, order) \in Int
<1>1. HoldPercentage(t, order) \in Int
  BY PercentNat DEF HoldPercentage, Least, OfCents, AllTerms
<1>2. HoldDiscount(t, order) \in Int
  BY <1>1 DEF HoldDiscount, Least, OfCents, OfOrder, AllTerms
<1> QED
  BY <1>2 DEF HoldFinal, Most, OfOrder

(* The database stores whole cents.                                        *)
LEMMA CentsInt == ASSUME NEW n \in Int PROVE InCents(n) \in Int
  BY DEF InCents, Rounded

LEMMA AmountsType ==
    ASSUME NEW t \in AllTerms, NEW order \in Nat
    PROVE  Amounts(t, order) \in [original : Int, discount : Int, final : Int]
<1>1. OfOrder(order) \in Int
  BY DEF OfOrder
<1> QED
  BY <1>1, HoldInt, CentsInt DEF Amounts

(* What a client is told an order costs is what holding it costs.          *)
LEMMA HoldIsQuoted ==
    ASSUME NEW t \in AllTerms, NEW order \in Nat
    PROVE  HoldFinal(t, order) = QuotedFinal(t, order)
<1> DEFINE part == order * t.value
<1>1. part \in Nat
  BY PercentNat
<1>2. t.cap \in Int /\ t.value \in Nat /\ t.capped \in BOOLEAN
  BY DEF AllTerms
<1>3. HoldPercentage(t, order) = IF t.capped THEN Least(part, OfCents(t.cap)) ELSE part
  BY DEF HoldPercentage
<1>4. QuotedAmount(t, order) =
         IF t.kind # "PERCENTAGE" THEN OfCents(t.value)
         ELSE IF t.capped /\ part > OfCents(t.cap) THEN OfCents(t.cap) ELSE part
  BY DEF QuotedAmount
<1> HIDE DEF part
<1> QED
  BY <1>1, <1>2, <1>3, <1>4
  DEF HoldFinal, HoldDiscount, QuotedFinal, Most, Least, OfCents, OfOrder

(* With a ceiling that is not negative, a discount is not negative either. *)
LEMMA DiscountNat ==
    ASSUME NEW t \in AllTerms, NEW order \in Nat, t.cap >= 0
    PROVE  HoldDiscount(t, order) \in Nat
<1>1. order * t.value \in Nat
  BY PercentNat
<1>2. HoldPercentage(t, order) \in Nat
  BY <1>1 DEF HoldPercentage, Least, OfCents, AllTerms
<1> QED
  BY <1>2 DEF HoldDiscount, Least, OfCents, OfOrder, AllTerms

(* The database rounds what is taken off and what is left.                 *)
LEMMA RoundedAmounts ==
    ASSUME NEW t \in AllTerms, NEW order \in Nat, t.cap >= 0
    PROVE  LET p == Amounts(t, order)
           IN  /\ p.final \in 0..p.original
               /\ p.discount <= p.original => p.discount + p.final - p.original \in {0, 1}
               /\ p.discount > p.original => p.final = 0
<1> DEFINE off == HoldDiscount(t, order)
<1>1. off \in Nat
  BY DiscountNat
<1>2. Amounts(t, order) =
         [original |-> InCents(OfOrder(order)), discount |-> InCents(off),
          final |-> InCents(Most(0, OfOrder(order) - off))]
  BY DEF Amounts, HoldFinal
<1> HIDE DEF off
<1>3. InCents(OfOrder(order)) = 100 * order
  BY DEF InCents, Rounded, OfOrder
<1>4. InCents(off) = (2 * off + 100) \div 200
  BY <1>1 DEF InCents, Rounded
<1>5. CASE off <= OfOrder(order)
  <2>1. InCents(Most(0, OfOrder(order) - off)) = (2 * (10000 * order - off) + 100) \div 200
    BY <1>1, <1>5 DEF InCents, Rounded, OfOrder, Most
  <2> QED
    BY <1>1, <1>2, <1>3, <1>4, <1>5, <2>1 DEF OfOrder
<1>6. CASE off > OfOrder(order)
  <2>1. InCents(Most(0, OfOrder(order) - off)) = 0
    BY <1>1, <1>6 DEF InCents, Rounded, OfOrder, Most
  <2> QED
    BY <1>1, <1>2, <1>3, <1>4, <1>6, <2>1 DEF OfOrder
<1> QED
  BY <1>1, <1>5, <1>6 DEF OfOrder

----------------------------------------------------------------------------
(* What a step can be.  Refusals, faults and aborted transactions end a     *)
(* request and change nothing else.                                        *)
Quiet == UNCHANGED <<discountVars, bookingVars, histVars>> /\ faults' \in 0..MaxFaults

Ended(q) == step[q] \notin {"new", "done"} /\ End(q) /\ Quiet

Stuck(q) == op[q] = "expire" /\ Goto(q, "stuck") /\ Quiet

CodeFree(q) == step[q] = "find_code" /\ Goto(q, "save") /\ Quiet

Locks(q) ==
    /\ step[q] = "delete" /\ ~Pinned(on[q]) /\ on[q] \in rows
    /\ Goto(q, "nulling")
    /\ Quiet

Takes(q) ==
    /\ step[q] = "queued" /\ status[on[q]] = "PENDING"
    /\ step' = [step EXCEPT ![q] = "save_closed"]
    /\ link' = [link EXCEPT ![q] = ref[on[q]]]
    /\ UNCHANGED <<op, on, loaded, count, stale>>
    /\ Quiet

LEMMA FailKinds ==
    ASSUME NEW q \in Request, step[q] \notin {"new", "done"}, Fail(q), Quiet
    PROVE  Ended(q) \/ Stuck(q)
  BY DEF Fail, Ended, Stuck

LEMMA StepKinds ==
    ASSUME DiscountTypeOK, [Next]_vars
    PROVE  \/ \E q \in Request, s \in Settings :
                 \/ Create(q, s)
                 \/ \E d \in rows : Update(q, d, s) \/ Switch(q, d, s)
           \/ \E q \in Request, d \in rows :
                 Remove(q, d) \/ \E seats \in Baskets : HoldRead(q, d, seats)
           \/ \E q, r \in Request : Settle(q, r) \/ Cancel(q, r) \/ Expire(q, r)
           \/ \E q \in Request :
                 \/ Insert(q) \/ SaveRow(q) \/ DeleteCommit(q) \/ InsertHold(q)
                 \/ SavePaid(q) \/ SettleCommit(q) \/ CloseSave(q)
                 \/ CodeFree(q) \/ Locks(q) \/ Takes(q) \/ Stuck(q) \/ Ended(q)
           \/ DeleteShowtime \/ Crash \/ UNCHANGED vars
<1> USE PricingAssumption DEF DiscountTypeOK
<1>1. ASSUME NEW q \in Request, FindCode(q) PROVE CodeFree(q) \/ Ended(q)
  BY <1>1 DEF FindCode, CodeFree, Ended, Quiet
<1>2. ASSUME NEW q \in Request, SaveRowRefused(q) PROVE Ended(q)
  BY <1>2 DEF SaveRowRefused, Ended, Quiet
<1>3. ASSUME NEW q \in Request, Delete(q) PROVE Locks(q) \/ Ended(q)
  BY <1>3 DEF Delete, Locks, Ended, Quiet
<1>4. ASSUME NEW q \in Request, HoldRefused(q) PROVE Ended(q)
  BY <1>4 DEF HoldRefused, Ended, Quiet
<1>5. ASSUME NEW q \in Request, ExpireRead(q) PROVE Takes(q) \/ Ended(q)
  BY <1>5 DEF ExpireRead, Takes, Ended, Quiet
<1>6. ASSUME NEW q \in Request, SaveRefused(q) PROVE Stuck(q) \/ Ended(q)
  <2>1. step[q] \notin {"new", "done"} /\ Fail(q) /\ Quiet
    BY <1>6 DEF SaveRefused, Quiet
  <2> QED
    BY <2>1, FailKinds
<1>7. ASSUME NEW q \in Request, RequestFault(q) PROVE Stuck(q) \/ Ended(q)
  <2>1. step[q] \notin {"new", "done"} /\ Fail(q) /\ Quiet
    BY <1>7 DEF RequestFault, InProgress, Quiet
  <2> QED
    BY <2>1, FailKinds
<1>8. ASSUME NEW q \in Request, NEW p \in Request, DeadlockAbort(q, p)
      PROVE  Ended(q) \/ Ended(p)
  BY <1>8 DEF DeadlockAbort, Deadlocked, Ended, Quiet
<1>9. CASE UNCHANGED vars
  BY <1>9
<1>10. CASE Administrator
  BY <1>10 DEF Administrator, Update, Switch
<1>11. CASE Client
  BY <1>11 DEF Client
<1>12. CASE \E q \in Request : DiscountStep(q) \/ BookingStep(q) \/ RequestFault(q)
  BY <1>1, <1>2, <1>3, <1>4, <1>5, <1>6, <1>7, <1>12 DEF DiscountStep, BookingStep
<1> QED
  BY <1>8, <1>9, <1>10, <1>11, <1>12 DEF Next

(* A step keeps every variable to its type.                                *)
LEMMA DiscountTypeStep ==
    DiscountTypeOK /\ StepsMatch /\ [Next]_vars => DiscountTypeOK'
<1> SUFFICES ASSUME DiscountTypeOK, StepsMatch, [Next]_vars
             PROVE  DiscountTypeOK'
  OBVIOUS
<1> USE FirstAssumption, PricingAssumption DEF Steps, Ops, Statuses, Facts,
        Discount, discountVars, bookingVars, requestVars, histVars
<1>1. ASSUME NEW q \in Request, NEW s \in Settings, Create(q, s)
      PROVE  DiscountTypeOK'
  BY <1>1 DEF Create, Begin, DiscountTypeOK
<1>2. ASSUME NEW q \in Request, NEW d \in rows, NEW s \in Settings,
             Update(q, d, s)
      PROVE  DiscountTypeOK'
  BY <1>2 DEF Update, Begin, DiscountTypeOK
<1>3. ASSUME NEW q \in Request, NEW d \in rows, NEW s \in Settings,
             Switch(q, d, s)
      PROVE  DiscountTypeOK'
  BY <1>3 DEF Switch, Begin, DiscountTypeOK
<1>4. ASSUME NEW q \in Request, NEW d \in rows, Remove(q, d)
      PROVE  DiscountTypeOK'
  BY <1>4 DEF Remove, Begin, DiscountTypeOK
<1>5. ASSUME NEW q \in Request, NEW d \in rows, NEW seats \in Baskets,
             HoldRead(q, d, seats)
      PROVE  DiscountTypeOK'
  <2>1. OrderOf(Price, seats) \in Nat
    BY OrderNat
  <2>2. settings[d].terms \in AllTerms
    BY DEF DiscountTypeOK
  <2>3. Amounts(settings[d].terms, OrderOf(Price, seats))
           \in [original : Int, discount : Int, final : Int]
    BY <2>1, <2>2, AmountsType
  <2> QED
    BY <1>5, <2>1, <2>2, <2>3 DEF HoldRead, Begin, DiscountTypeOK
<1>6. ASSUME NEW q \in Request, NEW r \in Request, Settle(q, r)
      PROVE  DiscountTypeOK'
  BY <1>6 DEF Settle, Read, Begin, DiscountTypeOK
<1>7. ASSUME NEW q \in Request, NEW r \in Request, Cancel(q, r)
      PROVE  DiscountTypeOK'
  BY <1>7 DEF Cancel, Read, Begin, DiscountTypeOK
<1>8. ASSUME NEW q \in Request, NEW r \in Request, Expire(q, r)
      PROVE  DiscountTypeOK'
  BY <1>8 DEF Expire, Begin, DiscountTypeOK
<1>9. ASSUME NEW q \in Request, Insert(q) PROVE DiscountTypeOK'
  BY <1>9 DEF Insert, End, Finish, StepsMatch, DiscountTypeOK
<1>10. ASSUME NEW q \in Request, SaveRow(q) PROVE DiscountTypeOK'
  BY <1>10 DEF SaveRow, Saved, Sets, Active, Overtake, Finish, StepsMatch,
      DiscountTypeOK
<1>11. ASSUME NEW q \in Request, DeleteCommit(q) PROVE DiscountTypeOK'
  BY <1>11 DEF DeleteCommit, WaitsForPayment, SetNull, End, Finish,
      DiscountTypeOK
<1>12. ASSUME NEW q \in Request, InsertHold(q) PROVE DiscountTypeOK'
  BY <1>12 DEF InsertHold, End, Finish, DiscountTypeOK
<1>13. ASSUME NEW q \in Request, SavePaid(q) PROVE DiscountTypeOK'
  BY <1>13 DEF SavePaid, Goto, DiscountTypeOK
<1>14. ASSUME NEW q \in Request, SettleCommit(q) PROVE DiscountTypeOK'
  <2>1. used' \in [Discount -> Nat] /\ uses' \in [Discount -> Nat]
    BY <1>14 DEF SettleCommit, CountUse, DiscountTypeOK
  <2>2. stale' \in [Request -> SUBSET Facts]
    BY <1>14 DEF SettleCommit, Overtake, DiscountTypeOK
  <2> QED
    BY <1>14, <2>1, <2>2 DEF SettleCommit, Finish, DiscountTypeOK
<1>15. ASSUME NEW q \in Request, CloseSave(q) PROVE DiscountTypeOK'
  BY <1>15 DEF CloseSave, End, Finish, DiscountTypeOK
<1>16. ASSUME NEW q \in Request, CodeFree(q) PROVE DiscountTypeOK'
  BY <1>16 DEF CodeFree, Quiet, Goto, DiscountTypeOK
<1>17. ASSUME NEW q \in Request, Locks(q) PROVE DiscountTypeOK'
  BY <1>17 DEF Locks, Quiet, Goto, DiscountTypeOK
<1>18. ASSUME NEW q \in Request, Takes(q) PROVE DiscountTypeOK'
  BY <1>18 DEF Takes, Quiet, StepsMatch, DiscountTypeOK
<1>19. ASSUME NEW q \in Request, Stuck(q) PROVE DiscountTypeOK'
  BY <1>19 DEF Stuck, Quiet, Goto, DiscountTypeOK
<1>20. ASSUME NEW q \in Request, Ended(q) PROVE DiscountTypeOK'
  BY <1>20 DEF Ended, Quiet, End, Finish, DiscountTypeOK
<1>21. ASSUME DeleteShowtime PROVE DiscountTypeOK'
  BY <1>21 DEF DeleteShowtime, DiscountTypeOK
<1>22. ASSUME Crash PROVE DiscountTypeOK'
  BY <1>22 DEF Crash, InProgress, DiscountTypeOK
<1>23. CASE UNCHANGED vars
  BY <1>23 DEF vars, DiscountTypeOK
<1> QED
  BY StepKinds, <1>1, <1>2, <1>3, <1>4, <1>5, <1>6, <1>7, <1>8, <1>9, <1>10,
     <1>11, <1>12, <1>13, <1>14, <1>15, <1>16, <1>17, <1>18, <1>19, <1>20,
     <1>21, <1>22, <1>23

(* A step keeps requests and rows in agreement.                            *)
LEMMA StepsMatchStep ==
    DiscountTypeOK /\ StepsMatch /\ SettlingKept /\ [Next]_vars => StepsMatch'
<1> SUFFICES ASSUME DiscountTypeOK, StepsMatch, SettlingKept, [Next]_vars
             PROVE  StepsMatch'
  OBVIOUS
<1> USE FirstAssumption, PricingAssumption DEF Steps, Ops, Statuses, Facts,
        Discount, discountVars, bookingVars, requestVars, histVars
<1>1. ASSUME NEW q \in Request, NEW s \in Settings, Create(q, s)
      PROVE  StepsMatch'
  BY <1>1 DEF Create, Begin, StepsMatch, Updating, DiscountTypeOK
<1>2. ASSUME NEW q \in Request, NEW d \in rows, NEW s \in Settings,
             Update(q, d, s)
      PROVE  StepsMatch'
  BY <1>2 DEF Update, Begin, StepsMatch, Updating, DiscountTypeOK
<1>3. ASSUME NEW q \in Request, NEW d \in rows, NEW s \in Settings,
             Switch(q, d, s)
      PROVE  StepsMatch'
  BY <1>3 DEF Switch, Begin, StepsMatch, Updating, DiscountTypeOK
<1>4. ASSUME NEW q \in Request, NEW d \in rows, Remove(q, d) PROVE StepsMatch'
  BY <1>4 DEF Remove, Begin, StepsMatch, Updating, DiscountTypeOK
<1>5. ASSUME NEW q \in Request, NEW d \in rows, NEW seats \in Baskets,
             HoldRead(q, d, seats)
      PROVE  StepsMatch'
  BY <1>5 DEF HoldRead, Begin, StepsMatch, Updating, DiscountTypeOK
<1>6. ASSUME NEW q \in Request, NEW r \in Request, Settle(q, r)
      PROVE  StepsMatch'
  BY <1>6 DEF Settle, Read, Begin, StepsMatch, Updating, DiscountTypeOK
<1>7. ASSUME NEW q \in Request, NEW r \in Request, Cancel(q, r)
      PROVE  StepsMatch'
  BY <1>7 DEF Cancel, Read, Begin, StepsMatch, Updating, DiscountTypeOK
<1>8. ASSUME NEW q \in Request, NEW r \in Request, Expire(q, r)
      PROVE  StepsMatch'
  BY <1>8 DEF Expire, Begin, StepsMatch, Updating, DiscountTypeOK
<1>9. ASSUME NEW q \in Request, Insert(q) PROVE StepsMatch'
  BY <1>9 DEF Insert, End, Finish, StepsMatch, Updating, DiscountTypeOK
<1>10. ASSUME NEW q \in Request, SaveRow(q) PROVE StepsMatch'
  BY <1>10 DEF SaveRow, Saved, Sets, Active, Overtake, Finish, StepsMatch,
      Updating, DiscountTypeOK
<1>11. ASSUME NEW q \in Request, DeleteCommit(q) PROVE StepsMatch'
  BY <1>11 DEF DeleteCommit, WaitsForPayment, SetNull, End, Finish, StepsMatch,
      Updating, DiscountTypeOK
<1>12. ASSUME NEW q \in Request, InsertHold(q) PROVE StepsMatch'
  BY <1>12 DEF InsertHold, End, Finish, StepsMatch, Updating, DiscountTypeOK
<1>13. ASSUME NEW q \in Request, SavePaid(q) PROVE StepsMatch'
  BY <1>13 DEF SavePaid, Goto, StepsMatch, Updating, DiscountTypeOK
<1>14. ASSUME NEW q \in Request, SettleCommit(q) PROVE StepsMatch'
  BY <1>14 DEF SettleCommit, WaitsForRemoval, CountUse, Overtake, Finish,
      SettlingKept, StepsMatch, Updating, DiscountTypeOK
<1>15. ASSUME NEW q \in Request, CloseSave(q) PROVE StepsMatch'
  BY <1>15 DEF CloseSave, End, Finish, Writable, StepsMatch, Updating,
      DiscountTypeOK
<1>16. ASSUME NEW q \in Request, CodeFree(q) PROVE StepsMatch'
  BY <1>16 DEF CodeFree, Quiet, Goto, StepsMatch, Updating, DiscountTypeOK
<1>17. ASSUME NEW q \in Request, Locks(q) PROVE StepsMatch'
  BY <1>17 DEF Locks, Quiet, Goto, StepsMatch, Updating, DiscountTypeOK
<1>18. ASSUME NEW q \in Request, Takes(q) PROVE StepsMatch'
  BY <1>18 DEF Takes, Quiet, StepsMatch, Updating, DiscountTypeOK
<1>19. ASSUME NEW q \in Request, Stuck(q) PROVE StepsMatch'
  BY <1>19 DEF Stuck, Quiet, Goto, StepsMatch, Updating, DiscountTypeOK
<1>20. ASSUME NEW q \in Request, Ended(q) PROVE StepsMatch'
  BY <1>20 DEF Ended, Quiet, End, Finish, StepsMatch, Updating, DiscountTypeOK
<1>21. ASSUME DeleteShowtime PROVE StepsMatch'
  BY <1>21 DEF DeleteShowtime, StepsMatch, Updating, DiscountTypeOK
<1>22. ASSUME Crash PROVE StepsMatch'
  BY <1>22 DEF Crash, InProgress, StepsMatch, Updating, DiscountTypeOK
<1>23. CASE UNCHANGED vars
  BY <1>23 DEF vars, StepsMatch, Updating, DiscountTypeOK
<1> QED
  BY StepKinds, <1>1, <1>2, <1>3, <1>4, <1>5, <1>6, <1>7, <1>8, <1>9, <1>10,
     <1>11, <1>12, <1>13, <1>14, <1>15, <1>16, <1>17, <1>18, <1>19, <1>20,
     <1>21, <1>22, <1>23

(* A step gives no code to two discounts.                                  *)
LEMMA CodesApartStep ==
    DiscountTypeOK /\ StepsMatch /\ CodesApart /\ [Next]_vars => CodesApart'
<1> SUFFICES ASSUME DiscountTypeOK, StepsMatch, CodesApart, [Next]_vars
             PROVE  CodesApart'
  OBVIOUS
<1> USE FirstAssumption, PricingAssumption DEF Steps, Ops, Statuses, Facts,
        Discount, discountVars, bookingVars, requestVars, histVars
<1>1. ASSUME NEW q \in Request, NEW s \in Settings, Create(q, s)
      PROVE  CodesApart'
  BY <1>1 DEF Create, Begin, CodesApart
<1>2. ASSUME NEW q \in Request, NEW d \in rows, NEW s \in Settings,
             Update(q, d, s)
      PROVE  CodesApart'
  BY <1>2 DEF Update, Begin, CodesApart
<1>3. ASSUME NEW q \in Request, NEW d \in rows, NEW s \in Settings,
             Switch(q, d, s)
      PROVE  CodesApart'
  BY <1>3 DEF Switch, Begin, CodesApart
<1>4. ASSUME NEW q \in Request, NEW d \in rows, Remove(q, d) PROVE CodesApart'
  BY <1>4 DEF Remove, Begin, CodesApart
<1>5. ASSUME NEW q \in Request, NEW d \in rows, NEW seats \in Baskets,
             HoldRead(q, d, seats)
      PROVE  CodesApart'
  BY <1>5 DEF HoldRead, Begin, CodesApart
<1>6. ASSUME NEW q \in Request, NEW r \in Request, Settle(q, r)
      PROVE  CodesApart'
  BY <1>6 DEF Settle, Read, Begin, CodesApart
<1>7. ASSUME NEW q \in Request, NEW r \in Request, Cancel(q, r)
      PROVE  CodesApart'
  BY <1>7 DEF Cancel, Read, Begin, CodesApart
<1>8. ASSUME NEW q \in Request, NEW r \in Request, Expire(q, r)
      PROVE  CodesApart'
  BY <1>8 DEF Expire, Begin, CodesApart
<1>9. ASSUME NEW q \in Request, Insert(q) PROVE CodesApart'
  BY <1>9 DEF Insert, End, Finish, IndexAllows, StepsMatch, DiscountTypeOK,
      CodesApart
<1>10. ASSUME NEW q \in Request, SaveRow(q) PROVE CodesApart'
  BY <1>10 DEF SaveRow, Saved, Sets, Active, Overtake, Finish, IndexAllows,
      StepsMatch, DiscountTypeOK, CodesApart
<1>11. ASSUME NEW q \in Request, DeleteCommit(q) PROVE CodesApart'
  BY <1>11 DEF DeleteCommit, WaitsForPayment, SetNull, End, Finish, CodesApart
<1>12. ASSUME NEW q \in Request, InsertHold(q) PROVE CodesApart'
  BY <1>12 DEF InsertHold, End, Finish, CodesApart
<1>13. ASSUME NEW q \in Request, SavePaid(q) PROVE CodesApart'
  BY <1>13 DEF SavePaid, Goto, CodesApart
<1>14. ASSUME NEW q \in Request, SettleCommit(q) PROVE CodesApart'
  BY <1>14 DEF SettleCommit, WaitsForRemoval, CountUse, Overtake, Finish,
      CodesApart
<1>15. ASSUME NEW q \in Request, CloseSave(q) PROVE CodesApart'
  BY <1>15 DEF CloseSave, End, Finish, CodesApart
<1>16. ASSUME NEW q \in Request, CodeFree(q) PROVE CodesApart'
  BY <1>16 DEF CodeFree, Quiet, Goto, CodesApart
<1>17. ASSUME NEW q \in Request, Locks(q) PROVE CodesApart'
  BY <1>17 DEF Locks, Quiet, Goto, CodesApart
<1>18. ASSUME NEW q \in Request, Takes(q) PROVE CodesApart'
  BY <1>18 DEF Takes, Quiet, CodesApart
<1>19. ASSUME NEW q \in Request, Stuck(q) PROVE CodesApart'
  BY <1>19 DEF Stuck, Quiet, Goto, CodesApart
<1>20. ASSUME NEW q \in Request, Ended(q) PROVE CodesApart'
  BY <1>20 DEF Ended, Quiet, End, Finish, CodesApart
<1>21. ASSUME DeleteShowtime PROVE CodesApart'
  BY <1>21 DEF DeleteShowtime, CodesApart
<1>22. ASSUME Crash PROVE CodesApart'
  BY <1>22 DEF Crash, InProgress, CodesApart
<1>23. CASE UNCHANGED vars
  BY <1>23 DEF vars, CodesApart
<1> QED
  BY StepKinds, <1>1, <1>2, <1>3, <1>4, <1>5, <1>6, <1>7, <1>8, <1>9, <1>10,
     <1>11, <1>12, <1>13, <1>14, <1>15, <1>16, <1>17, <1>18, <1>19, <1>20,
     <1>21, <1>22, <1>23

(* A step leaves a payment under way its reservation and its discount.     *)
LEMMA SettlingStep ==
    DiscountTypeOK /\ StepsMatch /\ ReferencesStand /\ SettlingKept /\ [Next]_vars
        => SettlingKept'
<1> SUFFICES ASSUME DiscountTypeOK, StepsMatch, ReferencesStand, SettlingKept,
                   [Next]_vars
             PROVE  SettlingKept'
  OBVIOUS
<1> USE FirstAssumption, PricingAssumption DEF Steps, Ops, Statuses, Facts,
        Discount, discountVars, bookingVars, requestVars, histVars
<1>1. ASSUME NEW q \in Request, NEW s \in Settings, Create(q, s)
      PROVE  SettlingKept'
  BY <1>1 DEF Create, Begin, SettlingKept, Deleting, DiscountTypeOK
<1>2. ASSUME NEW q \in Request, NEW d \in rows, NEW s \in Settings,
             Update(q, d, s)
      PROVE  SettlingKept'
  BY <1>2 DEF Update, Begin, SettlingKept, Deleting, DiscountTypeOK
<1>3. ASSUME NEW q \in Request, NEW d \in rows, NEW s \in Settings,
             Switch(q, d, s)
      PROVE  SettlingKept'
  BY <1>3 DEF Switch, Begin, SettlingKept, Deleting, DiscountTypeOK
<1>4. ASSUME NEW q \in Request, NEW d \in rows, Remove(q, d) PROVE SettlingKept'
  BY <1>4 DEF Remove, Begin, SettlingKept, Deleting, DiscountTypeOK
<1>5. ASSUME NEW q \in Request, NEW d \in rows, NEW seats \in Baskets,
             HoldRead(q, d, seats)
      PROVE  SettlingKept'
  BY <1>5 DEF HoldRead, Begin, SettlingKept, Deleting, DiscountTypeOK
<1>6. ASSUME NEW q \in Request, NEW r \in Request, Settle(q, r)
      PROVE  SettlingKept'
  BY <1>6 DEF Settle, Read, Begin, SettlingKept, Deleting, DiscountTypeOK
<1>7. ASSUME NEW q \in Request, NEW r \in Request, Cancel(q, r)
      PROVE  SettlingKept'
  BY <1>7 DEF Cancel, Read, Begin, SettlingKept, Deleting, DiscountTypeOK
<1>8. ASSUME NEW q \in Request, NEW r \in Request, Expire(q, r)
      PROVE  SettlingKept'
  BY <1>8 DEF Expire, Begin, SettlingKept, Deleting, DiscountTypeOK
<1>9. ASSUME NEW q \in Request, Insert(q) PROVE SettlingKept'
  BY <1>9 DEF Insert, End, Finish, SettlingKept, Deleting, DiscountTypeOK
<1>10. ASSUME NEW q \in Request, SaveRow(q) PROVE SettlingKept'
  BY <1>10 DEF SaveRow, Saved, Sets, Active, Overtake, Finish, SettlingKept,
      Deleting, DiscountTypeOK
<1>11. ASSUME NEW q \in Request, DeleteCommit(q) PROVE SettlingKept'
  BY <1>11 DEF DeleteCommit, WaitsForPayment, SetNull, End, Finish, RowLocked,
      StepsMatch, SettlingKept, Deleting, DiscountTypeOK
<1>12. ASSUME NEW q \in Request, InsertHold(q) PROVE SettlingKept'
  BY <1>12 DEF InsertHold, End, Finish, RowLocked, StepsMatch, SettlingKept,
      Deleting, DiscountTypeOK
<1>13. ASSUME NEW q \in Request, SavePaid(q) PROVE SettlingKept'
  BY <1>13 DEF SavePaid, Goto, RowLocked, StepsMatch, Writable, ReferencesStand,
      SettlingKept, Deleting, DiscountTypeOK
<1>14. ASSUME NEW q \in Request, SettleCommit(q) PROVE SettlingKept'
  BY <1>14 DEF SettleCommit, WaitsForRemoval, CountUse, Overtake, Finish,
      SettlingKept, Deleting, DiscountTypeOK
<1>15. ASSUME NEW q \in Request, CloseSave(q) PROVE SettlingKept'
  BY <1>15 DEF CloseSave, End, Finish, RowLocked, StepsMatch, Writable,
      SettlingKept, Deleting, DiscountTypeOK
<1>16. ASSUME NEW q \in Request, CodeFree(q) PROVE SettlingKept'
  BY <1>16 DEF CodeFree, Quiet, Goto, SettlingKept, Deleting, DiscountTypeOK
<1>17. ASSUME NEW q \in Request, Locks(q) PROVE SettlingKept'
  BY <1>17 DEF Locks, Quiet, Goto, Pinned, StepsMatch, SettlingKept, Deleting,
      DiscountTypeOK
<1>18. ASSUME NEW q \in Request, Takes(q) PROVE SettlingKept'
  BY <1>18 DEF Takes, Quiet, SettlingKept, Deleting, DiscountTypeOK
<1>19. ASSUME NEW q \in Request, Stuck(q) PROVE SettlingKept'
  BY <1>19 DEF Stuck, Quiet, Goto, SettlingKept, Deleting, DiscountTypeOK
<1>20. ASSUME NEW q \in Request, Ended(q) PROVE SettlingKept'
  BY <1>20 DEF Ended, Quiet, End, Finish, SettlingKept, Deleting, DiscountTypeOK
<1>21. ASSUME DeleteShowtime PROVE SettlingKept'
  BY <1>21 DEF DeleteShowtime, RowLocked, StepsMatch, SettlingKept, Deleting,
      DiscountTypeOK
<1>22. ASSUME Crash PROVE SettlingKept'
  BY <1>22 DEF Crash, InProgress, SettlingKept, Deleting, DiscountTypeOK
<1>23. CASE UNCHANGED vars
  BY <1>23 DEF vars, SettlingKept, Deleting, DiscountTypeOK
<1> QED
  BY StepKinds, <1>1, <1>2, <1>3, <1>4, <1>5, <1>6, <1>7, <1>8, <1>9, <1>10,
     <1>11, <1>12, <1>13, <1>14, <1>15, <1>16, <1>17, <1>18, <1>19, <1>20,
     <1>21, <1>22, <1>23

(* A step leaves no reservation with a discount that is gone.              *)
LEMMA ReferencesStep ==
    DiscountTypeOK /\ StepsMatch /\ SettlingKept /\ ReferencesStand /\ [Next]_vars
        => ReferencesStand'
<1> SUFFICES ASSUME DiscountTypeOK, StepsMatch, SettlingKept, ReferencesStand,
                   [Next]_vars
             PROVE  ReferencesStand'
  OBVIOUS
<1> USE FirstAssumption, PricingAssumption DEF Steps, Ops, Statuses, Facts,
        Discount, discountVars, bookingVars, requestVars, histVars
<1>1. ASSUME NEW q \in Request, NEW s \in Settings, Create(q, s)
      PROVE  ReferencesStand'
  BY <1>1 DEF Create, Begin, ReferencesStand, DiscountTypeOK
<1>2. ASSUME NEW q \in Request, NEW d \in rows, NEW s \in Settings,
             Update(q, d, s)
      PROVE  ReferencesStand'
  BY <1>2 DEF Update, Begin, ReferencesStand, DiscountTypeOK
<1>3. ASSUME NEW q \in Request, NEW d \in rows, NEW s \in Settings,
             Switch(q, d, s)
      PROVE  ReferencesStand'
  BY <1>3 DEF Switch, Begin, ReferencesStand, DiscountTypeOK
<1>4. ASSUME NEW q \in Request, NEW d \in rows, Remove(q, d)
      PROVE  ReferencesStand'
  BY <1>4 DEF Remove, Begin, ReferencesStand, DiscountTypeOK
<1>5. ASSUME NEW q \in Request, NEW d \in rows, NEW seats \in Baskets,
             HoldRead(q, d, seats)
      PROVE  ReferencesStand'
  BY <1>5 DEF HoldRead, Begin, ReferencesStand, DiscountTypeOK
<1>6. ASSUME NEW q \in Request, NEW r \in Request, Settle(q, r)
      PROVE  ReferencesStand'
  BY <1>6 DEF Settle, Read, Begin, ReferencesStand, DiscountTypeOK
<1>7. ASSUME NEW q \in Request, NEW r \in Request, Cancel(q, r)
      PROVE  ReferencesStand'
  BY <1>7 DEF Cancel, Read, Begin, ReferencesStand, DiscountTypeOK
<1>8. ASSUME NEW q \in Request, NEW r \in Request, Expire(q, r)
      PROVE  ReferencesStand'
  BY <1>8 DEF Expire, Begin, ReferencesStand, DiscountTypeOK
<1>9. ASSUME NEW q \in Request, Insert(q) PROVE ReferencesStand'
  BY <1>9 DEF Insert, End, Finish, ReferencesStand, DiscountTypeOK
<1>10. ASSUME NEW q \in Request, SaveRow(q) PROVE ReferencesStand'
  BY <1>10 DEF SaveRow, Saved, Sets, Active, Overtake, Finish, ReferencesStand,
      DiscountTypeOK
<1>11. ASSUME NEW q \in Request, DeleteCommit(q) PROVE ReferencesStand'
  BY <1>11 DEF DeleteCommit, WaitsForPayment, SetNull, End, Finish,
      ReferencesStand, DiscountTypeOK
<1>12. ASSUME NEW q \in Request, InsertHold(q) PROVE ReferencesStand'
  BY <1>12 DEF InsertHold, End, Finish, ReferencesStand, DiscountTypeOK
<1>13. ASSUME NEW q \in Request, SavePaid(q) PROVE ReferencesStand'
  BY <1>13 DEF SavePaid, Goto, Writable, ReferencesStand, DiscountTypeOK
<1>14. ASSUME NEW q \in Request, SettleCommit(q) PROVE ReferencesStand'
  BY <1>14 DEF SettleCommit, WaitsForRemoval, CountUse, Overtake, Finish,
      SettlingKept, StepsMatch, ReferencesStand, DiscountTypeOK
<1>15. ASSUME NEW q \in Request, CloseSave(q) PROVE ReferencesStand'
  BY <1>15 DEF CloseSave, End, Finish, Writable, StepsMatch, ReferencesStand,
      DiscountTypeOK
<1>16. ASSUME NEW q \in Request, CodeFree(q) PROVE ReferencesStand'
  BY <1>16 DEF CodeFree, Quiet, Goto, ReferencesStand, DiscountTypeOK
<1>17. ASSUME NEW q \in Request, Locks(q) PROVE ReferencesStand'
  BY <1>17 DEF Locks, Quiet, Goto, ReferencesStand, DiscountTypeOK
<1>18. ASSUME NEW q \in Request, Takes(q) PROVE ReferencesStand'
  BY <1>18 DEF Takes, Quiet, ReferencesStand, DiscountTypeOK
<1>19. ASSUME NEW q \in Request, Stuck(q) PROVE ReferencesStand'
  BY <1>19 DEF Stuck, Quiet, Goto, ReferencesStand, DiscountTypeOK
<1>20. ASSUME NEW q \in Request, Ended(q) PROVE ReferencesStand'
  BY <1>20 DEF Ended, Quiet, End, Finish, ReferencesStand, DiscountTypeOK
<1>21. ASSUME DeleteShowtime PROVE ReferencesStand'
  BY <1>21 DEF DeleteShowtime, ReferencesStand, DiscountTypeOK
<1>22. ASSUME Crash PROVE ReferencesStand'
  BY <1>22 DEF Crash, InProgress, ReferencesStand, DiscountTypeOK
<1>23. CASE UNCHANGED vars
  BY <1>23 DEF vars, ReferencesStand, DiscountTypeOK
<1> QED
  BY StepKinds, <1>1, <1>2, <1>3, <1>4, <1>5, <1>6, <1>7, <1>8, <1>9, <1>10,
     <1>11, <1>12, <1>13, <1>14, <1>15, <1>16, <1>17, <1>18, <1>19, <1>20,
     <1>21, <1>22, <1>23

(* A step counts each committed payment once, or spoils the count.         *)
LEMMA UsesStep ==
    DiscountTypeOK /\ StepsMatch /\ UsesRead /\ [Next]_vars => UsesRead'
<1> SUFFICES ASSUME DiscountTypeOK, StepsMatch, UsesRead, [Next]_vars
             PROVE  UsesRead'
  OBVIOUS
<1> USE FirstAssumption, PricingAssumption DEF Steps, Ops, Statuses, Facts,
        Discount, discountVars, bookingVars, requestVars, histVars
<1>1. ASSUME NEW q \in Request, NEW s \in Settings, Create(q, s) PROVE UsesRead'
  BY <1>1 DEF Create, Begin, UsesRead, Updating, DiscountTypeOK
<1>2. ASSUME NEW q \in Request, NEW d \in rows, NEW s \in Settings,
             Update(q, d, s)
      PROVE  UsesRead'
  BY <1>2 DEF Update, Begin, UsesRead, Updating, DiscountTypeOK
<1>3. ASSUME NEW q \in Request, NEW d \in rows, NEW s \in Settings,
             Switch(q, d, s)
      PROVE  UsesRead'
  BY <1>3 DEF Switch, Begin, UsesRead, Updating, DiscountTypeOK
<1>4. ASSUME NEW q \in Request, NEW d \in rows, Remove(q, d) PROVE UsesRead'
  BY <1>4 DEF Remove, Begin, UsesRead, Updating, DiscountTypeOK
<1>5. ASSUME NEW q \in Request, NEW d \in rows, NEW seats \in Baskets,
             HoldRead(q, d, seats)
      PROVE  UsesRead'
  BY <1>5 DEF HoldRead, Begin, UsesRead, Updating, DiscountTypeOK
<1>6. ASSUME NEW q \in Request, NEW r \in Request, Settle(q, r) PROVE UsesRead'
  BY <1>6 DEF Settle, Read, Begin, UsesRead, Updating, DiscountTypeOK
<1>7. ASSUME NEW q \in Request, NEW r \in Request, Cancel(q, r) PROVE UsesRead'
  BY <1>7 DEF Cancel, Read, Begin, UsesRead, Updating, DiscountTypeOK
<1>8. ASSUME NEW q \in Request, NEW r \in Request, Expire(q, r) PROVE UsesRead'
  BY <1>8 DEF Expire, Begin, UsesRead, Updating, DiscountTypeOK
<1>9. ASSUME NEW q \in Request, Insert(q) PROVE UsesRead'
  BY <1>9 DEF Insert, End, Finish, UsesRead, Updating, DiscountTypeOK
<1>10. ASSUME NEW q \in Request, SaveRow(q) PROVE UsesRead'
  BY <1>10 DEF SaveRow, Saved, Sets, Active, Overtake, Finish, StepsMatch,
      UsesRead, Updating, DiscountTypeOK
<1>11. ASSUME NEW q \in Request, DeleteCommit(q) PROVE UsesRead'
  BY <1>11 DEF DeleteCommit, WaitsForPayment, SetNull, End, Finish, UsesRead,
      Updating, DiscountTypeOK
<1>12. ASSUME NEW q \in Request, InsertHold(q) PROVE UsesRead'
  BY <1>12 DEF InsertHold, End, Finish, UsesRead, Updating, DiscountTypeOK
<1>13. ASSUME NEW q \in Request, SavePaid(q) PROVE UsesRead'
  BY <1>13 DEF SavePaid, Goto, UsesRead, Updating, DiscountTypeOK
<1>14. ASSUME NEW q \in Request, SettleCommit(q) PROVE UsesRead'
  BY <1>14 DEF SettleCommit, WaitsForRemoval, CountUse, Overtake, Finish,
      UsesRead, Updating, DiscountTypeOK
<1>15. ASSUME NEW q \in Request, CloseSave(q) PROVE UsesRead'
  BY <1>15 DEF CloseSave, End, Finish, UsesRead, Updating, DiscountTypeOK
<1>16. ASSUME NEW q \in Request, CodeFree(q) PROVE UsesRead'
  BY <1>16 DEF CodeFree, Quiet, Goto, UsesRead, Updating, DiscountTypeOK
<1>17. ASSUME NEW q \in Request, Locks(q) PROVE UsesRead'
  BY <1>17 DEF Locks, Quiet, Goto, UsesRead, Updating, DiscountTypeOK
<1>18. ASSUME NEW q \in Request, Takes(q) PROVE UsesRead'
  BY <1>18 DEF Takes, Quiet, UsesRead, Updating, DiscountTypeOK
<1>19. ASSUME NEW q \in Request, Stuck(q) PROVE UsesRead'
  BY <1>19 DEF Stuck, Quiet, Goto, UsesRead, Updating, DiscountTypeOK
<1>20. ASSUME NEW q \in Request, Ended(q) PROVE UsesRead'
  BY <1>20 DEF Ended, Quiet, End, Finish, UsesRead, Updating, DiscountTypeOK
<1>21. ASSUME DeleteShowtime PROVE UsesRead'
  BY <1>21 DEF DeleteShowtime, UsesRead, Updating, DiscountTypeOK
<1>22. ASSUME Crash PROVE UsesRead'
  BY <1>22 DEF Crash, InProgress, UsesRead, Updating, DiscountTypeOK
<1>23. CASE UNCHANGED vars
  BY <1>23 DEF vars, UsesRead, Updating, DiscountTypeOK
<1> QED
  BY StepKinds, <1>1, <1>2, <1>3, <1>4, <1>5, <1>6, <1>7, <1>8, <1>9, <1>10,
     <1>11, <1>12, <1>13, <1>14, <1>15, <1>16, <1>17, <1>18, <1>19, <1>20,
     <1>21, <1>22, <1>23

(* A step leaves isActive as it was set, or spoils it.                     *)
LEMMA ActiveStep ==
    DiscountTypeOK /\ StepsMatch /\ ActiveRead /\ [Next]_vars => ActiveRead'
<1> SUFFICES ASSUME DiscountTypeOK, StepsMatch, ActiveRead, [Next]_vars
             PROVE  ActiveRead'
  OBVIOUS
<1> USE FirstAssumption, PricingAssumption DEF Steps, Ops, Statuses, Facts,
        Discount, discountVars, bookingVars, requestVars, histVars
<1>1. ASSUME NEW q \in Request, NEW s \in Settings, Create(q, s)
      PROVE  ActiveRead'
  BY <1>1 DEF Create, Begin, ActiveRead, Updating, DiscountTypeOK
<1>2. ASSUME NEW q \in Request, NEW d \in rows, NEW s \in Settings,
             Update(q, d, s)
      PROVE  ActiveRead'
  BY <1>2 DEF Update, Begin, ActiveRead, Updating, DiscountTypeOK
<1>3. ASSUME NEW q \in Request, NEW d \in rows, NEW s \in Settings,
             Switch(q, d, s)
      PROVE  ActiveRead'
  BY <1>3 DEF Switch, Begin, ActiveRead, Updating, DiscountTypeOK
<1>4. ASSUME NEW q \in Request, NEW d \in rows, Remove(q, d) PROVE ActiveRead'
  BY <1>4 DEF Remove, Begin, ActiveRead, Updating, DiscountTypeOK
<1>5. ASSUME NEW q \in Request, NEW d \in rows, NEW seats \in Baskets,
             HoldRead(q, d, seats)
      PROVE  ActiveRead'
  BY <1>5 DEF HoldRead, Begin, ActiveRead, Updating, DiscountTypeOK
<1>6. ASSUME NEW q \in Request, NEW r \in Request, Settle(q, r)
      PROVE  ActiveRead'
  BY <1>6 DEF Settle, Read, Begin, ActiveRead, Updating, DiscountTypeOK
<1>7. ASSUME NEW q \in Request, NEW r \in Request, Cancel(q, r)
      PROVE  ActiveRead'
  BY <1>7 DEF Cancel, Read, Begin, ActiveRead, Updating, DiscountTypeOK
<1>8. ASSUME NEW q \in Request, NEW r \in Request, Expire(q, r)
      PROVE  ActiveRead'
  BY <1>8 DEF Expire, Begin, ActiveRead, Updating, DiscountTypeOK
<1>9. ASSUME NEW q \in Request, Insert(q) PROVE ActiveRead'
  BY <1>9 DEF Insert, End, Finish, StepsMatch, ActiveRead, Updating,
      DiscountTypeOK
<1>10. ASSUME NEW q \in Request, SaveRow(q) PROVE ActiveRead'
  BY <1>10 DEF SaveRow, Saved, Sets, Active, Overtake, Finish, StepsMatch,
      ActiveRead, Updating, DiscountTypeOK
<1>11. ASSUME NEW q \in Request, DeleteCommit(q) PROVE ActiveRead'
  BY <1>11 DEF DeleteCommit, WaitsForPayment, SetNull, End, Finish, ActiveRead,
      Updating, DiscountTypeOK
<1>12. ASSUME NEW q \in Request, InsertHold(q) PROVE ActiveRead'
  BY <1>12 DEF InsertHold, End, Finish, ActiveRead, Updating, DiscountTypeOK
<1>13. ASSUME NEW q \in Request, SavePaid(q) PROVE ActiveRead'
  BY <1>13 DEF SavePaid, Goto, ActiveRead, Updating, DiscountTypeOK
<1>14. ASSUME NEW q \in Request, SettleCommit(q) PROVE ActiveRead'
  BY <1>14 DEF SettleCommit, WaitsForRemoval, CountUse, Overtake, Finish,
      ActiveRead, Updating, DiscountTypeOK
<1>15. ASSUME NEW q \in Request, CloseSave(q) PROVE ActiveRead'
  BY <1>15 DEF CloseSave, End, Finish, ActiveRead, Updating, DiscountTypeOK
<1>16. ASSUME NEW q \in Request, CodeFree(q) PROVE ActiveRead'
  BY <1>16 DEF CodeFree, Quiet, Goto, ActiveRead, Updating, DiscountTypeOK
<1>17. ASSUME NEW q \in Request, Locks(q) PROVE ActiveRead'
  BY <1>17 DEF Locks, Quiet, Goto, ActiveRead, Updating, DiscountTypeOK
<1>18. ASSUME NEW q \in Request, Takes(q) PROVE ActiveRead'
  BY <1>18 DEF Takes, Quiet, ActiveRead, Updating, DiscountTypeOK
<1>19. ASSUME NEW q \in Request, Stuck(q) PROVE ActiveRead'
  BY <1>19 DEF Stuck, Quiet, Goto, ActiveRead, Updating, DiscountTypeOK
<1>20. ASSUME NEW q \in Request, Ended(q) PROVE ActiveRead'
  BY <1>20 DEF Ended, Quiet, End, Finish, ActiveRead, Updating, DiscountTypeOK
<1>21. ASSUME DeleteShowtime PROVE ActiveRead'
  BY <1>21 DEF DeleteShowtime, ActiveRead, Updating, DiscountTypeOK
<1>22. ASSUME Crash PROVE ActiveRead'
  BY <1>22 DEF Crash, InProgress, ActiveRead, Updating, DiscountTypeOK
<1>23. CASE UNCHANGED vars
  BY <1>23 DEF vars, ActiveRead, Updating, DiscountTypeOK
<1> QED
  BY StepKinds, <1>1, <1>2, <1>3, <1>4, <1>5, <1>6, <1>7, <1>8, <1>9, <1>10,
     <1>11, <1>12, <1>13, <1>14, <1>15, <1>16, <1>17, <1>18, <1>19, <1>20,
     <1>21, <1>22, <1>23

(* A step leaves a reservation the amounts that were agreed.               *)
LEMMA PricesStep ==
    DiscountTypeOK /\ StepsMatch /\ SettlingKept /\ PricesAgreed /\ [Next]_vars
        => PricesAgreed'
<1> SUFFICES ASSUME DiscountTypeOK, StepsMatch, SettlingKept, PricesAgreed,
                   [Next]_vars
             PROVE  PricesAgreed'
  OBVIOUS
<1> USE FirstAssumption, PricingAssumption DEF Steps, Ops, Statuses, Facts,
        Discount, discountVars, bookingVars, requestVars, histVars
<1>1. ASSUME NEW q \in Request, NEW s \in Settings, Create(q, s)
      PROVE  PricesAgreed'
  BY <1>1 DEF Create, Begin, PricesAgreed, DiscountTypeOK
<1>2. ASSUME NEW q \in Request, NEW d \in rows, NEW s \in Settings,
             Update(q, d, s)
      PROVE  PricesAgreed'
  BY <1>2 DEF Update, Begin, PricesAgreed, DiscountTypeOK
<1>3. ASSUME NEW q \in Request, NEW d \in rows, NEW s \in Settings,
             Switch(q, d, s)
      PROVE  PricesAgreed'
  BY <1>3 DEF Switch, Begin, PricesAgreed, DiscountTypeOK
<1>4. ASSUME NEW q \in Request, NEW d \in rows, Remove(q, d) PROVE PricesAgreed'
  BY <1>4 DEF Remove, Begin, PricesAgreed, DiscountTypeOK
<1>5. ASSUME NEW q \in Request, NEW d \in rows, NEW seats \in Baskets,
             HoldRead(q, d, seats)
      PROVE  PricesAgreed'
  BY <1>5 DEF HoldRead, Begin, PricesAgreed, DiscountTypeOK
<1>6. ASSUME NEW q \in Request, NEW r \in Request, Settle(q, r)
      PROVE  PricesAgreed'
  BY <1>6 DEF Settle, Read, Begin, PricesAgreed, DiscountTypeOK
<1>7. ASSUME NEW q \in Request, NEW r \in Request, Cancel(q, r)
      PROVE  PricesAgreed'
  BY <1>7 DEF Cancel, Read, Begin, PricesAgreed, DiscountTypeOK
<1>8. ASSUME NEW q \in Request, NEW r \in Request, Expire(q, r)
      PROVE  PricesAgreed'
  BY <1>8 DEF Expire, Begin, PricesAgreed, DiscountTypeOK
<1>9. ASSUME NEW q \in Request, Insert(q) PROVE PricesAgreed'
  BY <1>9 DEF Insert, End, Finish, PricesAgreed, DiscountTypeOK
<1>10. ASSUME NEW q \in Request, SaveRow(q) PROVE PricesAgreed'
  BY <1>10 DEF SaveRow, Saved, Sets, Active, Overtake, Finish, PricesAgreed,
      DiscountTypeOK
<1>11. ASSUME NEW q \in Request, DeleteCommit(q) PROVE PricesAgreed'
  BY <1>11 DEF DeleteCommit, WaitsForPayment, SetNull, End, Finish,
      PricesAgreed, DiscountTypeOK
<1>12. ASSUME NEW q \in Request, InsertHold(q) PROVE PricesAgreed'
  BY <1>12 DEF InsertHold, End, Finish, PricesAgreed, DiscountTypeOK
<1>13. ASSUME NEW q \in Request, SavePaid(q) PROVE PricesAgreed'
  BY <1>13 DEF SavePaid, Goto, PricesAgreed, DiscountTypeOK
<1>14. ASSUME NEW q \in Request, SettleCommit(q) PROVE PricesAgreed'
  BY <1>14 DEF SettleCommit, WaitsForRemoval, CountUse, Overtake, Finish,
      SettlingKept, PricesAgreed, DiscountTypeOK
<1>15. ASSUME NEW q \in Request, CloseSave(q) PROVE PricesAgreed'
  BY <1>15 DEF CloseSave, End, Finish, Writable, PricesAgreed, DiscountTypeOK
<1>16. ASSUME NEW q \in Request, CodeFree(q) PROVE PricesAgreed'
  BY <1>16 DEF CodeFree, Quiet, Goto, PricesAgreed, DiscountTypeOK
<1>17. ASSUME NEW q \in Request, Locks(q) PROVE PricesAgreed'
  BY <1>17 DEF Locks, Quiet, Goto, PricesAgreed, DiscountTypeOK
<1>18. ASSUME NEW q \in Request, Takes(q) PROVE PricesAgreed'
  BY <1>18 DEF Takes, Quiet, PricesAgreed, DiscountTypeOK
<1>19. ASSUME NEW q \in Request, Stuck(q) PROVE PricesAgreed'
  BY <1>19 DEF Stuck, Quiet, Goto, PricesAgreed, DiscountTypeOK
<1>20. ASSUME NEW q \in Request, Ended(q) PROVE PricesAgreed'
  BY <1>20 DEF Ended, Quiet, End, Finish, PricesAgreed, DiscountTypeOK
<1>21. ASSUME DeleteShowtime PROVE PricesAgreed'
  BY <1>21 DEF DeleteShowtime, PricesAgreed, DiscountTypeOK
<1>22. ASSUME Crash PROVE PricesAgreed'
  BY <1>22 DEF Crash, InProgress, PricesAgreed, DiscountTypeOK
<1>23. CASE UNCHANGED vars
  BY <1>23 DEF vars, PricesAgreed, DiscountTypeOK
<1> QED
  BY StepKinds, <1>1, <1>2, <1>3, <1>4, <1>5, <1>6, <1>7, <1>8, <1>9, <1>10,
     <1>11, <1>12, <1>13, <1>14, <1>15, <1>16, <1>17, <1>18, <1>19, <1>20,
     <1>21, <1>22, <1>23

(* A discount that is gone, and that no update in progress has read, stays *)
(* so.                                                                     *)
LEMMA GoneStep ==
    ASSUME DiscountTypeOK, StepsMatch, [Next]_vars, NEW e \in Discount, DiscountGone(e)
    PROVE  DiscountGone(e)'
<1> USE FirstAssumption, PricingAssumption DEF Steps, Ops, Statuses, Facts,
        Discount, discountVars, bookingVars, requestVars, histVars
<1>1. ASSUME NEW q \in Request, NEW s \in Settings, Create(q, s)
      PROVE  DiscountGone(e)'
  BY <1>1 DEF Create, Begin, DiscountGone, StepsMatch, Updating, DiscountTypeOK
<1>2. ASSUME NEW q \in Request, NEW d \in rows, NEW s \in Settings,
             Update(q, d, s)
      PROVE  DiscountGone(e)'
  BY <1>2 DEF Update, Begin, DiscountGone, StepsMatch, Updating, DiscountTypeOK
<1>3. ASSUME NEW q \in Request, NEW d \in rows, NEW s \in Settings,
             Switch(q, d, s)
      PROVE  DiscountGone(e)'
  BY <1>3 DEF Switch, Begin, DiscountGone, StepsMatch, Updating, DiscountTypeOK
<1>4. ASSUME NEW q \in Request, NEW d \in rows, Remove(q, d)
      PROVE  DiscountGone(e)'
  BY <1>4 DEF Remove, Begin, DiscountGone, StepsMatch, Updating, DiscountTypeOK
<1>5. ASSUME NEW q \in Request, NEW d \in rows, NEW seats \in Baskets,
             HoldRead(q, d, seats)
      PROVE  DiscountGone(e)'
  BY <1>5 DEF HoldRead, Begin, DiscountGone, StepsMatch, Updating,
      DiscountTypeOK
<1>6. ASSUME NEW q \in Request, NEW r \in Request, Settle(q, r)
      PROVE  DiscountGone(e)'
  BY <1>6 DEF Settle, Read, Begin, DiscountGone, StepsMatch, Updating,
      DiscountTypeOK
<1>7. ASSUME NEW q \in Request, NEW r \in Request, Cancel(q, r)
      PROVE  DiscountGone(e)'
  BY <1>7 DEF Cancel, Read, Begin, DiscountGone, StepsMatch, Updating,
      DiscountTypeOK
<1>8. ASSUME NEW q \in Request, NEW r \in Request, Expire(q, r)
      PROVE  DiscountGone(e)'
  BY <1>8 DEF Expire, Begin, DiscountGone, StepsMatch, Updating, DiscountTypeOK
<1>9. ASSUME NEW q \in Request, Insert(q) PROVE DiscountGone(e)'
  BY <1>9 DEF Insert, End, Finish, DiscountGone, StepsMatch, Updating,
      DiscountTypeOK
<1>10. ASSUME NEW q \in Request, SaveRow(q) PROVE DiscountGone(e)'
  BY <1>10 DEF SaveRow, Saved, Sets, Active, Overtake, Finish, DiscountGone,
      StepsMatch, Updating, DiscountTypeOK
<1>11. ASSUME NEW q \in Request, DeleteCommit(q) PROVE DiscountGone(e)'
  BY <1>11 DEF DeleteCommit, WaitsForPayment, SetNull, End, Finish,
      DiscountGone, StepsMatch, Updating, DiscountTypeOK
<1>12. ASSUME NEW q \in Request, InsertHold(q) PROVE DiscountGone(e)'
  BY <1>12 DEF InsertHold, End, Finish, DiscountGone, StepsMatch, Updating,
      DiscountTypeOK
<1>13. ASSUME NEW q \in Request, SavePaid(q) PROVE DiscountGone(e)'
  BY <1>13 DEF SavePaid, Goto, DiscountGone, StepsMatch, Updating,
      DiscountTypeOK
<1>14. ASSUME NEW q \in Request, SettleCommit(q) PROVE DiscountGone(e)'
  BY <1>14 DEF SettleCommit, WaitsForRemoval, CountUse, Overtake, Finish,
      DiscountGone, StepsMatch, Updating, DiscountTypeOK
<1>15. ASSUME NEW q \in Request, CloseSave(q) PROVE DiscountGone(e)'
  BY <1>15 DEF CloseSave, End, Finish, DiscountGone, StepsMatch, Updating,
      DiscountTypeOK
<1>16. ASSUME NEW q \in Request, CodeFree(q) PROVE DiscountGone(e)'
  BY <1>16 DEF CodeFree, Quiet, Goto, DiscountGone, StepsMatch, Updating,
      DiscountTypeOK
<1>17. ASSUME NEW q \in Request, Locks(q) PROVE DiscountGone(e)'
  BY <1>17 DEF Locks, Quiet, Goto, DiscountGone, StepsMatch, Updating,
      DiscountTypeOK
<1>18. ASSUME NEW q \in Request, Takes(q) PROVE DiscountGone(e)'
  BY <1>18 DEF Takes, Quiet, DiscountGone, StepsMatch, Updating, DiscountTypeOK
<1>19. ASSUME NEW q \in Request, Stuck(q) PROVE DiscountGone(e)'
  BY <1>19 DEF Stuck, Quiet, Goto, DiscountGone, StepsMatch, Updating,
      DiscountTypeOK
<1>20. ASSUME NEW q \in Request, Ended(q) PROVE DiscountGone(e)'
  BY <1>20 DEF Ended, Quiet, End, Finish, DiscountGone, StepsMatch, Updating,
      DiscountTypeOK
<1>21. ASSUME DeleteShowtime PROVE DiscountGone(e)'
  BY <1>21 DEF DeleteShowtime, DiscountGone, StepsMatch, Updating,
      DiscountTypeOK
<1>22. ASSUME Crash PROVE DiscountGone(e)'
  BY <1>22 DEF Crash, InProgress, DiscountGone, StepsMatch, Updating,
      DiscountTypeOK
<1>23. CASE UNCHANGED vars
  BY <1>23 DEF vars, DiscountGone, StepsMatch, Updating, DiscountTypeOK
<1> QED
  BY StepKinds, <1>1, <1>2, <1>3, <1>4, <1>5, <1>6, <1>7, <1>8, <1>9, <1>10,
     <1>11, <1>12, <1>13, <1>14, <1>15, <1>16, <1>17, <1>18, <1>19, <1>20,
     <1>21, <1>22, <1>23
----------------------------------------------------------------------------
(* The inductive invariant.                                                *)
DiscountInv ==
    /\ DiscountTypeOK /\ StepsMatch /\ SettlingKept
    /\ CodesApart /\ ReferencesStand /\ UsesRead /\ ActiveRead /\ PricesAgreed

LEMMA DiscountInit == Init => DiscountInv
<1> SUFFICES ASSUME Init PROVE DiscountInv
  OBVIOUS
<1> USE FirstAssumption, PricingAssumption DEF Init
<1>1. PICK s \in Settings : settings = [d \in Discount |-> s]
  OBVIOUS
<1>2. s \in [code : Code, terms : AllTerms, limit : Nat, active : BOOLEAN]
  OBVIOUS
<1>3. DiscountTypeOK
  <2>1. settings \in [Discount -> Settings] /\ granted \in [Discount -> BOOLEAN]
    BY <1>1, <1>2
  <2>2. agreed \in [Request -> [terms : AllTerms, order : Nat]]
    BY <1>1, <1>2 DEF Discount
  <2> QED
    BY <2>1, <2>2 DEF DiscountTypeOK, Discount, Statuses, Ops, Steps, Facts, NoAmounts
<1>4. StepsMatch /\ SettlingKept
  BY DEF StepsMatch, SettlingKept, Updating
<1>5. CodesApart /\ ReferencesStand
  BY DEF CodesApart, ReferencesStand
<1>6. UsesRead /\ ActiveRead /\ PricesAgreed
  BY DEF UsesRead, ActiveRead, PricesAgreed, Updating
<1> QED
  BY <1>3, <1>4, <1>5, <1>6 DEF DiscountInv

(* It is one.                                                              *)
THEOREM DiscountInvariant == Spec => []DiscountInv
<1>1. DiscountInv /\ [Next]_vars => DiscountInv'
  BY DiscountTypeStep, StepsMatchStep, SettlingStep, CodesApartStep, ReferencesStep,
     UsesStep, ActiveStep, PricesStep DEF DiscountInv
<1> QED
  BY <1>1, DiscountInit, PTL DEF Spec

(* The types are kept.                                                     *)
THEOREM DiscountTypes == Spec => []DiscountTypeOK
<1>1. DiscountInv => DiscountTypeOK
  BY DEF DiscountInv
<1> QED
  BY <1>1, DiscountInvariant, PTL

(* Creations, changes of code and removals, in any order, leave one        *)
(* discount per code.                                                      *)
THEOREM OneDiscountPerCode == Spec => []CodesApart
<1>1. DiscountInv => CodesApart
  BY DEF DiscountInv
<1> QED
  BY <1>1, DiscountInvariant, PTL

(* No reservation is left with a discount that is gone.                    *)
THEOREM ReferencesKept == Spec => []ReferencesStand
<1>1. DiscountInv => ReferencesStand
  BY DEF DiscountInv
<1> QED
  BY <1>1, DiscountInvariant, PTL

(* Only an administrator's stale update loses a use.                       *)
THEOREM UsesCounted == Spec => []UsesKept
<1>1. DiscountInv => UsesKept
  BY DEF DiscountInv, DiscountTypeOK, UsesRead, UsesKept
<1> QED
  BY <1>1, DiscountInvariant, PTL

(* Only an administrator's stale update switches a discount back.          *)
THEOREM ActiveKept == Spec => []ActiveAsSet
<1>1. DiscountInv => ActiveAsSet
  BY DEF DiscountInv, DiscountTypeOK, ActiveRead, ActiveAsSet
<1> QED
  BY <1>1, DiscountInvariant, PTL

(* A hold costs what a client was told of the same order and terms.        *)
THEOREM QuotesHonoured == Spec => []QuoteHonoured
<1>1. DiscountInv => QuoteHonoured
  <2> SUFFICES ASSUME DiscountInv, NEW r \in Request, status[r] # "NONE"
               PROVE  price[r].final =
                         InCents(QuotedFinal(agreed[r].terms, agreed[r].order))
    BY DEF QuoteHonoured
  <2>1. agreed[r].terms \in AllTerms /\ agreed[r].order \in Nat
    BY DEF DiscountInv, DiscountTypeOK
  <2>2. price[r] = Amounts(agreed[r].terms, agreed[r].order)
    BY DEF DiscountInv, PricesAgreed
  <2> QED
    BY <2>1, <2>2, HoldIsQuoted DEF Amounts
<1> QED
  BY <1>1, DiscountInvariant, PTL

(* The amounts of a reservation add up, but for the rounding.              *)
THEOREM AmountsAgree == Spec => []AmountsAddUp
<1>1. DiscountInv => AmountsAddUp
  <2> SUFFICES ASSUME DiscountInv, NEW r \in Request, status[r] # "NONE",
                      agreed[r].terms.cap >= 0
               PROVE  LET p == price[r]
                      IN  /\ p.final \in 0..p.original
                          /\ p.discount <= p.original =>
                                p.discount + p.final - p.original \in {0, 1}
                          /\ p.discount > p.original => p.final = 0
    BY DEF AmountsAddUp
  <2>1. agreed[r].terms \in AllTerms /\ agreed[r].order \in Nat
    BY DEF DiscountInv, DiscountTypeOK
  <2>2. price[r] = Amounts(agreed[r].terms, agreed[r].order)
    BY DEF DiscountInv, PricesAgreed
  <2> QED
    BY <2>1, <2>2, RoundedAmounts
<1> QED
  BY <1>1, DiscountInvariant, PTL

(* A discount that was removed comes back only with an update that had     *)
(* read it before.                                                         *)
THEOREM RemovedDiscountsStay == Spec => RemovedDiscountStays
<1>1. DiscountInv /\ [Next]_vars
         => [\A d \in Discount : DiscountGone(d) => DiscountGone(d)']_vars
  BY GoneStep DEF DiscountInv
<1> QED
  BY <1>1, DiscountInvariant, PTL DEF Spec, RemovedDiscountStays

(* A payment that waits for a removal waits for one that waits for it.     *)
LEMMA WaitingIsDeadlock ==
    ASSUME DiscountTypeOK, StepsMatch, SettlingKept,
           NEW q \in Request, step[q] = "count", Waits(q)
    PROVE  \E p \in Request : Deadlocked(q, p)
<1>1. PICK p \in Request : step[p] = "nulling" /\ on[p] = link[q]
  BY DEF Waits, WaitsForRemoval, Deleting
<1>2. ref[on[q]] = link[q]
  BY <1>1 DEF SettlingKept, Deleting
<1> QED
  BY <1>1, <1>2 DEF Deadlocked

(* The database's locks never stop the payments and removals that hold     *)
(* them, but for the deadlock of one with one, which Postgres resolves.    *)
THEOREM LockHoldersCanMove == Spec => []LockHoldersMove
<1>1. DiscountInv => LockHoldersMove
  <2> SUFFICES ASSUME DiscountInv, NEW q \in Request, HoldsLocks(q)
               PROVE  \E p \in Request : \/ HoldsLocks(p) /\ ~Waits(p)
                                         \/ \E d \in Request : Deadlocked(p, d)
    BY DEF LockHoldersMove
  <2>1. DiscountTypeOK /\ StepsMatch /\ SettlingKept
    BY DEF DiscountInv
  <2>2. ASSUME NEW p \in Request, step[p] = "count"
        PROVE  ~Waits(p) \/ \E d \in Request : Deadlocked(p, d)
    BY <2>1, <2>2, WaitingIsDeadlock
  <2>3. CASE step[q] = "count"
    BY <2>2, <2>3 DEF HoldsLocks
  <2>4. CASE step[q] = "nulling" /\ Waits(q)
    <3>1. PICK p \in Request : step[p] = "count"
      BY <2>4 DEF Waits, WaitsForPayment, RowLocked
    <3> QED
      BY <2>2, <3>1 DEF HoldsLocks
  <2>5. CASE step[q] = "nulling" /\ ~Waits(q)
    BY <2>5 DEF HoldsLocks
  <2> QED
    BY <2>3, <2>4, <2>5 DEF HoldsLocks
<1> QED
  BY <1>1, DiscountInvariant, PTL
=============================================================================
