------------------------- MODULE CredentialsProofs -------------------------
(***************************************************************************)
(* What Credentials has of an account does keep its promise: no password   *)
(* or link comes back, and no mail is about a link that was never stored.  *)
(***************************************************************************)
EXTENDS Credentials, TLAPS

Promise == CredentialTypeOK /\ NothingReturns /\ ClaimsAreNew

(* One step keeps what is stored apart from what was, and claims new.      *)
LEMMA PromiseStep ==
    ASSUME None \notin Request, Seed \notin Request \cup {None}, Promise,
           [Next]_credentialVars
    PROVE  Promise'
<1> USE DEF Promise, CredentialTypeOK, NothingReturns, ClaimsAreNew, Stored, Replace
<1>1. ASSUME NEW q \in Request, Open(q) PROVE Promise'
  BY <1>1 DEF Open
<1>2. ASSUME NEW q \in Request, Draw(q) PROVE Promise'
  BY <1>2 DEF Draw
<1>3. ASSUME NEW q \in Request, Store(q) PROVE Promise'
  BY <1>3 DEF Store
<1>4. ASSUME NEW q \in Request, Mail(q) PROVE Promise'
  BY <1>4 DEF Mail
<1>5. ASSUME NEW q \in Request, Claim(q) PROVE Promise'
  BY <1>5 DEF Claim
<1>6. ASSUME NEW q \in Request, Redeem(q) PROVE Promise'
  BY <1>6 DEF Redeem
<1>7. ASSUME NEW S \in SUBSET Request, Lapse(S) \/ GiveUp(S) PROVE Promise'
  BY <1>7 DEF Lapse, GiveUp
<1>8. CASE UNCHANGED credentialVars
  BY <1>8 DEF credentialVars
<1> QED
  BY <1>1, <1>2, <1>3, <1>4, <1>5, <1>6, <1>7, <1>8 DEF Next

(* The abstract account never has a password or a link again that it had   *)
(* before, whatever resets are accepted, carried out or given up in        *)
(* between: so the code, which implements it, has that of its row.         *)
THEOREM ReplacedIsReplaced ==
    ASSUME None \notin Request, Seed \notin Request \cup {None}
    PROVE  Spec => []NothingReturns
<1>1. Init => Promise
  BY DEF Init, Promise, CredentialTypeOK, NothingReturns, ClaimsAreNew, Stored
<1>2. Promise /\ [Next]_credentialVars => Promise'
  BY PromiseStep
<1>3. Promise => NothingReturns
  BY DEF Promise
<1> QED
  BY <1>1, <1>2, <1>3, PTL DEF Spec
=============================================================================
