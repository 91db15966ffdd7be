---------------------------- MODULE Credentials ----------------------------
(***************************************************************************)
(* What an account promises about its password and its reset links, with   *)
(* nothing of how: no rows in memory, no requests in progress, no queue.   *)
(*                                                                         *)
(* A link is drawn and from then on valid for a while; it is stored as the *)
(* account's link, in place of an older one, and mailed to its owner.  A   *)
(* reset is accepted for the account's link only, if that is valid and was *)
(* mailed; once accepted it may still be carried out, once, whatever has   *)
(* become of the link.  Nothing else changes the password of an account,   *)
(* and no password or link that was replaced comes back.                   *)
(***************************************************************************)
CONSTANTS
    Request,  \* those who bring a password or a link along
    Seed,     \* the password of an account that was there before
    None      \* no password, no link

VARIABLES
    open,       \* whether there is an account
    password,   \* its password
    link,       \* its reset link
    spent,      \* the passwords and links it had before
    valid,      \* the links whose time is not over
    mailed,     \* the links its owner was sent
    claims      \* the resets that were accepted and not carried out yet

credentialVars == <<open, password, link, spent, valid, mailed, claims>>

Init ==
    /\ password \in {None, Seed}
    /\ open = (password = Seed)
    /\ link = None
    /\ spent = {} /\ valid = {} /\ mailed = {} /\ claims = {}

Stored == spent \cup {password, link}

Replace(old) == spent' = spent \cup (old \ {None})

(* An account is opened once, with a password or without one.              *)
Open(q) ==
    /\ ~open
    /\ q \notin Stored
    /\ open' = TRUE
    /\ password' \in {None, q}
    /\ UNCHANGED <<link, spent, valid, mailed, claims>>

(* A link's time begins before it is stored, and never again.              *)
Draw(q) ==
    /\ open
    /\ q \notin Stored
    /\ valid' = valid \cup {q}
    /\ UNCHANGED <<open, password, link, spent, mailed, claims>>

Lapse(S) ==
    /\ valid' = valid \ S
    /\ UNCHANGED <<open, password, link, spent, mailed, claims>>

Store(q) ==
    /\ open
    /\ q \notin Stored \cup claims
    /\ link' = q
    /\ Replace({link})
    /\ UNCHANGED <<open, password, valid, mailed, claims>>

(* Only what was stored is mailed.                                         *)
Mail(q) ==
    /\ q = link \/ q \in spent
    /\ mailed' = mailed \cup {q}
    /\ UNCHANGED <<open, password, link, spent, valid, claims>>

Claim(q) ==
    /\ link \in mailed \cap valid
    /\ q \notin Stored
    /\ claims' = claims \cup {q}
    /\ UNCHANGED <<open, password, link, spent, valid, mailed>>

(* The password and the link change together, and the claim is used up.    *)
Redeem(q) ==
    /\ q \in claims
    /\ password' = q
    /\ link' = None
    /\ Replace({password, link})
    /\ claims' = claims \ {q}
    /\ UNCHANGED <<open, valid, mailed>>

(* Resets that were accepted are not carried out.                          *)
GiveUp(S) ==
    /\ claims' = claims \ S
    /\ UNCHANGED <<open, password, link, spent, valid, mailed>>

Next ==
    \/ \E q \in Request :
        Open(q) \/ Draw(q) \/ Store(q) \/ Mail(q) \/ Claim(q) \/ Redeem(q)
    \/ \E S \in SUBSET Request : Lapse(S) \/ GiveUp(S)

Spec == Init /\ [][Next]_credentialVars

----------------------------------------------------------------------------
CredentialTypeOK ==
    /\ open \in BOOLEAN
    /\ password \in Request \cup {None, Seed}
    /\ link \in Request \cup {None}
    /\ spent \subseteq Request \cup {Seed}
    /\ valid \subseteq Request
    /\ mailed \subseteq Request
    /\ claims \subseteq Request

(* What was replaced never comes back, and every mail was about a link that *)
(* the account has or had.                                                 *)
NothingReturns ==
    /\ password \notin spent /\ link \notin spent
    /\ mailed \subseteq spent \cup {link}

(* ... because no reset brings what was stored before, the password and the *)
(* link are never the same, and without an account there is nothing to     *)
(* replace.                                                                *)
ClaimsAreNew ==
    /\ claims \cap Stored = {}
    /\ link = password => link = None
    /\ ~open => password = None /\ link = None /\ claims = {}
=============================================================================
