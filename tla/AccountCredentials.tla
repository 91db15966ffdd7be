------------------------- MODULE AccountCredentials -------------------------
(***************************************************************************)
(* Accounts implements Credentials.  The row's columns are the account's   *)
(* credentials; a link is valid while its resetPasswordExpires is ahead;   *)
(* and a reset is accepted when its look-up has found the row of its link, *)
(* until it saves the row or fails.                                        *)
(***************************************************************************)
EXTENDS Accounts

Valid == {q \in Request : life[q] > 0}

MailedLinks == {q \in mailed : op[q] = "forgot"}

Claims == {q \in Request : op[q] = "reset" /\ step[q] \in {"load", "save"}}

Owner == INSTANCE Credentials WITH
    open <- (account # None), link <- token, valid <- Valid, mailed <- MailedLinks,
    claims <- Claims

(* Through overlapping requests, saves of rows that were loaded before,     *)
(* failures and restarts at any step, the credentials change only as       *)
(* Credentials has it: by the opening of the account, a stored link, or a  *)
(* reset that was accepted for a link which was then the account's, in its *)
(* time and mailed; no change of role or login touches them.               *)
ImplementsCredentials == Owner!Spec
=============================================================================
