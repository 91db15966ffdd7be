----------------------------- MODULE MCAccounts -----------------------------
(***************************************************************************)
(* A small instance of Accounts for TLC.                                   *)
(***************************************************************************)
EXTENDS AccountCredentials, TLC

Symmetry == Permutations(Request)
=============================================================================
