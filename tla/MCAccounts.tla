----------------------------- MODULE MCAccounts -----------------------------
(* Names for Accounts's constants.                                         *)
EXTENDS Accounts

CONSTANTS r1, r2
=============================================================================
