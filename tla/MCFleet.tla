------------------------------ MODULE MCFleet ------------------------------
(* Names for Fleet's constants.                                            *)
EXTENDS Fleet

CONSTANTS i1, i2, v1, v2, u1, u2, r1, r2
=============================================================================
