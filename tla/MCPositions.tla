---------------------------- MODULE MCPositions ----------------------------
(* Names for Positions's constants.                                        *)
EXTENDS Positions

CONSTANTS d1, d2, h1, h2
=============================================================================
