----------------------------- MODULE MCSessions -----------------------------
(* Names for Sessions's constants.                                         *)
EXTENDS Sessions

CONSTANTS ana, r1, r2
=============================================================================
