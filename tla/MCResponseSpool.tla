--------------------------- MODULE MCResponseSpool ---------------------------
(* One attempt of two items. *)
EXTENDS ResponseSpool, TLC
CONSTANTS i1, i2
=============================================================================
