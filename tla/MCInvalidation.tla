--------------------------- MODULE MCInvalidation ---------------------------
(* Model values for Invalidation.                                          *)
EXTENDS Invalidation
=============================================================================
