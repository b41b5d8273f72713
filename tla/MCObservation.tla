--------------------------- MODULE MCObservation ---------------------------
(* Model values for Observation: the nearest file answers, and its answer   *)
(* carries where it came from.                                              *)
EXTENDS Observation

CONSTANT None   \* no override

MCAnswer(m, u, v) ==
  IF v # None THEN <<"environment", v>>
  ELSE IF u # Absent THEN <<User, u>>
  ELSE IF m # Absent THEN <<Machine, m>>
  ELSE <<"default">>
=============================================================================
