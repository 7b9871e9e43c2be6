--------------------------- MODULE MCCircuitBreaker ---------------------------
(***************************************************************************)
(* Three calls, two attempts each, and a breaker that opens at the third   *)
(* failure in a row.                                                       *)
(***************************************************************************)
EXTENDS CircuitBreaker, TLC

CONSTANTS c1, c2, c3

AnyOutcome == {"ok", "transient", "fatal"}
=============================================================================
