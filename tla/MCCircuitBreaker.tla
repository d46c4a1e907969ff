--------------------------- MODULE MCCircuitBreaker ---------------------------
(***************************************************************************)
(* Two or three callers, a breaker that opens on the second failure.       *)
(***************************************************************************)
EXTENDS CircuitBreakerRefines

CONSTANTS c1, c2, c3

TwoCallers == {c1, c2}
ThreeCallers == {c1, c2, c3}
=============================================================================
