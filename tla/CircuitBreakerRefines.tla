------------------------- MODULE CircuitBreakerRefines -------------------------
(***************************************************************************)
(* The refinement mapping under which CircuitBreaker implements            *)
(* AbstractBreaker: an admitted call is in flight until it is recorded,    *)
(* and the circuit has cooled down when a request would be let through.    *)
(***************************************************************************)
EXTENDS CircuitBreaker

Saturated == IF failures < MaxFailures THEN failures ELSE MaxFailures

Abstract == INSTANCE AbstractBreaker
    WITH mode <- state, inflight <- Unrecorded, failures <- Saturated,
         cooled <- sinceFailure > ResetTimeout

\* Every step of Execute, of its goroutine and of the clock is a step of the
\* abstract breaker or leaves it alone.
ImplementsAbstract == Abstract!Spec
=============================================================================
