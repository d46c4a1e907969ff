----------------------------- MODULE HealthCheck -----------------------------
(***************************************************************************)
(* The readiness checks of cmd/server: one dependency (ScyllaDB or Redis), *)
(* its circuit breaker and the requests for /health/ready that probe it.   *)
(* A request asks IsReady, starts a goroutine that runs the query through  *)
(* Execute and waits for its result or for a timer.  The goroutine goes on *)
(* after the timer fired; the request's context ends with the request, so  *)
(* its call may then be recorded as a failure whatever the query did.      *)
(*                                                                         *)
(* The breaker is AbstractBreaker, which CircuitBreaker implements.  Server *)
(* puts these actions together with the life of the process.               *)
(***************************************************************************)
EXTENDS Integers

CONSTANTS Callers,      \* requests under way at a time, bounded by this set
          MaxFailures

VARIABLES
    mode, inflight, failures, successes, cooled,   \* the breaker
    client,    \* db.Session or cache.Client is not nil
    handler,   \* per request: idle, or waiting in the select
    check,     \* per request: its goroutine, or the result it left in the channel
    trouble    \* the dependency may fail or hang and clients may hang up

Breaker == INSTANCE AbstractBreaker

breakerVars == <<mode, inflight, failures, successes, cooled>>
requests == <<handler, check>>
vars == <<breakerVars, client, requests, trouble>>

Results == {"ok", "unhealthy"}

\* main: when Initialize fails the circuit is opened by hand, with no failure
\* on record; a failed Initialize leaves a client behind for Redis but none
\* for ScyllaDB.
Init ==
    \E up \in BOOLEAN :
        /\ client \in {up, TRUE}
        /\ mode = IF up THEN "closed" ELSE "open"
        /\ inflight = {} /\ failures = 0 /\ successes = 0 /\ cooled = TRUE
        /\ handler = [p \in Callers |-> "idle"]
        /\ check = [p \in Callers |-> "none"]
        /\ trouble = TRUE

-----------------------------------------------------------------------------

\* A request that finds the circuit open is answered at once and changes nothing;
\* any other starts its goroutine and waits.
Begin(p) ==
    /\ handler[p] = "idle" /\ check[p] = "none"
    /\ Breaker!Ask
    /\ handler' = [handler EXCEPT ![p] = "waiting"]
    /\ check' = [check EXCEPT ![p] = "started"]
    /\ UNCHANGED <<client, trouble>>

\* The goroutine: no client, or a circuit that opened meanwhile, is a result
\* without a call.
GiveUp(p) ==
    /\ check[p] = "started"
    /\ ~client \/ ~Breaker!Ready
    /\ check' = [check EXCEPT ![p] = "unhealthy"]
    /\ UNCHANGED <<breakerVars, client, handler, trouble>>

Call(p) ==
    /\ check[p] = "started" /\ client
    /\ Breaker!Admit(p)
    /\ check' = [check EXCEPT ![p] = "calling"]
    /\ UNCHANGED <<client, handler, trouble>>

\* A mutant: the query's context ends at any time.
DoomAnyTime(p) ==
    /\ check[p] = "calling"
    /\ check' = [check EXCEPT ![p] = "doomed"]
    /\ UNCHANGED <<breakerVars, client, handler, trouble>>

\* The query fails, its deadline passes, the client hangs up, or the request
\* is over already.
Doom(p) ==
    /\ check[p] = "calling"
    /\ trouble \/ handler[p] = "idle"
    /\ check' = [check EXCEPT ![p] = "doomed"]
    /\ UNCHANGED <<breakerVars, client, handler, trouble>>

RecordOk(p) ==
    /\ check[p] = "calling"
    /\ Breaker!Succeed(p)
    /\ check' = [check EXCEPT ![p] = "ok"]
    /\ UNCHANGED <<client, handler, trouble>>

\* A mutant: a call whose context ended is not recorded.
RecordDoomedNever(p) ==
    /\ check[p] = "doomed"
    /\ check' = [check EXCEPT ![p] = "unhealthy"]
    /\ UNCHANGED <<breakerVars, client, handler, trouble>>

RecordDoomed(p) ==
    /\ check[p] = "doomed"
    /\ Breaker!Fail(p)
    /\ check' = [check EXCEPT ![p] = "unhealthy"]
    /\ UNCHANGED <<client, handler, trouble>>

Answer(p) ==
    /\ handler[p] = "waiting" /\ check[p] \in Results
    /\ handler' = [handler EXCEPT ![p] = "idle"]
    /\ check' = [check EXCEPT ![p] = "none"]
    /\ UNCHANGED <<breakerVars, client, trouble>>

\* "check timed out"; the goroutine is left to itself.
Timer(p) ==
    /\ handler[p] = "waiting" /\ trouble
    /\ handler' = [handler EXCEPT ![p] = "idle"]
    /\ UNCHANGED <<breakerVars, client, check, trouble>>

\* A mutant: the channel has no buffer, so a detached goroutine stays blocked
\* in its send.
DiscardUnbuffered(p) ==
    /\ handler[p] = "idle" /\ check[p] \in Results
    /\ UNCHANGED vars

\* A detached goroutine ends: its result fits in the channel nobody reads.
Discard(p) ==
    /\ handler[p] = "idle" /\ check[p] \in Results
    /\ check' = [check EXCEPT ![p] = "none"]
    /\ UNCHANGED <<breakerVars, client, handler, trouble>>

CoolDown == Breaker!CoolDown /\ UNCHANGED <<client, requests, trouble>>

\* The environment: from some point on the dependency answers promptly.
Calm ==
    /\ trouble /\ trouble' = FALSE
    /\ UNCHANGED <<breakerVars, client, requests>>

-----------------------------------------------------------------------------

\* Types, and the calls the breaker waits for are those of the goroutines.
TypeOK ==
    /\ mode \in {"closed", "open", "half-open"}
    /\ failures \in 0 .. MaxFailures /\ successes \in 0 .. 2
    /\ cooled \in BOOLEAN /\ client \in BOOLEAN /\ trouble \in BOOLEAN
    /\ handler \in [Callers -> {"idle", "waiting"}]
    /\ check \in [Callers -> Results \cup {"none", "started", "calling", "doomed"}]
    /\ inflight = {p \in Callers : check[p] \in {"calling", "doomed"}}
=============================================================================
