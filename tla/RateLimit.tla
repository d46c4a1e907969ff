------------------------------ MODULE RateLimit ------------------------------
(***************************************************************************)
(* The way of a request through the middleware (middleware/ratelimit.go):  *)
(* the ConcurrentLimiter around every route, then, for /api/v1, the        *)
(* IPRateLimiter with the limiter it finds or creates for the client's     *)
(* address, while a goroutine evicts limiters that were idle for IPTTL.    *)
(*                                                                         *)
(* rate.Limiter (golang.org/x/time/rate) is a token bucket: Allow takes a  *)
(* token if there is one; Reserve takes one in any case and may leave a    *)
(* debt.  Tokens come in whole ones, IPRate of them in a tick; an instant  *)
(* is the time between two ticks.                                          *)
(***************************************************************************)
EXTENDS Integers, FiniteSets

CONSTANTS Reqs,          \* requests, each sent again and again
          IPs, IpOf,     \* the address each comes from: [Reqs -> IPs]
          Api,           \* the requests for /api/v1; the others are for /health/live
          Limiters,      \* rate.Limiter objects, reused once nobody refers to them
          None,
          IPBurst, IPRate, IPTTL, MaxConcurrent,
          MaxDebt        \* bound of the model: the debt at which clients pause

ASSUME LimitAssumption ==
    /\ IsFiniteSet(Reqs)
    /\ IpOf \in [Reqs -> IPs] /\ Api \subseteq Reqs
    /\ None \notin Limiters
    /\ IPBurst \in Nat \ {0} /\ IPRate \in Nat \ {0} /\ IPTTL \in Nat
    /\ MaxConcurrent \in Nat /\ MaxDebt \in Nat

VARIABLES
    pc,         \* where each request is
    ptr,        \* the limiter it got from getOrCreateLimiter
    semaphore,  \* taken slots of the ConcurrentLimiter
    limiters,   \* rl.limiters: per address a limiter or None
    tokens,     \* per limiter
    idle,       \* age of lastAccess, up to IPTTL + 1
    allowedNow, \* history: requests of each address let through in this instant
    torn        \* history: addresses whose limiter was evicted under a request

slots     == <<semaphore>>
buckets   == <<limiters, tokens, idle>>
history   == <<allowedNow, torn>>
limitVars == <<pc, ptr, slots, buckets, history>>

InitLimit ==
    /\ pc = [r \in Reqs |-> "idle"]
    /\ ptr = [r \in Reqs |-> None]
    /\ semaphore = 0
    /\ limiters = [ip \in IPs |-> None]
    /\ tokens = [l \in Limiters |-> IPBurst]
    /\ idle = [l \in Limiters |-> 0]
    /\ allowedNow = [ip \in IPs |-> 0]
    /\ torn = {}

Goto(r, from, to) == pc[r] = from /\ pc' = [pc EXCEPT ![r] = to]

-----------------------------------------------------------------------------
(* ConcurrentLimiter.Middleware. *)

\* A request that finds no slot is answered 503 and leaves everything as it is.
Enter(r) ==
    /\ semaphore < MaxConcurrent
    /\ Goto(r, "idle", IF r \in Api THEN "entered" ELSE "serving")
    /\ semaphore' = semaphore + 1
    /\ UNCHANGED <<ptr, buckets, history>>

\* The deferred release, on every way out of the handlers.
Leave(r) ==
    /\ semaphore > 0
    /\ Goto(r, "leaving", "idle")
    /\ semaphore' = semaphore - 1
    /\ UNCHANGED <<ptr, buckets, history>>

-----------------------------------------------------------------------------
(* getOrCreateLimiter: the lookup under the read lock, then either the     *)
(* access time, written without a lock, or the second look under the write *)
(* lock.                                                                   *)

Lookup(r) ==
    /\ LET found == limiters[IpOf[r]] IN
       /\ Goto(r, "entered", IF found = None THEN "missing" ELSE "found")
       /\ ptr' = [ptr EXCEPT ![r] = found]
    /\ UNCHANGED <<slots, buckets, history>>

Touch(r) ==
    /\ Goto(r, "found", "holding")
    /\ idle' = [idle EXCEPT ![ptr[r]] = 0]
    /\ UNCHANGED <<ptr, slots, limiters, tokens, history>>

Unused == {l \in Limiters : (\A ip \in IPs : limiters[ip] # l)
                            /\ \A r \in Reqs : ptr[r] # l}

FindAgain(r) ==
    /\ limiters[IpOf[r]] # None
    /\ Goto(r, "missing", "holding")
    /\ ptr' = [ptr EXCEPT ![r] = limiters[IpOf[r]]]
    /\ idle' = [idle EXCEPT ![limiters[IpOf[r]]] = 0]
    /\ UNCHANGED <<slots, limiters, tokens, history>>

\* A mutant: the second look under the write lock is missing.
CreateUnchecked(r) ==
    /\ Goto(r, "missing", "holding")
    /\ \E l \in Unused :
          /\ limiters' = [limiters EXCEPT ![IpOf[r]] = l]
          /\ tokens' = [tokens EXCEPT ![l] = IPBurst]
          /\ idle' = [idle EXCEPT ![l] = 0]
          /\ ptr' = [ptr EXCEPT ![r] = l]
    /\ UNCHANGED <<slots, history>>

Create(r) ==
    /\ limiters[IpOf[r]] = None
    /\ Goto(r, "missing", "holding")
    /\ \E l \in Unused :
          /\ limiters' = [limiters EXCEPT ![IpOf[r]] = l]
          /\ tokens' = [tokens EXCEPT ![l] = IPBurst]
          /\ idle' = [idle EXCEPT ![l] = 0]
          /\ ptr' = [ptr EXCEPT ![r] = l]
    /\ UNCHANGED <<slots, history>>

-----------------------------------------------------------------------------
(* IPRateLimiter.Middleware. *)

\* A mutant: an empty bucket still lets one request through.
AllowOneMore(r) ==
    /\ Goto(r, "holding", "serving")
    /\ tokens[ptr[r]] >= 0
    /\ tokens' = [tokens EXCEPT ![ptr[r]] = @ - 1]
    /\ allowedNow' = [allowedNow EXCEPT ![IpOf[r]] = @ + 1]
    /\ ptr' = [ptr EXCEPT ![r] = None]
    /\ UNCHANGED <<slots, limiters, idle, torn>>

Allow(r) ==
    /\ Goto(r, "holding", "serving")
    /\ tokens[ptr[r]] >= 1
    /\ tokens' = [tokens EXCEPT ![ptr[r]] = @ - 1]
    /\ allowedNow' = [allowedNow EXCEPT ![IpOf[r]] = @ + 1]
    /\ ptr' = [ptr EXCEPT ![r] = None]
    /\ UNCHANGED <<slots, limiters, idle, torn>>

\* Allow said no; Reserve takes a token all the same to tell retry_after.
Limit(r) ==
    /\ Goto(r, "holding", "leaving")
    /\ tokens[ptr[r]] < 1 /\ tokens[ptr[r]] > -MaxDebt
    /\ tokens' = [tokens EXCEPT ![ptr[r]] = @ - 1]
    /\ ptr' = [ptr EXCEPT ![r] = None]
    /\ UNCHANGED <<slots, limiters, idle, history>>

Serve(r) ==
    /\ Goto(r, "serving", "leaving")
    /\ UNCHANGED <<ptr, slots, buckets, history>>

-----------------------------------------------------------------------------
(* The goroutine of Cleanup, and time. *)

Expired == {ip \in IPs : limiters[ip] # None /\ idle[limiters[ip]] > IPTTL}

InUse(ip) == allowedNow[ip] > 0 \/ \E r \in Reqs : ptr[r] # None /\ ptr[r] = limiters[ip]

Cleanup ==
    /\ Expired # {}
    /\ limiters' = [ip \in IPs |-> IF ip \in Expired THEN None ELSE limiters[ip]]
    /\ torn' = torn \cup {ip \in Expired : InUse(ip)}
    /\ UNCHANGED <<pc, ptr, slots, tokens, idle, allowedNow>>

Stale(r) == ptr[r] # None /\ ptr[r] # limiters[IpOf[r]]

Tick ==
    /\ tokens' = [l \in Limiters |-> IF tokens[l] + IPRate < IPBurst
                                     THEN tokens[l] + IPRate ELSE IPBurst]
    /\ idle' = [l \in Limiters |-> IF idle[l] > IPTTL THEN idle[l] ELSE idle[l] + 1]
    /\ allowedNow' = [ip \in IPs |-> 0]
    /\ torn' = {IpOf[r] : r \in {q \in Reqs : Stale(q)}}
    /\ UNCHANGED <<pc, ptr, slots, limiters>>

Step(r) ==
    \/ Enter(r) \/ Leave(r)
    \/ Lookup(r) \/ Touch(r) \/ FindAgain(r) \/ Create(r)
    \/ Allow(r) \/ Limit(r) \/ Serve(r)

LimitNext == (\E r \in Reqs : Step(r)) \/ Cleanup \/ Tick

LimitSpec == InitLimit /\ [][LimitNext]_limitVars

-----------------------------------------------------------------------------

TypeOK ==
    /\ pc \in [Reqs -> {"idle", "entered", "found", "missing", "holding",
                        "serving", "leaving"}]
    /\ ptr \in [Reqs -> Limiters \cup {None}]
    /\ semaphore \in Nat
    /\ limiters \in [IPs -> Limiters \cup {None}]
    /\ tokens \in [Limiters -> -MaxDebt .. IPBurst]
    /\ idle \in [Limiters -> 0 .. IPTTL + 1]
    /\ allowedNow \in [IPs -> Nat]
    /\ torn \subseteq IPs

\* The slots taken are those of the requests inside, whichever middleware or
\* handler ended them, and there are never more than MaxConcurrent;
\* with the types.
SlotsMatch ==
    /\ TypeOK
    /\ semaphore = Cardinality({r \in Reqs : pc[r] # "idle"})
    /\ semaphore <= MaxConcurrent

\* Requests of one address share one limiter: two that race to create it end
\* up with the same, and a request is left with another than the registered
\* one only when Cleanup evicted it under the request.
OneLimiterPerIP == \A r \in Reqs : Stale(r) => IpOf[r] \in torn

\* Unless Cleanup evicted the limiter under a request, no address gets more
\* than IPBurst requests through in an instant.
BurstKept == \A ip \in IPs \ torn : allowedNow[ip] <= IPBurst

=============================================================================
