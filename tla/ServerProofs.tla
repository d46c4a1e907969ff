----------------------------- MODULE ServerProofs -----------------------------
(***************************************************************************)
(* What TLAPS proves of the life of the server, for any sets of checks and *)
(* of requests and any threshold of the breaker.                           *)
(***************************************************************************)
EXTENDS Server, RateLimit, FiniteSetTheorems, TLAPS

-----------------------------------------------------------------------------

\* What main keeps of the requests: types, and none in flight after a drain that
\* was not cut short.
Drain ==
    /\ server \in {"up", "draining", "drained", "closed", "exited"}
    /\ api \subseteq ApiRequests /\ {opened, forced} \subseteq BOOLEAN
    /\ server \in {"drained", "closed", "exited"} /\ ~forced => InFlight = {}

LEMMA ChecksInit == Init => H!TypeOK
<1> SUFFICES ASSUME Init PROVE H!TypeOK
    OBVIOUS
<1>1. PICK up \in BOOLEAN :
        /\ client \in {up, TRUE} /\ mode = IF up THEN "closed" ELSE "open"
        /\ inflight = {} /\ failures = 0 /\ successes = 0 /\ cooled = TRUE
        /\ handler = [p \in Callers |-> "idle"] /\ check = [p \in Callers |-> "none"]
        /\ trouble = TRUE
    BY DEF Init, H!Init
<1>2. client \in BOOLEAN /\ cooled \in BOOLEAN /\ trouble \in BOOLEAN
    BY <1>1, Zenon
<1>3. mode \in {"closed", "open", "half-open"}
    BY <1>1
<1>4. failures \in 0 .. MaxFailures /\ successes \in 0 .. 2
    BY <1>1, ServerAssumption
<1>5. inflight = {p \in Callers : check[p] \in {"calling", "doomed"}}
    BY <1>1
<1>6. /\ handler \in [Callers -> {"idle", "waiting"}]
      /\ check \in [Callers -> H!Results \cup {"none", "started", "calling", "doomed"}]
    BY <1>1
<1> QED BY <1>2, <1>3, <1>4, <1>5, <1>6 DEF H!TypeOK

\* Changing the state of the breaker keeps its types.
LEMMA EnterType ==
    ASSUME H!TypeOK, NEW new \in {"closed", "open", "half-open"}, H!Breaker!Enter(new)
    PROVE  /\ mode' \in {"closed", "open", "half-open"}
           /\ failures' \in 0 .. MaxFailures /\ successes' \in 0 .. 2
BY ServerAssumption DEF H!TypeOK, H!Breaker!Enter

LEMMA LetInType ==
    ASSUME H!TypeOK, H!Breaker!LetIn
    PROVE  /\ mode' \in {"closed", "open", "half-open"}
           /\ failures' \in 0 .. MaxFailures /\ successes' \in 0 .. 2
BY EnterType DEF H!Breaker!LetIn, H!TypeOK

LEMMA SucceedType ==
    ASSUME H!TypeOK, NEW p \in Callers, H!Breaker!Succeed(p)
    PROVE  /\ mode' \in {"closed", "open", "half-open"}
           /\ failures' \in 0 .. MaxFailures /\ successes' \in 0 .. 2
<1>1. CASE mode # "half-open"
    BY <1>1 DEF H!Breaker!Succeed, H!TypeOK
<1>2. CASE mode = "half-open" /\ successes = 2
    BY <1>2, EnterType DEF H!Breaker!Succeed
<1>3. CASE mode = "half-open" /\ successes # 2
    BY <1>3 DEF H!Breaker!Succeed, H!TypeOK
<1> QED BY <1>1, <1>2, <1>3

LEMMA FailType ==
    ASSUME H!TypeOK, NEW p \in Callers, H!Breaker!Fail(p)
    PROVE  /\ mode' \in {"closed", "open", "half-open"}
           /\ failures' \in 0 .. MaxFailures /\ successes' \in 0 .. 2
BY ServerAssumption DEF H!Breaker!Fail, H!TypeOK

LEMMA ChecksStep == H!TypeOK /\ [Next]_vars => H!TypeOK'
<1> SUFFICES ASSUME H!TypeOK, [Next]_vars PROVE H!TypeOK'
    OBVIOUS
<1> DEFINE breakerType == /\ mode' \in {"closed", "open", "half-open"}
                          /\ failures' \in 0 .. MaxFailures /\ successes' \in 0 .. 2
<1>1. ASSUME NEW p \in Callers, H!Begin(p) PROVE H!TypeOK'
  <2>1. breakerType
      BY <1>1, LetInType DEF H!Begin, H!Breaker!Ask
  <2> QED BY <1>1, <2>1 DEF H!Begin, H!Breaker!Ask, H!TypeOK, H!Results
<1>2. ASSUME NEW p \in Callers, H!Call(p) PROVE H!TypeOK'
  <2>1. breakerType
      BY <1>2, LetInType DEF H!Call, H!Breaker!Admit
  <2> QED BY <1>2, <2>1 DEF H!Call, H!Breaker!Admit, H!TypeOK, H!Results
<1>3. ASSUME NEW p \in Callers, H!RecordOk(p) PROVE H!TypeOK'
  <2>1. breakerType
      BY <1>3, SucceedType DEF H!RecordOk
  <2>2. inflight' = inflight \ {p} /\ cooled' = cooled
      BY <1>3 DEF H!RecordOk, H!Breaker!Succeed
  <2> QED BY <1>3, <2>1, <2>2 DEF H!RecordOk, H!TypeOK, H!Results
<1>4. ASSUME NEW p \in Callers, H!RecordDoomed(p) PROVE H!TypeOK'
  <2>1. breakerType
      BY <1>4, FailType DEF H!RecordDoomed
  <2>2. inflight' = inflight \ {p} /\ cooled' = FALSE
      BY <1>4 DEF H!RecordDoomed, H!Breaker!Fail
  <2> QED BY <1>4, <2>1, <2>2 DEF H!RecordDoomed, H!TypeOK, H!Results
<1>5. ASSUME NEW p \in Callers, H!GiveUp(p) \/ H!Doom(p) \/ Cut(p) PROVE H!TypeOK'
    BY <1>5 DEF H!GiveUp, H!Doom, Cut, H!breakerVars, H!TypeOK, H!Results
<1>6. ASSUME NEW p \in Callers, H!Answer(p) \/ H!Timer(p) \/ H!Discard(p) PROVE H!TypeOK'
    BY <1>6 DEF H!Answer, H!Timer, H!Discard, H!breakerVars, H!TypeOK, H!Results
<1>7. CASE H!Calm \/ H!CoolDown
    BY <1>7 DEF H!Calm, H!CoolDown, H!Breaker!CoolDown, H!breakerVars, H!requests,
                H!TypeOK, H!Results
<1>8. ASSUME UNCHANGED checkVars PROVE H!TypeOK'
    BY <1>8 DEF checkVars, H!TypeOK, H!Results
<1>9. CASE Checks
    BY <1>1, <1>2, <1>3, <1>4, <1>5, <1>6, <1>7, <1>9 DEF Checks
<1>10. CASE Main \/ (\E r \in ApiRequests : ApiBegin(r) \/ ApiEnd(r)) \/ UNCHANGED vars
    BY <1>8, <1>10 DEF Main, Signal, Drained, DrainDeadline, CloseClient, Exit,
                       ApiBegin, ApiEnd, vars
<1> QED BY <1>5, <1>9, <1>10 DEF Next

-----------------------------------------------------------------------------

LEMMA DrainInit == Init => Drain
BY DEF Init, Drain

\* Once nobody is let in no step adds to the requests in flight: the readiness
\* checks that go on are those of before.
LEMMA ChecksLeave ==
    ASSUME H!TypeOK, Checks, server # "up"
    PROVE  \A p \in Callers : handler'[p] = "waiting" => handler[p] = "waiting"
<1>1. CASE H!Calm \/ H!CoolDown
    BY <1>1 DEF H!Calm, H!CoolDown, H!requests
<1>2. ASSUME NEW p \in Callers,
             H!GiveUp(p) \/ H!Call(p) \/ H!RecordOk(p) \/ H!Doom(p) \/ H!RecordDoomed(p)
      PROVE  handler' = handler
    BY <1>2 DEF H!GiveUp, H!Call, H!RecordOk, H!Doom, H!RecordDoomed
<1>3. ASSUME NEW p \in Callers, H!Answer(p) \/ H!Timer(p) \/ H!Discard(p)
      PROVE  \A q \in Callers : handler'[q] = "waiting" => handler[q] = "waiting"
    BY <1>3 DEF H!Answer, H!Timer, H!Discard, H!TypeOK
<1> QED BY <1>1, <1>2, <1>3 DEF Checks

LEMMA DrainStep == H!TypeOK /\ Drain /\ [Next]_vars => Drain'
<1> SUFFICES ASSUME H!TypeOK, Drain, [Next]_vars PROVE Drain'
    OBVIOUS
<1>1. CASE Checks
  <2>1. server' = server /\ opened' = opened /\ api' = api /\ forced' = forced
      BY <1>1 DEF Checks
  <2>2. server # "up" => InFlight' \subseteq InFlight
      BY <1>1, <2>1, ChecksLeave DEF InFlight
  <2> QED BY <2>1, <2>2 DEF Drain
<1>2. ASSUME NEW p \in Callers, Cut(p) PROVE Drain'
    BY <1>2 DEF Cut, Drain, InFlight
<1>3. ASSUME NEW r \in ApiRequests, ApiBegin(r) PROVE Drain'
    BY <1>3 DEF ApiBegin, checkVars, Drain, InFlight
<1>4. ASSUME NEW r \in ApiRequests, ApiEnd(r) PROVE Drain'
    BY <1>4 DEF ApiEnd, checkVars, Drain, InFlight
<1>5. CASE Main
    BY <1>5 DEF Main, Signal, Drained, DrainDeadline, CloseClient, Exit, checkVars, Drain, InFlight
<1>6. CASE UNCHANGED vars
    BY <1>6 DEF vars, checkVars, Drain, InFlight
<1> QED BY <1>1, <1>2, <1>3, <1>4, <1>5, <1>6 DEF Next

\* Unless the drain reached its deadline, srv.Shutdown leaves no request behind
\* under which main closes the client of the dependency: no check and no request
\* of the API, whatever the breaker and the detached checks do meanwhile.
THEOREM DrainCorrect == Spec => []DrainHonoured
<1>1. H!TypeOK /\ Drain => DrainHonoured
    BY DEF Drain, DrainHonoured
<1> QED BY <1>1, ChecksInit, ChecksStep, DrainInit, DrainStep, PTL DEF Spec

-----------------------------------------------------------------------------
(* The middleware before the handlers, for any finite set of requests, any *)
(* addresses and every configuration.                                      *)

(* Types, with the limiter a request must have where it uses it.           *)

Holds == \A r \in Reqs : pc[r] \in {"found", "holding"} => ptr[r] \in Limiters

Typed == TypeOK /\ Holds

LEMMA TypedInit == InitLimit => Typed
BY LimitAssumption DEF InitLimit, Typed, TypeOK, Holds

LEMMA TypedStep == Typed /\ [LimitNext]_limitVars => Typed'
<1> SUFFICES ASSUME Typed, [LimitNext]_limitVars PROVE Typed'
    OBVIOUS
<1> USE LimitAssumption DEF Typed, TypeOK, Holds, Goto
<1>1. ASSUME NEW r \in Reqs, Enter(r) PROVE Typed'
    BY <1>1 DEF Enter, buckets, history
<1>2. ASSUME NEW r \in Reqs, Leave(r) PROVE Typed'
    BY <1>2 DEF Leave, buckets, history
<1>3. ASSUME NEW r \in Reqs, Lookup(r) PROVE Typed'
    BY <1>3 DEF Lookup, slots, buckets, history
<1>4. ASSUME NEW r \in Reqs, Touch(r) PROVE Typed'
    BY <1>4 DEF Touch, slots, history
<1>5. ASSUME NEW r \in Reqs, FindAgain(r) PROVE Typed'
    BY <1>5 DEF FindAgain, slots, history
<1>6. ASSUME NEW r \in Reqs, Create(r) PROVE Typed'
    BY <1>6 DEF Create, Unused, slots, history
<1>7. ASSUME NEW r \in Reqs, Allow(r) PROVE Typed'
    BY <1>7 DEF Allow, slots
<1>8. ASSUME NEW r \in Reqs, Limit(r) PROVE Typed'
    BY <1>8 DEF Limit, slots, history
<1>9. ASSUME NEW r \in Reqs, Serve(r) PROVE Typed'
    BY <1>9 DEF Serve, slots, buckets, history
<1>10. CASE Cleanup
    BY <1>10 DEF Cleanup, Expired, slots
<1>11. CASE Tick
    BY <1>11 DEF Tick, slots
<1>12. CASE UNCHANGED limitVars
    BY <1>12 DEF limitVars, slots, buckets, history
<1> QED BY <1>1, <1>2, <1>3, <1>4, <1>5, <1>6, <1>7, <1>8, <1>9, <1>10, <1>11, <1>12
    DEF LimitNext, Step

-----------------------------------------------------------------------------
(* Slots.                                                                  *)

Inside == {r \in Reqs : pc[r] # "idle"}

LEMMA InsideFinite == IsFiniteSet(Inside) /\ Cardinality(Inside) \in Nat
<1>1. IsFiniteSet(Inside)
    BY LimitAssumption, FS_Subset DEF Inside
<1> QED BY <1>1, FS_CardinalityType

\* A move within the handlers, or none, leaves the slots taken as they are.
LEMMA StaysInside ==
    ASSUME Typed, NEW r \in Reqs, NEW from, NEW to, Goto(r, from, to),
           from # "idle", to # "idle"
    PROVE  Inside' = Inside
BY DEF Inside, Goto, Typed, TypeOK

SlotsTaken == semaphore = Cardinality(Inside) /\ semaphore <= MaxConcurrent

LEMMA SlotsInit == InitLimit => SlotsTaken
<1> SUFFICES ASSUME InitLimit PROVE SlotsTaken
    OBVIOUS
<1>1. Inside = {}
    BY DEF InitLimit, Inside
<1> QED BY <1>1, FS_EmptySet, LimitAssumption DEF InitLimit, SlotsTaken

LEMMA SlotsStep == Typed /\ SlotsTaken /\ [LimitNext]_limitVars => SlotsTaken'
<1> SUFFICES ASSUME Typed, SlotsTaken, [LimitNext]_limitVars PROVE SlotsTaken'
    OBVIOUS
<1>1. ASSUME NEW r \in Reqs, Enter(r) PROVE SlotsTaken'
  <2>1. Inside' = Inside \cup {r} /\ r \notin Inside
      BY <1>1 DEF Enter, Goto, Inside, Typed, TypeOK
  <2>2. Cardinality(Inside') = Cardinality(Inside) + 1
      BY <2>1, InsideFinite, FS_AddElement
  <2> QED BY <1>1, <2>2, InsideFinite, LimitAssumption DEF Enter, SlotsTaken, Typed, TypeOK
<1>2. ASSUME NEW r \in Reqs, Leave(r) PROVE SlotsTaken'
  <2>1. Inside' = Inside \ {r} /\ r \in Inside
      BY <1>2 DEF Leave, Goto, Inside, Typed, TypeOK
  <2>2. Cardinality(Inside') = Cardinality(Inside) - 1
      BY <2>1, InsideFinite, FS_RemoveElement
  <2> QED BY <1>2, <2>2, InsideFinite, LimitAssumption DEF Leave, SlotsTaken, Typed, TypeOK
<1>3. ASSUME Inside' = Inside, semaphore' = semaphore PROVE SlotsTaken'
    BY <1>3 DEF SlotsTaken
<1>4. ASSUME NEW r \in Reqs,
             Lookup(r) \/ Touch(r) \/ FindAgain(r) \/ Create(r) \/ Allow(r) \/ Limit(r) \/ Serve(r)
      PROVE  Inside' = Inside /\ semaphore' = semaphore
    BY <1>4, StaysInside DEF Lookup, Touch, FindAgain, Create, Allow, Limit, Serve, slots
<1>5. ASSUME Cleanup \/ Tick \/ UNCHANGED limitVars
      PROVE  Inside' = Inside /\ semaphore' = semaphore
    BY <1>5 DEF Cleanup, Tick, limitVars, slots, Inside
<1> QED BY <1>1, <1>2, <1>3, <1>4, <1>5 DEF LimitNext, Step

\* The semaphore of ConcurrentLimiter holds exactly the requests inside and
\* never exceeds its capacity, on whichever way a request leaves.
THEOREM SlotsCorrect == LimitSpec => []SlotsMatch
<1>1. Typed /\ SlotsTaken => SlotsMatch
    BY DEF Typed, SlotsTaken, SlotsMatch, Inside
<1> QED BY <1>1, TypedInit, TypedStep, SlotsInit, SlotsStep, PTL DEF LimitSpec

-----------------------------------------------------------------------------
(* One limiter per address.                                                *)

LEMMA OneInit == InitLimit => OneLimiterPerIP
BY DEF InitLimit, OneLimiterPerIP, Stale

LEMMA OneStep == Typed /\ OneLimiterPerIP /\ [LimitNext]_limitVars => OneLimiterPerIP'
<1> SUFFICES ASSUME Typed, OneLimiterPerIP, [LimitNext]_limitVars PROVE OneLimiterPerIP'
    OBVIOUS
<1> USE LimitAssumption DEF Typed, TypeOK, Holds, OneLimiterPerIP, Stale
<1>1. ASSUME UNCHANGED <<ptr, limiters, torn>> PROVE OneLimiterPerIP'
    BY <1>1
<1>2. ASSUME NEW r \in Reqs, Enter(r) \/ Leave(r) \/ Touch(r) \/ Serve(r)
      PROVE  OneLimiterPerIP'
    BY <1>1, <1>2 DEF Enter, Leave, Touch, Serve, buckets, history
<1>3. ASSUME NEW r \in Reqs, Lookup(r) \/ FindAgain(r) PROVE OneLimiterPerIP'
    BY <1>3 DEF Lookup, FindAgain, buckets, history
<1>4. ASSUME NEW r \in Reqs, Create(r) PROVE OneLimiterPerIP'
    BY <1>4 DEF Create, history
<1>5. ASSUME NEW r \in Reqs, Allow(r) \/ Limit(r) PROVE OneLimiterPerIP'
    BY <1>5 DEF Allow, Limit, history
<1>6. CASE Cleanup
    BY <1>6 DEF Cleanup, Expired, InUse
<1>7. CASE Tick
    BY <1>7 DEF Tick
<1>8. CASE UNCHANGED limitVars
    BY <1>1, <1>8 DEF limitVars, buckets, history
<1> QED BY <1>2, <1>3, <1>4, <1>5, <1>6, <1>7, <1>8 DEF LimitNext, Step

\* Double-checked creation gives each address one limiter: a request works with
\* another than the registered one only after Cleanup took it away under it.
THEOREM OneLimiterCorrect == LimitSpec => []OneLimiterPerIP
BY TypedInit, TypedStep, OneInit, OneStep, PTL DEF LimitSpec

-----------------------------------------------------------------------------
(* Bursts.                                                                 *)

\* No limiter is that of two addresses, neither in the map nor in the hands of
\* a request.
Owned ==
    /\ \A i, j \in IPs : limiters[i] = limiters[j] /\ limiters[i] # None => i = j
    /\ \A r \in Reqs, i \in IPs :
          ptr[r] # None /\ limiters[i] = ptr[r] => i = IpOf[r]

\* Positive tokens and what was let through in this instant share the burst; a
\* debt gives nothing back.
Budget(ip) ==
    IF limiters[ip] = None THEN allowedNow[ip] = 0
    ELSE /\ allowedNow[ip] <= IPBurst
         /\ allowedNow[ip] + tokens[limiters[ip]] <= IPBurst

Budgets == \A ip \in IPs \ torn : Budget(ip)

LEMMA OwnedInit == InitLimit => Owned
BY DEF InitLimit, Owned

LEMMA OwnedStep == Typed /\ Owned /\ [LimitNext]_limitVars => Owned'
<1> SUFFICES ASSUME Typed, Owned, [LimitNext]_limitVars PROVE Owned'
    OBVIOUS
<1> USE LimitAssumption DEF Typed, TypeOK, Holds, Owned
<1>1. ASSUME UNCHANGED <<ptr, limiters>> PROVE Owned'
    BY <1>1
<1>2. ASSUME NEW r \in Reqs, Enter(r) \/ Leave(r) \/ Touch(r) \/ Serve(r)
      PROVE  Owned'
    BY <1>1, <1>2 DEF Enter, Leave, Touch, Serve, buckets
<1>3. ASSUME NEW r \in Reqs, Lookup(r) \/ FindAgain(r) PROVE Owned'
    BY <1>3 DEF Lookup, FindAgain, buckets
<1>4. ASSUME NEW r \in Reqs, Create(r) PROVE Owned'
    BY <1>4 DEF Create, Unused
<1>5. ASSUME NEW r \in Reqs, Allow(r) \/ Limit(r) PROVE Owned'
    BY <1>5 DEF Allow, Limit
<1>6. CASE Cleanup
    BY <1>6 DEF Cleanup
<1>7. CASE Tick \/ UNCHANGED limitVars
    BY <1>1, <1>7 DEF Tick, limitVars, buckets
<1> QED BY <1>2, <1>3, <1>4, <1>5, <1>6, <1>7 DEF LimitNext, Step

LEMMA BudgetsInit == InitLimit => Budgets
BY DEF InitLimit, Budgets, Budget

LEMMA BudgetsStep ==
    Typed /\ OneLimiterPerIP /\ Owned /\ Budgets /\ [LimitNext]_limitVars => Budgets'
<1> SUFFICES ASSUME Typed, OneLimiterPerIP, Owned, Budgets, [LimitNext]_limitVars PROVE Budgets'
    OBVIOUS
<1> USE LimitAssumption DEF Typed, TypeOK, Holds, Owned, Budgets, Budget
<1>1. ASSUME UNCHANGED <<limiters, tokens, allowedNow, torn>> PROVE Budgets'
    BY <1>1
<1>2. ASSUME NEW r \in Reqs,
             Enter(r) \/ Leave(r) \/ Lookup(r) \/ Touch(r) \/ FindAgain(r) \/ Serve(r)
      PROVE  Budgets'
    BY <1>1, <1>2 DEF Enter, Leave, Lookup, Touch, FindAgain, Serve, buckets, history
<1>3. ASSUME NEW r \in Reqs, Create(r) PROVE Budgets'
    BY <1>3 DEF Create, Unused, history
<1>4. ASSUME NEW r \in Reqs, Allow(r) PROVE Budgets'
  <2>1. IpOf[r] \notin torn => ptr[r] = limiters[IpOf[r]]
      BY <1>4 DEF Allow, Goto, OneLimiterPerIP, Stale
  <2> QED BY <1>4, <2>1 DEF Allow, Goto
<1>5. ASSUME NEW r \in Reqs, Limit(r) PROVE Budgets'
    BY <1>5 DEF Limit, Goto, history
<1>6. CASE Cleanup
    BY <1>6 DEF Cleanup, Expired, InUse
<1>7. CASE Tick
    BY <1>7 DEF Tick
<1>8. CASE UNCHANGED limitVars
    BY <1>1, <1>8 DEF limitVars, buckets, history
<1> QED BY <1>2, <1>3, <1>4, <1>5, <1>6, <1>7, <1>8 DEF LimitNext, Step

\* No address gets more than IPBurst requests through in an instant, however its
\* requests race to find and create its limiter, unless Cleanup evicted that
\* limiter under one of them.
THEOREM BurstCorrect == LimitSpec => []BurstKept
<1>1. Typed /\ Budgets => BurstKept
    BY LimitAssumption DEF Typed, TypeOK, Budgets, Budget, BurstKept
<1> QED BY <1>1, TypedInit, TypedStep, OneInit, OneStep, OwnedInit, OwnedStep,
           BudgetsInit, BudgetsStep, PTL DEF LimitSpec
================================================================================
