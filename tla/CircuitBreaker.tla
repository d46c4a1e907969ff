---------------------------- MODULE CircuitBreaker ----------------------------
(***************************************************************************)
(* One circuit breaker of src/api/internal/circuitbreaker, at the grain of *)
(* its lock sections and channel operations.  A caller runs Execute:       *)
(*                                                                         *)
(*   idle -> admitted -> calling -> succeeding | failing -> releasing      *)
(*                   \-> refused (the semaphore is full)                   *)
(*                                                                         *)
(* fn runs in a goroutine of its own and outlives an Execute that timed    *)
(* out: such a function is an orphan.  Time is the age of the last failure *)
(* and of the last state change, counted up to Forever, the first age that *)
(* exceeds ResetTimeout.                                                   *)
(***************************************************************************)
EXTENDS Integers, FiniteSets

CONSTANTS Callers,        \* goroutines that call Execute, each again and again
          MaxFailures,    \* Config.MaxFailures
          ResetTimeout,   \* Config.ResetTimeout, in ticks
          MaxConcurrent,  \* Config.MaxConcurrent, the capacity of semaphore
          MaxRequests     \* bound of the model: calls of Execute in a behaviour

ASSUME ConfigAssumption ==
    /\ IsFiniteSet(Callers)
    /\ MaxFailures \in Nat \ {0}
    /\ ResetTimeout \in Nat
    /\ MaxConcurrent \in Nat
    /\ MaxRequests \in Nat

VARIABLES
    state,         \* cb.state
    failures,      \* cb.failures
    successes,     \* cb.successes
    sinceFailure,  \* age of cb.lastFailureTime (the zero time is Forever ago)
    sinceChange,   \* age of cb.LastStateChange
    semaphore,     \* occupied slots of cb.semaphore
    TotalRequests, TotalSuccesses, TotalFailures, TotalRejects,
    pc,            \* where each caller is in Execute
    fn,            \* the fn of each caller's current Execute
    orphans,       \* functions still running after their Execute returned
    tripped        \* history: recordFailure, not Open(), opened the circuit

breaker == <<state, failures, successes, sinceChange>>
totals  == <<TotalRequests, TotalSuccesses, TotalFailures, TotalRejects>>
calls   == <<semaphore, pc, fn, orphans>>
vars    == <<breaker, totals, calls, sinceFailure, tripped>>

Forever == ResetTimeout + 1
ProbesToClose == 3

States == {"closed", "open", "half-open"}
PCs    == {"idle", "admitted", "refused", "calling",
           "succeeding", "failing", "releasing"}

Init ==
    /\ state = "closed" /\ failures = 0 /\ successes = 0
    /\ sinceFailure = Forever /\ sinceChange = 0
    /\ semaphore = 0
    /\ TotalRequests = 0 /\ TotalSuccesses = 0
    /\ TotalFailures = 0 /\ TotalRejects = 0
    /\ pc = [c \in Callers |-> "idle"]
    /\ fn = [c \in Callers |-> "none"]
    /\ orphans = 0
    /\ tripped = FALSE

-----------------------------------------------------------------------------
(* Helpers, each run with cb.mu held. *)

\* A mutant: closing the circuit forgets its failures no more.
TransitionToKeepingFailures(new, f, k) ==
    LET moved == new # state IN
    /\ state' = new
    /\ failures' = f
    /\ successes' = IF moved /\ new # "open" THEN 0 ELSE k
    /\ sinceChange' = IF moved THEN 0 ELSE sinceChange

\* A mutant: successes of an earlier half-open period count in the next.
TransitionToKeepingSuccesses(new, f, k) ==
    LET moved == new # state IN
    /\ state' = new
    /\ failures' = IF moved /\ new = "closed" THEN 0 ELSE f
    /\ successes' = IF moved /\ new = "closed" THEN 0 ELSE k
    /\ sinceChange' = IF moved THEN 0 ELSE sinceChange

\* f and k are the counters as the caller of transitionTo left them.  What
\* OnStateChange is told goes to the log only and is left out.
TransitionTo(new, f, k) ==
    LET moved == new # state IN
    /\ state' = new
    /\ failures' = IF moved /\ new = "closed" THEN 0 ELSE f
    /\ successes' = IF moved /\ new # "open" THEN 0 ELSE k
    /\ sinceChange' = IF moved THEN 0 ELSE sinceChange

\* A mutant: the circuit is tried one tick early.
AllowedEarly == state # "open" \/ sinceFailure >= ResetTimeout

Allowed == state # "open" \/ sinceFailure > ResetTimeout

\* What letting a request through does to the state.
LetThrough ==
    TransitionTo(IF state = "open" THEN "half-open" ELSE state, failures, successes)

Goto(c, from, to) == pc[c] = from /\ pc' = [pc EXCEPT ![c] = to]

-----------------------------------------------------------------------------
(* Execute, one action per lock section, channel operation or select. *)

Admit(c) ==
    /\ TotalRequests + TotalRejects < MaxRequests
    /\ Allowed
    /\ Goto(c, "idle", "admitted")
    /\ LetThrough
    /\ TotalRequests' = TotalRequests + 1
    /\ UNCHANGED <<TotalSuccesses, TotalFailures, TotalRejects, semaphore, fn,
                   orphans, sinceFailure, tripped>>

Reject(c) ==
    /\ TotalRequests + TotalRejects < MaxRequests
    /\ ~Allowed
    /\ pc[c] = "idle"
    /\ TotalRejects' = TotalRejects + 1
    /\ UNCHANGED <<breaker, calls, sinceFailure, tripped,
                   TotalRequests, TotalSuccesses, TotalFailures>>

\* The non-blocking send takes a slot; the goroutine of fn starts.
Acquire(c) ==
    /\ semaphore < MaxConcurrent
    /\ Goto(c, "admitted", "calling")
    /\ semaphore' = semaphore + 1
    /\ fn' = [fn EXCEPT ![c] = "running"]
    /\ UNCHANGED <<breaker, totals, orphans, sinceFailure, tripped>>

Refuse(c) ==
    /\ semaphore = MaxConcurrent
    /\ Goto(c, "admitted", "refused")
    /\ UNCHANGED <<breaker, totals, semaphore, fn, orphans, sinceFailure, tripped>>

\* fn returns and its result goes into done, which has room for one.
FnReturns(c, result) ==
    /\ fn[c] = "running"
    /\ fn' = [fn EXCEPT ![c] = result]
    /\ UNCHANGED <<breaker, totals, semaphore, pc, orphans, sinceFailure, tripped>>

OrphanReturns ==
    /\ orphans > 0
    /\ orphans' = orphans - 1
    /\ UNCHANGED <<breaker, totals, semaphore, pc, fn, sinceFailure, tripped>>

\* The select takes the result out of done...
Receive(c) ==
    /\ fn[c] \in {"ok", "err"}
    /\ Goto(c, "calling", IF fn[c] = "ok" THEN "succeeding" ELSE "failing")
    /\ fn' = [fn EXCEPT ![c] = "none"]
    /\ UNCHANGED <<breaker, totals, semaphore, orphans, sinceFailure, tripped>>

\* Mutants: the deadline only frees a caller whose fn has returned...
TimeoutAfterFn(c) ==
    /\ fn[c] # "running"
    /\ Goto(c, "calling", "failing")
    /\ fn' = [fn EXCEPT ![c] = "none"]
    /\ UNCHANGED <<breaker, totals, semaphore, orphans, sinceFailure, tripped>>

\* ... or Execute returns without recording the failure.
TimeoutUnrecorded(c) ==
    /\ Goto(c, "calling", "releasing")
    /\ fn' = [fn EXCEPT ![c] = "none"]
    /\ orphans' = IF fn[c] = "running" THEN orphans + 1 ELSE orphans
    /\ UNCHANGED <<breaker, totals, semaphore, sinceFailure, tripped>>

\* ... or the context ends first (the deadline, or the client went away); a
\* result that is already in done may lose the race.
Timeout(c) ==
    /\ Goto(c, "calling", "failing")
    /\ fn' = [fn EXCEPT ![c] = "none"]
    /\ orphans' = IF fn[c] = "running" THEN orphans + 1 ELSE orphans
    /\ UNCHANGED <<breaker, totals, semaphore, sinceFailure, tripped>>

\* A mutant: one success too many is asked for.
RecordSuccessLate(c) ==
    /\ Goto(c, "succeeding", "releasing")
    /\ TotalSuccesses' = TotalSuccesses + 1
    /\ IF state = "half-open"
       THEN TransitionTo(IF successes + 1 > ProbesToClose THEN "closed" ELSE state,
                         failures, successes + 1)
       ELSE UNCHANGED breaker
    /\ UNCHANGED <<TotalRequests, TotalFailures, TotalRejects, semaphore, fn,
                   orphans, sinceFailure, tripped>>

RecordSuccess(c) ==
    /\ Goto(c, "succeeding", "releasing")
    /\ TotalSuccesses' = TotalSuccesses + 1
    /\ IF state = "half-open"
       THEN TransitionTo(IF successes + 1 >= ProbesToClose THEN "closed" ELSE state,
                         failures, successes + 1)
       ELSE UNCHANGED breaker
    /\ UNCHANGED <<TotalRequests, TotalFailures, TotalRejects, semaphore, fn,
                   orphans, sinceFailure, tripped>>

\* A mutant: the release is deferred before the slot is taken, so a refused
\* call releases too.
RecordFailureThenRelease(c) ==
    /\ \/ Goto(c, "failing", "releasing")
       \/ Goto(c, "refused", "releasing")
    /\ TotalFailures' = TotalFailures + 1
    /\ sinceFailure' = 0
    /\ IF state = "half-open"
       THEN TransitionTo("open", failures, successes)
       ELSE TransitionTo(IF failures + 1 >= MaxFailures THEN "open" ELSE state,
                         failures + 1, successes)
    /\ tripped' = (tripped \/ (state # "open" /\ state' = "open"))
    /\ UNCHANGED <<TotalRequests, TotalSuccesses, TotalRejects, semaphore, fn,
                   orphans>>

\* A refused call holds no slot and is over once its failure is recorded.
RecordFailure(c) ==
    /\ \/ Goto(c, "failing", "releasing")
       \/ Goto(c, "refused", "idle")
    /\ TotalFailures' = TotalFailures + 1
    /\ sinceFailure' = 0
    /\ IF state = "half-open"
       THEN TransitionTo("open", failures, successes)
       ELSE TransitionTo(IF failures + 1 >= MaxFailures THEN "open" ELSE state,
                         failures + 1, successes)
    /\ tripped' = (tripped \/ (state # "open" /\ state' = "open"))
    /\ UNCHANGED <<TotalRequests, TotalSuccesses, TotalRejects, semaphore, fn,
                   orphans>>

\* The deferred receive from semaphore, after which Execute returns.
Release(c) ==
    /\ semaphore > 0
    /\ Goto(c, "releasing", "idle")
    /\ semaphore' = semaphore - 1
    /\ UNCHANGED <<breaker, totals, fn, orphans, sinceFailure, tripped>>

-----------------------------------------------------------------------------
(* The other exported operations, and time. *)

\* IsReady changes the state only when it finds an open circuit that has
\* waited long enough; it admits nobody.
IsReady ==
    /\ state = "open" /\ Allowed
    /\ LetThrough
    /\ UNCHANGED <<totals, calls, sinceFailure, tripped>>

Reset ==
    /\ TransitionTo("closed", failures, successes)
    /\ UNCHANGED <<totals, calls, sinceFailure, tripped>>

Open ==
    /\ TransitionTo("open", failures, successes)
    /\ tripped' = (tripped /\ state = "open")
    /\ UNCHANGED <<totals, calls, sinceFailure>>

Older(age) == IF age < Forever THEN age + 1 ELSE age

Tick ==
    /\ sinceFailure' = Older(sinceFailure)
    /\ sinceChange' = Older(sinceChange)
    /\ UNCHANGED <<state, failures, successes, totals, calls, tripped>>

Step(c) ==
    \/ Admit(c) \/ Reject(c) \/ Acquire(c) \/ Refuse(c)
    \/ \E result \in {"ok", "err"} : FnReturns(c, result)
    \/ Receive(c) \/ Timeout(c)
    \/ RecordSuccess(c) \/ RecordFailure(c) \/ Release(c)

Next ==
    \/ \E c \in Callers : Step(c)
    \/ OrphanReturns \/ IsReady \/ Reset \/ Open \/ Tick

\* The Go scheduler runs every goroutine and the deadline of every call
\* passes; nobody has to call Execute, and fn may hang for ever.
Fairness ==
    \A c \in Callers :
        /\ WF_vars(Acquire(c) \/ Refuse(c))
        /\ WF_vars(Timeout(c))
        /\ WF_vars(RecordSuccess(c))
        /\ WF_vars(RecordFailure(c))
        /\ WF_vars(Release(c))

Spec == Init /\ [][Next]_vars
FairSpec == Spec /\ Fairness

-----------------------------------------------------------------------------
(* What the breaker is for. *)

\* Every variable stays in its type; the ages never pass Forever and three
\* successes never accumulate.
TypeOK ==
    /\ state \in States
    /\ failures \in Nat
    /\ successes \in 0 .. ProbesToClose - 1
    /\ sinceFailure \in 0 .. Forever
    /\ sinceChange \in 0 .. Forever
    /\ semaphore \in Nat
    /\ TotalRequests \in Nat /\ TotalSuccesses \in Nat
    /\ TotalFailures \in Nat /\ TotalRejects \in Nat
    /\ pc \in [Callers -> PCs]
    /\ fn \in [Callers -> {"none", "running", "ok", "err"}]
    /\ orphans \in Nat
    /\ tripped \in BOOLEAN

\* The calls that hold a slot, and those admitted but not yet recorded.
At(S) == {c \in Callers : pc[c] \in S}
Recording  == {"calling", "succeeding", "failing"}
Holding    == At(Recording \cup {"releasing"})
Unrecorded == At(Recording \cup {"admitted", "refused"})

\* The slots taken are exactly those of the calls between their acquire and
\* their deferred release, on every path out of Execute (result, timeout,
\* refusal), so a slot neither leaks nor is given back twice.
SlotsAccounted ==
    /\ semaphore = Cardinality(Holding)
    /\ semaphore <= MaxConcurrent

\* Each admitted call is recorded exactly once, as a success or as a failure,
\* whichever of its result, its deadline and the full semaphore won: the
\* metrics of GetMetrics add up, but for the calls still on their way.
RequestsAccounted ==
    TotalRequests = TotalSuccesses + TotalFailures + Cardinality(Unrecorded)

\* A closed circuit has not yet seen MaxFailures failures and carries no
\* success of an earlier half-open period, although failures of calls admitted
\* long ago are recorded in every state.
ClosedBelowThreshold ==
    state = "closed" => failures < MaxFailures /\ successes = 0

\* A circuit opened by failures has waited ResetTimeout since it opened when
\* it turns half-open; late failures may only prolong the wait.
CoolDownHonoured ==
    [][state = "open" /\ state' = "half-open" /\ tripped
         => sinceChange > ResetTimeout]_vars

\* Execute returns although fn may hang: the deadline frees its caller and
\* its slot.
EveryCallReturns ==
    \A c \in Callers : pc[c] = "admitted" ~> pc[c] = "idle"
=============================================================================
