------------------------- MODULE CircuitBreakerProofs -------------------------
(***************************************************************************)
(* What TLAPS proves of the circuit breaker, for any number of callers and *)
(* every configuration.                                                    *)
(***************************************************************************)
EXTENDS CircuitBreakerRefines, FiniteSetTheorems, TLAPS

-----------------------------------------------------------------------------
(* Type correctness. *)

\* What transitionTo leaves behind is well typed when the counters it is given
\* are; three successes may be handed to it only on the way to closed.
LEMMA TransitionType ==
    ASSUME TypeOK, NEW new \in States, NEW f \in Nat, NEW k \in Nat,
           k < ProbesToClose \/ (new = "closed" /\ state # "closed"),
           TransitionTo(new, f, k)
    PROVE  /\ state' \in States
           /\ failures' \in Nat
           /\ successes' \in 0 .. ProbesToClose - 1
           /\ sinceChange' \in 0 .. Forever
<1>1. Forever \in Nat
    BY ConfigAssumption DEF Forever
<1>2. /\ state' \in States /\ failures' \in Nat
      /\ sinceChange' \in 0 .. Forever
    BY <1>1 DEF TransitionTo, TypeOK
<1>3. successes' \in 0 .. ProbesToClose - 1
    BY DEF TransitionTo, TypeOK, States, ProbesToClose
<1> QED BY <1>2, <1>3

LEMMA LetThroughType ==
    ASSUME TypeOK, LetThrough
    PROVE  /\ state' \in States
           /\ failures' \in Nat
           /\ successes' \in 0 .. ProbesToClose - 1
           /\ sinceChange' \in 0 .. Forever
<1> DEFINE new == IF state = "open" THEN "half-open" ELSE state
<1>1. /\ new \in States /\ failures \in Nat /\ successes \in Nat
      /\ successes < ProbesToClose
    BY DEF TypeOK, States, ProbesToClose
<1>2. TransitionTo(new, failures, successes)
    BY DEF LetThrough
<1> HIDE DEF new
<1> QED BY <1>1, <1>2, TransitionType

LEMMA TypeInit == Init => TypeOK
<1> SUFFICES ASSUME Init PROVE TypeOK
    OBVIOUS
<1>1. Forever \in Nat
    BY ConfigAssumption DEF Forever
<1>2. sinceFailure \in 0 .. Forever /\ sinceChange \in 0 .. Forever
    BY <1>1 DEF Init
<1>3. successes \in 0 .. ProbesToClose - 1
    BY DEF Init, ProbesToClose
<1> QED BY <1>2, <1>3 DEF Init, TypeOK, States, PCs

LEMMA TypeStep == TypeOK /\ [Next]_vars => TypeOK'
<1> SUFFICES ASSUME TypeOK, [Next]_vars PROVE TypeOK'
    OBVIOUS
<1>f. Forever \in Nat
    BY ConfigAssumption DEF Forever
<1>1. ASSUME NEW c \in Callers, Admit(c) PROVE TypeOK'
    BY <1>1, LetThroughType DEF Admit, Goto, TypeOK, PCs
<1>2. ASSUME NEW c \in Callers, Reject(c) PROVE TypeOK'
    BY <1>2 DEF Reject, breaker, calls, TypeOK
<1>3. ASSUME NEW c \in Callers, Acquire(c) PROVE TypeOK'
    BY <1>3 DEF Acquire, Goto, breaker, totals, TypeOK, PCs
<1>4. ASSUME NEW c \in Callers, Refuse(c) PROVE TypeOK'
    BY <1>4 DEF Refuse, Goto, breaker, totals, TypeOK, PCs
<1>5. ASSUME NEW c \in Callers, NEW r \in {"ok", "err"}, FnReturns(c, r) PROVE TypeOK'
    BY <1>5 DEF FnReturns, breaker, totals, TypeOK
<1>6. ASSUME NEW c \in Callers, Receive(c) PROVE TypeOK'
    BY <1>6 DEF Receive, Goto, breaker, totals, TypeOK, PCs
<1>7. ASSUME NEW c \in Callers, Timeout(c) PROVE TypeOK'
    BY <1>7 DEF Timeout, Goto, breaker, totals, TypeOK, PCs
<1>8. ASSUME NEW c \in Callers, RecordSuccess(c) PROVE TypeOK'
  <2>1. pc' \in [Callers -> PCs]
    BY <1>8 DEF RecordSuccess, Goto, TypeOK, PCs
  <2>2. /\ state' \in States /\ failures' \in Nat
        /\ successes' \in 0 .. ProbesToClose - 1
        /\ sinceChange' \in 0 .. Forever
    <3>1. CASE state = "half-open"
      <4> DEFINE new == IF successes + 1 >= ProbesToClose THEN "closed" ELSE state
      <4>1. /\ new \in States /\ failures \in Nat /\ successes + 1 \in Nat
            /\ successes + 1 < ProbesToClose \/ (new = "closed" /\ state # "closed")
        BY <3>1 DEF TypeOK, States, ProbesToClose
      <4>2. TransitionTo(new, failures, successes + 1)
        BY <1>8, <3>1 DEF RecordSuccess
      <4> HIDE DEF new
      <4> QED BY <4>1, <4>2, TransitionType
    <3>2. CASE state # "half-open"
      BY <1>8, <3>2 DEF RecordSuccess, breaker, TypeOK
    <3> QED BY <3>1, <3>2
  <2> QED BY <1>8, <2>1, <2>2 DEF RecordSuccess, TypeOK
<1>9. ASSUME NEW c \in Callers, RecordFailure(c) PROVE TypeOK'
  <2>1. pc' \in [Callers -> PCs]
    BY <1>9 DEF RecordFailure, Goto, TypeOK, PCs
  <2>2. /\ state' \in States /\ failures' \in Nat
        /\ successes' \in 0 .. ProbesToClose - 1
        /\ sinceChange' \in 0 .. Forever
    <3> DEFINE new == IF failures + 1 >= MaxFailures THEN "open" ELSE state
    <3>1. /\ new \in States /\ "open" \in States
          /\ failures \in Nat /\ failures + 1 \in Nat /\ successes \in Nat
          /\ successes < ProbesToClose
      BY DEF TypeOK, States, ProbesToClose
    <3>2. \/ TransitionTo("open", failures, successes)
          \/ TransitionTo(new, failures + 1, successes)
      BY <1>9 DEF RecordFailure
    <3> HIDE DEF new
    <3> QED BY <3>1, <3>2, TransitionType
  <2>3. sinceFailure' \in 0 .. Forever /\ tripped' \in BOOLEAN
    BY <1>9, <1>f DEF RecordFailure, TypeOK
  <2> QED BY <1>9, <2>1, <2>2, <2>3 DEF RecordFailure, TypeOK
<1>10. ASSUME NEW c \in Callers, Release(c) PROVE TypeOK'
    BY <1>10 DEF Release, Goto, breaker, totals, TypeOK, PCs
<1>11. CASE OrphanReturns
    BY <1>11 DEF OrphanReturns, breaker, totals, TypeOK
<1>12. CASE IsReady
    BY <1>12, LetThroughType DEF IsReady, totals, calls, TypeOK
<1>13. CASE Reset
  <2>1. "closed" \in States /\ failures \in Nat /\ successes \in Nat /\ successes < ProbesToClose
    BY DEF TypeOK, States, ProbesToClose
  <2> QED BY <1>13, <2>1, TransitionType DEF Reset, totals, calls, TypeOK
<1>14. CASE Open
  <2>1. "open" \in States /\ failures \in Nat /\ successes \in Nat /\ successes < ProbesToClose
    BY DEF TypeOK, States, ProbesToClose
  <2> QED BY <1>14, <2>1, TransitionType DEF Open, totals, calls, TypeOK
<1>15. CASE Tick
    BY <1>15, <1>f DEF Tick, Older, totals, calls, TypeOK
<1>16. CASE UNCHANGED vars
    BY <1>16 DEF vars, breaker, totals, calls, TypeOK
<1> QED BY <1>1, <1>2, <1>3, <1>4, <1>5, <1>6, <1>7, <1>8, <1>9, <1>10,
           <1>11, <1>12, <1>13, <1>14, <1>15, <1>16 DEF Next, Step

\* Every variable of the breaker keeps its type, whatever the interleaving of
\* the callers of Execute with IsReady, Reset, Open and the clock.
THEOREM TypeCorrect == Spec => []TypeOK
BY TypeInit, TypeStep, PTL DEF Spec

-----------------------------------------------------------------------------
(* Slots and requests are accounted for. *)

LEMMA AtFinite == ASSUME NEW S PROVE IsFiniteSet(At(S)) /\ Cardinality(At(S)) \in Nat
<1>1. At(S) \subseteq Callers
    BY DEF At
<1>2. IsFiniteSet(At(S))
    BY <1>1, ConfigAssumption, FS_Subset
<1> QED BY <1>2, FS_CardinalityType

\* A caller that moves from a place in S to one outside leaves At(S) one
\* smaller, and so on for the three other cases.
LEMMA MoveCounts ==
    ASSUME TypeOK, NEW S, NEW c \in Callers, NEW a, NEW b, Goto(c, a, b)
    PROVE  /\ a \notin S /\ b \in S => Cardinality(At(S))' = Cardinality(At(S)) + 1
           /\ a \in S /\ b \notin S => Cardinality(At(S))' = Cardinality(At(S)) - 1
           /\ (a \in S <=> b \in S) => Cardinality(At(S))' = Cardinality(At(S))
<1>0. pc[c] = a /\ pc' = [pc EXCEPT ![c] = b] /\ pc \in [Callers -> PCs]
    BY DEF Goto, TypeOK
<1>1. CASE a \notin S /\ b \in S
  <2>1. At(S)' = At(S) \cup {c} /\ c \notin At(S)
    BY <1>0, <1>1 DEF At
  <2> QED BY <1>1, <2>1, AtFinite, FS_AddElement
<1>2. CASE a \in S /\ b \notin S
  <2>1. At(S)' = At(S) \ {c} /\ c \in At(S)
    BY <1>0, <1>2 DEF At
  <2> QED BY <1>2, <2>1, AtFinite, FS_RemoveElement
<1>3. CASE a \in S <=> b \in S
  <2>1. At(S)' = At(S)
    BY <1>0, <1>3 DEF At
  <2> QED BY <1>3, <2>1
<1> QED BY <1>1, <1>2, <1>3

LEMMA StayCounts ==
    ASSUME NEW S, pc' = pc PROVE Cardinality(At(S))' = Cardinality(At(S))
BY DEF At

LEMMA SlotsInit == Init => SlotsAccounted
<1> SUFFICES ASSUME Init PROVE SlotsAccounted
    OBVIOUS
<1>1. Holding = {}
    BY DEF Init, Holding, At, Recording
<1> QED BY <1>1, FS_EmptySet, ConfigAssumption DEF Init, SlotsAccounted

LEMMA SlotsStep == TypeOK /\ SlotsAccounted /\ [Next]_vars => SlotsAccounted'
<1> SUFFICES ASSUME TypeOK, SlotsAccounted, [Next]_vars PROVE SlotsAccounted'
    OBVIOUS
<1> DEFINE H == Recording \cup {"releasing"}
<1>0. /\ semaphore = Cardinality(At(H)) /\ semaphore \in Nat
      /\ semaphore <= MaxConcurrent /\ MaxConcurrent \in Nat
    BY ConfigAssumption DEF SlotsAccounted, Holding, TypeOK
<1>s. SUFFICES semaphore' = Cardinality(At(H))' /\ semaphore' <= MaxConcurrent
    BY DEF SlotsAccounted, Holding
<1>h. /\ "idle" \notin H /\ "admitted" \notin H /\ "refused" \notin H
      /\ "calling" \in H /\ "succeeding" \in H /\ "failing" \in H /\ "releasing" \in H
    BY DEF Recording
<1> HIDE DEF H
\* Only a step that takes or gives back a slot changes the semaphore.
<1>a. ASSUME NEW c \in Callers, NEW a, NEW b, Goto(c, a, b), semaphore' = semaphore,
             a \in H <=> b \in H
      PROVE  semaphore' = Cardinality(At(H))' /\ semaphore' <= MaxConcurrent
    BY <1>a, <1>0, MoveCounts
<1>b. ASSUME pc' = pc, semaphore' = semaphore
      PROVE  semaphore' = Cardinality(At(H))' /\ semaphore' <= MaxConcurrent
    BY <1>b, <1>0, StayCounts
<1>1. ASSUME NEW c \in Callers, Admit(c)
      PROVE  semaphore' = Cardinality(At(H))' /\ semaphore' <= MaxConcurrent
    BY <1>1, <1>a, <1>h DEF Admit
<1>2. ASSUME NEW c \in Callers, Acquire(c)
      PROVE  semaphore' = Cardinality(At(H))' /\ semaphore' <= MaxConcurrent
    BY <1>2, <1>0, <1>h, MoveCounts DEF Acquire
<1>3. ASSUME NEW c \in Callers, Refuse(c)
      PROVE  semaphore' = Cardinality(At(H))' /\ semaphore' <= MaxConcurrent
    BY <1>3, <1>a, <1>h DEF Refuse
<1>4. ASSUME NEW c \in Callers, Receive(c)
      PROVE  semaphore' = Cardinality(At(H))' /\ semaphore' <= MaxConcurrent
  <2>1. CASE fn[c] = "ok"
    BY <1>4, <2>1, <1>a, <1>h DEF Receive
  <2>2. CASE fn[c] # "ok"
    BY <1>4, <2>2, <1>a, <1>h DEF Receive
  <2> QED BY <2>1, <2>2
<1>5. ASSUME NEW c \in Callers, Timeout(c)
      PROVE  semaphore' = Cardinality(At(H))' /\ semaphore' <= MaxConcurrent
    BY <1>5, <1>a, <1>h DEF Timeout
<1>6. ASSUME NEW c \in Callers, RecordSuccess(c)
      PROVE  semaphore' = Cardinality(At(H))' /\ semaphore' <= MaxConcurrent
    BY <1>6, <1>a, <1>h DEF RecordSuccess
<1>7. ASSUME NEW c \in Callers, RecordFailure(c)
      PROVE  semaphore' = Cardinality(At(H))' /\ semaphore' <= MaxConcurrent
    BY <1>7, <1>a, <1>h DEF RecordFailure
<1>8. ASSUME NEW c \in Callers, Release(c)
      PROVE  semaphore' = Cardinality(At(H))' /\ semaphore' <= MaxConcurrent
    BY <1>8, <1>0, <1>h, MoveCounts DEF Release
<1>9. ASSUME NEW c \in Callers,
             Reject(c) \/ \E r \in {"ok", "err"} : FnReturns(c, r)
      PROVE  semaphore' = Cardinality(At(H))' /\ semaphore' <= MaxConcurrent
    BY <1>9, <1>b DEF Reject, FnReturns, calls
<1>10. CASE OrphanReturns \/ IsReady \/ Reset \/ Open \/ Tick \/ UNCHANGED vars
    BY <1>10, <1>b DEF OrphanReturns, IsReady, Reset, Open, Tick, vars, calls
<1> QED BY <1>1, <1>2, <1>3, <1>4, <1>5, <1>6, <1>7, <1>8, <1>9, <1>10
        DEF Next, Step

\* The semaphore of Execute neither leaks a slot nor gives one back twice, and
\* no more than MaxConcurrent calls are between acquire and release.
THEOREM SlotsCorrect == Spec => []SlotsAccounted
BY TypeInit, TypeStep, SlotsInit, SlotsStep, PTL DEF Spec

LEMMA RequestsInit == Init => RequestsAccounted
<1> SUFFICES ASSUME Init PROVE RequestsAccounted
    OBVIOUS
<1>1. Unrecorded = {}
    BY DEF Init, Unrecorded, At, Recording
<1> QED BY <1>1, FS_EmptySet DEF Init, RequestsAccounted

LEMMA RequestsStep == TypeOK /\ RequestsAccounted /\ [Next]_vars => RequestsAccounted'
<1> SUFFICES ASSUME TypeOK, RequestsAccounted, [Next]_vars PROVE RequestsAccounted'
    OBVIOUS
<1> DEFINE U == Recording \cup {"admitted", "refused"}
<1>0. /\ TotalRequests = TotalSuccesses + TotalFailures + Cardinality(At(U))
      /\ TotalRequests \in Nat /\ TotalSuccesses \in Nat /\ TotalFailures \in Nat
      /\ Cardinality(At(U)) \in Nat
    BY AtFinite DEF RequestsAccounted, Unrecorded, TypeOK
<1>s. SUFFICES TotalRequests' = TotalSuccesses' + TotalFailures' + Cardinality(At(U))'
    BY DEF RequestsAccounted, Unrecorded
<1>u. /\ "idle" \notin U /\ "releasing" \notin U
      /\ "admitted" \in U /\ "refused" \in U
      /\ "calling" \in U /\ "succeeding" \in U /\ "failing" \in U
    BY DEF Recording
<1> HIDE DEF U
<1>a. ASSUME NEW c \in Callers, NEW a, NEW b, Goto(c, a, b), a \in U, b \in U,
             UNCHANGED <<TotalRequests, TotalSuccesses, TotalFailures>>
      PROVE  TotalRequests' = TotalSuccesses' + TotalFailures' + Cardinality(At(U))'
    BY <1>a, <1>0, MoveCounts
<1>b. ASSUME pc' = pc, UNCHANGED <<TotalRequests, TotalSuccesses, TotalFailures>>
      PROVE  TotalRequests' = TotalSuccesses' + TotalFailures' + Cardinality(At(U))'
    BY <1>b, <1>0, StayCounts
<1>1. ASSUME NEW c \in Callers, Admit(c)
      PROVE  TotalRequests' = TotalSuccesses' + TotalFailures' + Cardinality(At(U))'
    BY <1>1, <1>0, <1>u, MoveCounts DEF Admit
<1>2. ASSUME NEW c \in Callers, Acquire(c) \/ Refuse(c)
      PROVE  TotalRequests' = TotalSuccesses' + TotalFailures' + Cardinality(At(U))'
    BY <1>2, <1>a, <1>u DEF Acquire, Refuse, totals
<1>3. ASSUME NEW c \in Callers, Receive(c)
      PROVE  TotalRequests' = TotalSuccesses' + TotalFailures' + Cardinality(At(U))'
  <2>1. CASE fn[c] = "ok"
    BY <1>3, <2>1, <1>a, <1>u DEF Receive, totals
  <2>2. CASE fn[c] # "ok"
    BY <1>3, <2>2, <1>a, <1>u DEF Receive, totals
  <2> QED BY <2>1, <2>2
<1>4. ASSUME NEW c \in Callers, Timeout(c)
      PROVE  TotalRequests' = TotalSuccesses' + TotalFailures' + Cardinality(At(U))'
    BY <1>4, <1>a, <1>u DEF Timeout, totals
<1>5. ASSUME NEW c \in Callers, RecordSuccess(c)
      PROVE  TotalRequests' = TotalSuccesses' + TotalFailures' + Cardinality(At(U))'
    BY <1>5, <1>0, <1>u, MoveCounts DEF RecordSuccess
<1>6. ASSUME NEW c \in Callers, RecordFailure(c)
      PROVE  TotalRequests' = TotalSuccesses' + TotalFailures' + Cardinality(At(U))'
    BY <1>6, <1>0, <1>u, MoveCounts DEF RecordFailure
<1>7. ASSUME NEW c \in Callers, Release(c)
      PROVE  TotalRequests' = TotalSuccesses' + TotalFailures' + Cardinality(At(U))'
    BY <1>7, <1>0, <1>u, MoveCounts DEF Release, totals
<1>8. ASSUME NEW c \in Callers,
             Reject(c) \/ \E r \in {"ok", "err"} : FnReturns(c, r)
      PROVE  TotalRequests' = TotalSuccesses' + TotalFailures' + Cardinality(At(U))'
    BY <1>8, <1>b DEF Reject, FnReturns, calls, totals
<1>9. CASE OrphanReturns \/ IsReady \/ Reset \/ Open \/ Tick \/ UNCHANGED vars
    BY <1>9, <1>b DEF OrphanReturns, IsReady, Reset, Open, Tick, vars, calls, totals
<1> QED BY <1>1, <1>2, <1>3, <1>4, <1>5, <1>6, <1>7, <1>8, <1>9 DEF Next, Step

\* Every admitted call is recorded once, as a success or as a failure, whatever
\* won the race between its result and its deadline.
THEOREM RequestsCorrect == Spec => []RequestsAccounted
BY TypeInit, TypeStep, RequestsInit, RequestsStep, PTL DEF Spec

-----------------------------------------------------------------------------
(* The threshold and the cool-down. *)

LEMMA ClosedInit == Init => ClosedBelowThreshold
BY ConfigAssumption DEF Init, ClosedBelowThreshold

LEMMA ClosedStep == TypeOK /\ ClosedBelowThreshold /\ [Next]_vars => ClosedBelowThreshold'
<1> SUFFICES ASSUME TypeOK, ClosedBelowThreshold, [Next]_vars, state' = "closed"
             PROVE  failures' < MaxFailures /\ successes' = 0
    BY DEF ClosedBelowThreshold
<1>0. /\ failures \in Nat /\ successes \in Nat /\ MaxFailures \in Nat \ {0}
      /\ state = "closed" => failures < MaxFailures /\ successes = 0
    BY ConfigAssumption DEF TypeOK, ClosedBelowThreshold, ProbesToClose
<1>1. ASSUME UNCHANGED breaker PROVE failures' < MaxFailures /\ successes' = 0
    BY <1>0, <1>1 DEF breaker
<1>2. CASE LetThrough
    BY <1>0, <1>2 DEF LetThrough, TransitionTo
<1>3. ASSUME NEW c \in Callers, RecordSuccess(c)
      PROVE  failures' < MaxFailures /\ successes' = 0
    BY <1>0, <1>1, <1>3 DEF RecordSuccess, TransitionTo
<1>4. ASSUME NEW c \in Callers, RecordFailure(c)
      PROVE  failures' < MaxFailures /\ successes' = 0
    BY <1>0, <1>4 DEF RecordFailure, TransitionTo
<1>5. CASE Reset \/ Open
    BY <1>0, <1>5 DEF Reset, Open, TransitionTo
<1>6. CASE Tick \/ UNCHANGED vars
    BY <1>0, <1>6 DEF Tick, vars, breaker
<1>7. ASSUME NEW c \in Callers, Step(c), ~RecordSuccess(c), ~RecordFailure(c)
      PROVE  LetThrough \/ UNCHANGED breaker
    BY <1>7 DEF Step, Admit, Reject, Acquire, Refuse, FnReturns, Receive, Timeout, Release
<1>8. CASE OrphanReturns \/ IsReady
    BY <1>8, <1>1, <1>2 DEF OrphanReturns, IsReady
<1> QED BY <1>1, <1>2, <1>3, <1>4, <1>5, <1>6, <1>7, <1>8 DEF Next

\* A closed circuit has room for another failure, and the successes of an
\* earlier half-open period never count towards a later one.
THEOREM ClosedCorrect == Spec => []ClosedBelowThreshold
BY TypeInit, TypeStep, ClosedInit, ClosedStep, PTL DEF Spec

\* The inductive part of the cool-down: while a circuit that failures opened is
\* open, its last failure is no older than its opening.
TrippedSince == state = "open" /\ tripped => sinceFailure <= sinceChange

LEMMA TrippedStep == TypeOK /\ TrippedSince /\ [Next]_vars => TrippedSince'
<1> SUFFICES ASSUME TypeOK, TrippedSince, [Next]_vars, state' = "open", tripped'
             PROVE  sinceFailure' <= sinceChange'
    BY DEF TrippedSince
<1>0. /\ sinceFailure \in 0 .. Forever /\ sinceChange \in 0 .. Forever /\ Forever \in Nat
      /\ state = "open" /\ tripped => sinceFailure <= sinceChange
    BY ConfigAssumption DEF TypeOK, TrippedSince, Forever
<1>1. ASSUME UNCHANGED <<state, tripped, sinceFailure, sinceChange>>
      PROVE  sinceFailure' <= sinceChange'
    BY <1>0, <1>1
<1>2. LetThrough => state' # "open"
    BY DEF LetThrough, TransitionTo
<1>3. ASSUME NEW c \in Callers, RecordSuccess(c)
      PROVE  sinceFailure' <= sinceChange'
    BY <1>0, <1>3 DEF RecordSuccess, TransitionTo, breaker
<1>4. ASSUME NEW c \in Callers, RecordFailure(c)
      PROVE  sinceFailure' <= sinceChange'
    BY <1>0, <1>4 DEF RecordFailure, TransitionTo
<1>5. CASE Reset \/ Open
    BY <1>0, <1>5 DEF Reset, Open, TransitionTo
<1>6. CASE Tick
    BY <1>0, <1>6 DEF Tick, Older
<1>7. ASSUME NEW c \in Callers, Step(c), ~RecordSuccess(c), ~RecordFailure(c)
      PROVE  LetThrough \/ UNCHANGED <<state, tripped, sinceFailure, sinceChange>>
    BY <1>7 DEF Step, Admit, Reject, Acquire, Refuse, FnReturns, Receive, Timeout,
                Release, breaker
<1>8. CASE OrphanReturns \/ IsReady \/ UNCHANGED vars
    BY <1>8, <1>1, <1>2 DEF OrphanReturns, IsReady, vars, breaker
<1> QED BY <1>1, <1>2, <1>3, <1>4, <1>5, <1>6, <1>7, <1>8 DEF Next

LEMMA HalfOpenWaited ==
    ASSUME TypeOK, TrippedSince, [Next]_vars,
           state = "open", state' = "half-open", tripped
    PROVE  sinceChange > ResetTimeout
<1>1. Allowed
    BY DEF Next, Step, Admit, Reject, Acquire, Refuse, FnReturns, Receive, Timeout,
           RecordSuccess, RecordFailure, Release, OrphanReturns, IsReady, Reset, Open,
           Tick, vars, breaker, TransitionTo
<1> QED BY <1>1, ConfigAssumption DEF Allowed, TrippedSince, TypeOK, Forever

\* A circuit opened by failures stays open for more than ResetTimeout.
THEOREM CoolDownCorrect == Spec => CoolDownHonoured
<1>1. Init => TrippedSince
    BY DEF Init, TrippedSince
<1>2. TypeOK /\ TrippedSince /\ [Next]_vars
        => [state = "open" /\ state' = "half-open" /\ tripped
              => sinceChange > ResetTimeout]_vars
    BY HalfOpenWaited
<1> QED BY <1>1, <1>2, TypeInit, TypeStep, TrippedStep, PTL DEF Spec, CoolDownHonoured

-----------------------------------------------------------------------------
(* CircuitBreaker implements AbstractBreaker. *)

\* The abstract variables, as functions of the detailed ones.
Mapped == <<state, Unrecorded, Saturated, successes, sinceFailure > ResetTimeout>>

\* The moves of a caller into, out of and within the calls in flight.
LEMMA Joins ==
    ASSUME TypeOK, NEW c \in Callers, Goto(c, "idle", "admitted")
    PROVE  c \notin Unrecorded /\ Unrecorded' = Unrecorded \cup {c}
BY DEF TypeOK, Goto, Unrecorded, At, Recording

LEMMA Leaves ==
    ASSUME TypeOK, NEW c \in Callers, NEW a \in Recording \cup {"refused"},
           NEW b \in {"releasing", "idle"}, Goto(c, a, b)
    PROVE  c \in Unrecorded /\ Unrecorded' = Unrecorded \ {c}
BY DEF TypeOK, Goto, Unrecorded, At, Recording

LEMMA StaysIn ==
    ASSUME TypeOK, NEW c \in Callers, NEW a, NEW b, Goto(c, a, b),
           a \in Recording \cup {"admitted", "refused"}
             <=> b \in Recording \cup {"admitted", "refused"}
    PROVE  Unrecorded' = Unrecorded
BY DEF TypeOK, Goto, Unrecorded, At, Recording

LEMMA LetThroughMaps ==
    ASSUME TypeOK, Allowed, LetThrough PROVE Abstract!LetIn
BY ConfigAssumption
   DEF Allowed, LetThrough, TransitionTo, TypeOK, Saturated, States, Abstract!LetIn,
       Abstract!Ready, Abstract!Enter

LEMMA RefinementInit == Init => Abstract!Init
BY ConfigAssumption
   DEF Init, Abstract!Init, Unrecorded, At, Recording, Saturated, Forever

LEMMA RefinementStep == TypeOK /\ [Next]_vars => [Abstract!Next]_(Abstract!breakerVars)
<1> SUFFICES ASSUME TypeOK, [Next]_vars
             PROVE  Abstract!Next \/ UNCHANGED Mapped
    BY DEF Mapped, Abstract!breakerVars
<1>0. /\ failures \in Nat /\ successes \in 0 .. 2 /\ state \in States
      /\ MaxFailures \in Nat \ {0} /\ ResetTimeout \in Nat
      /\ sinceFailure \in 0 .. Forever
    BY ConfigAssumption DEF TypeOK, ProbesToClose
<1>i. pc' = pc => Unrecorded' = Unrecorded
    BY DEF Unrecorded, At
<1>1. ASSUME NEW c \in Callers, Admit(c) PROVE Abstract!Next
    BY <1>1, LetThroughMaps, Joins DEF Admit, Abstract!Admit, Abstract!Next
<1>2. ASSUME NEW c \in Callers, Reject(c) PROVE UNCHANGED Mapped
    BY <1>2, <1>i DEF Reject, breaker, calls, Mapped, Saturated
<1>3. ASSUME NEW c \in Callers, Acquire(c) \/ Refuse(c) \/ Timeout(c) \/ Release(c)
      PROVE  UNCHANGED Mapped
  <2>1. Unrecorded' = Unrecorded
    BY <1>3, StaysIn DEF Acquire, Refuse, Timeout, Release, Recording
  <2> QED BY <1>3, <2>1 DEF Acquire, Refuse, Timeout, Release, breaker, Mapped, Saturated
<1>4. ASSUME NEW c \in Callers, Receive(c) PROVE UNCHANGED Mapped
  <2>1. CASE fn[c] = "ok"
    <3>1. Unrecorded' = Unrecorded
      BY <1>4, <2>1, StaysIn DEF Receive, Recording
    <3> QED BY <1>4, <3>1 DEF Receive, breaker, Mapped, Saturated
  <2>2. CASE fn[c] # "ok"
    <3>1. Unrecorded' = Unrecorded
      BY <1>4, <2>2, StaysIn DEF Receive, Recording
    <3> QED BY <1>4, <3>1 DEF Receive, breaker, Mapped, Saturated
  <2> QED BY <2>1, <2>2
<1>5. ASSUME NEW c \in Callers, NEW r \in {"ok", "err"}, FnReturns(c, r)
      PROVE  UNCHANGED Mapped
    BY <1>5, <1>i DEF FnReturns, breaker, Mapped, Saturated
<1>6. ASSUME NEW c \in Callers, RecordSuccess(c) PROVE Abstract!Succeed(c)
  <2>1. c \in Unrecorded /\ Unrecorded' = Unrecorded \ {c}
    BY <1>6, Leaves DEF RecordSuccess, Recording
  <2>2. sinceFailure' = sinceFailure
    BY <1>6 DEF RecordSuccess
  <2>3. CASE state # "half-open"
    BY <1>6, <2>1, <2>2, <2>3 DEF RecordSuccess, breaker, Saturated, Abstract!Succeed
  <2>4. CASE state = "half-open" /\ successes = 2
    <3>1. TransitionTo("closed", failures, 3)
      BY <1>6, <2>4 DEF RecordSuccess, ProbesToClose
    <3>2. Abstract!Enter("closed")
      BY <3>1, <2>4, <1>0 DEF TransitionTo, Saturated, Abstract!Enter
    <3> QED BY <2>1, <2>2, <2>4, <3>2 DEF Abstract!Succeed
  <2>5. CASE state = "half-open" /\ successes # 2
    <3>1. TransitionTo(state, failures, successes + 1)
      BY <1>6, <2>5, <1>0 DEF RecordSuccess, ProbesToClose
    <3>2. state' = state /\ failures' = failures /\ successes' = successes + 1
      BY <3>1 DEF TransitionTo
    <3> QED BY <2>1, <2>2, <2>5, <3>2 DEF Saturated, Abstract!Succeed
  <2> QED BY <2>3, <2>4, <2>5
<1>7. ASSUME NEW c \in Callers, RecordFailure(c) PROVE Abstract!Fail(c)
  <2>1. c \in Unrecorded /\ Unrecorded' = Unrecorded \ {c}
    BY <1>7, Leaves DEF RecordFailure, Recording
  <2>2. ~(sinceFailure' > ResetTimeout)
    BY <1>7, <1>0 DEF RecordFailure
  <2>3. CASE state = "half-open"
    <3>1. state' = "open" /\ failures' = failures /\ successes' = successes
      BY <1>7, <2>3 DEF RecordFailure, TransitionTo
    <3> QED BY <2>1, <2>2, <2>3, <3>1 DEF Saturated, Abstract!Fail
  <2>4. CASE state # "half-open"
    <3>1. /\ state' = IF failures + 1 >= MaxFailures THEN "open" ELSE state
          /\ failures' = failures + 1 /\ successes' = successes
      BY <1>7, <2>4, <1>0 DEF RecordFailure, TransitionTo, States
    <3>2. Saturated' = IF Saturated < MaxFailures THEN Saturated + 1 ELSE Saturated
      BY <3>1, <1>0 DEF Saturated
    <3>3. Saturated + 1 >= MaxFailures <=> failures + 1 >= MaxFailures
      BY <1>0 DEF Saturated
    <3> QED BY <2>1, <2>2, <2>4, <3>1, <3>2, <3>3 DEF Abstract!Fail
  <2> QED BY <2>3, <2>4
<1>8. CASE OrphanReturns
    BY <1>8, <1>i DEF OrphanReturns, breaker, Mapped, Saturated
<1>9. CASE IsReady
    BY <1>9, <1>i, LetThroughMaps DEF IsReady, calls, Abstract!Ask, Abstract!Next
<1>10. CASE Reset
  <2>1. Abstract!Enter("closed")
    BY <1>10, <1>0 DEF Reset, TransitionTo, Saturated, Abstract!Enter
  <2> QED BY <1>10, <1>i, <2>1 DEF Reset, calls, Abstract!Reset, Abstract!Next
<1>11. CASE Open
  <2>1. Abstract!Enter("open")
    BY <1>11, <1>0 DEF Open, TransitionTo, Saturated, Abstract!Enter
  <2> QED BY <1>11, <1>i, <2>1 DEF Open, calls, Abstract!Open, Abstract!Next
<1>12. CASE Tick
  <2>1. sinceFailure > ResetTimeout => sinceFailure' > ResetTimeout
    BY <1>12, <1>0 DEF Tick, Older, Forever
  <2>2. (sinceFailure' > ResetTimeout) \in BOOLEAN /\ (sinceFailure > ResetTimeout) \in BOOLEAN
    OBVIOUS
  <2>3. UNCHANGED <<state, Unrecorded, Saturated, successes>>
    BY <1>12, <1>i DEF Tick, calls, Saturated
  <2>4. CASE sinceFailure' > ResetTimeout
    <3>1. (sinceFailure' > ResetTimeout) = TRUE
      BY <2>4
    <3>2. Abstract!CoolDown
      BY <3>1, <2>3 DEF Abstract!CoolDown
    <3> QED BY <3>2 DEF Abstract!Next
  <2>5. CASE ~(sinceFailure' > ResetTimeout)
    <3>1. (sinceFailure' > ResetTimeout) = (sinceFailure > ResetTimeout)
      BY <2>1, <2>5
    <3> QED BY <2>3, <3>1 DEF Mapped
  <2> QED BY <2>4, <2>5
<1>13. CASE UNCHANGED vars
    BY <1>13, <1>i DEF vars, breaker, calls, Mapped, Saturated
<1> QED BY <1>1, <1>2, <1>3, <1>4, <1>5, <1>6, <1>7, <1>8, <1>9, <1>10, <1>11,
           <1>12, <1>13 DEF Next, Step, Abstract!Next

\* The breaker of the code, with its semaphore, deadlines and detached
\* functions, is a circuit breaker as AbstractBreaker describes one.
THEOREM Refinement == Spec => ImplementsAbstract
BY RefinementInit, RefinementStep, TypeInit, TypeStep, PTL
   DEF Spec, ImplementsAbstract, Abstract!Spec
=============================================================================
