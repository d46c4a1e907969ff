---------------------------- MODULE AbstractBreaker ----------------------------
(***************************************************************************)
(* What a circuit breaker promises, without semaphore, deadlines, metrics  *)
(* or clocks: calls are let in while the circuit is not open, or once it   *)
(* has cooled down, and each is recorded as one success or one failure.    *)
(* Failures beyond MaxFailures are not told apart: the code only compares  *)
(* their number with the threshold.                                        *)
(***************************************************************************)
EXTENDS Integers

CONSTANTS Callers, MaxFailures

VARIABLES mode,       \* closed, open or half-open
          inflight,   \* callers let in and not yet recorded
          failures,   \* recorded since the circuit was last closed, saturating
          successes,  \* recorded in a row since it was last half-open
          cooled      \* ResetTimeout has passed since the last failure

breakerVars == <<mode, inflight, failures, successes, cooled>>

Init ==
    /\ mode = "closed" /\ inflight = {}
    /\ failures = 0 /\ successes = 0
    /\ cooled = TRUE

Enter(new) ==
    /\ mode' = new
    /\ failures' = IF new = "closed" /\ mode # "closed" THEN 0 ELSE failures
    /\ successes' = IF new # "open" /\ mode # new THEN 0 ELSE successes

Ready == mode # "open" \/ cooled

LetIn == Ready /\ Enter(IF mode = "open" THEN "half-open" ELSE mode)

\* IsReady asked and said yes: an open circuit is now half-open.
Ask == LetIn /\ UNCHANGED <<inflight, cooled>>

Admit(c) ==
    /\ c \notin inflight
    /\ LetIn
    /\ inflight' = inflight \cup {c}
    /\ UNCHANGED cooled

\* The third success of a half-open period closes the circuit.
Succeed(c) ==
    /\ c \in inflight
    /\ inflight' = inflight \ {c}
    /\ CASE mode # "half-open"             -> UNCHANGED <<mode, failures, successes>>
         [] mode = "half-open" /\ successes = 2 -> Enter("closed")
         [] OTHER -> successes' = successes + 1 /\ UNCHANGED <<mode, failures>>
    /\ UNCHANGED cooled

\* A failure opens a half-open circuit, and a closed one at the threshold.
Fail(c) ==
    /\ c \in inflight
    /\ inflight' = inflight \ {c}
    /\ cooled' = FALSE
    /\ IF mode = "half-open"
       THEN mode' = "open" /\ UNCHANGED failures
       ELSE /\ failures' = IF failures < MaxFailures THEN failures + 1 ELSE failures
            /\ mode' = IF failures + 1 >= MaxFailures THEN "open" ELSE mode
    /\ UNCHANGED successes

CoolDown == cooled' = TRUE /\ UNCHANGED <<mode, inflight, failures, successes>>

Reset == Enter("closed") /\ UNCHANGED <<inflight, cooled>>
Open  == Enter("open") /\ UNCHANGED <<inflight, cooled>>

Next ==
    \/ \E c \in Callers : Admit(c) \/ Succeed(c) \/ Fail(c)
    \/ Ask \/ CoolDown \/ Reset \/ Open

Spec == Init /\ [][Next]_breakerVars
=============================================================================
