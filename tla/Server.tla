-------------------------------- MODULE Server --------------------------------
(***************************************************************************)
(* The life of cmd/server around its requests: a signal ends Accept, the   *)
(* drain waits for the requests in flight or thirty seconds, a forced close *)
(* ends the connections of those still there, and main closes the client   *)
(* of the dependency on its way out.  The readiness checks are HealthCheck; *)
(* of the API a request is known that runs for as long as it likes (the    *)
(* server has neither read nor write timeouts).                            *)
(***************************************************************************)
EXTENDS Integers

CONSTANTS Callers, MaxFailures,   \* see HealthCheck
          ApiRequests

ASSUME ServerAssumption == MaxFailures \in Nat \ {0} /\ Callers \cap ApiRequests = {}

VARIABLES
    mode, inflight, failures, successes, cooled,
    client, handler, check, trouble,   \* see HealthCheck
    server,   \* where main is
    opened,   \* Initialize succeeded, so that a Close is deferred
    api,      \* the requests of the API that are in flight
    forced    \* the drain ended by its deadline

H == INSTANCE HealthCheck

checkVars == <<mode, inflight, failures, successes, cooled, client, handler, check, trouble>>
vars == <<checkVars, server, opened, api, forced>>

Init ==
    /\ H!Init
    /\ server = "up" /\ opened = (mode = "closed")
    /\ api = {} /\ forced = FALSE

Running == server # "exited"
ClientClosed == server = "closed" /\ opened
InFlight == {p \in Callers : handler[p] = "waiting"} \cup api

-----------------------------------------------------------------------------

\* The checks go on while the process does.  No new request comes in after the
\* signal; a query on the closed client fails, and so does one whose request
\* lost its connection.
Checks ==
    /\ Running
    /\ \/ H!Calm \/ H!CoolDown
       \/ \E p \in Callers :
             \/ server = "up" /\ H!Begin(p)
             \/ ~ClientClosed /\ H!RecordOk(p)
             \/ H!GiveUp(p) \/ H!Call(p) \/ H!Doom(p) \/ H!RecordDoomed(p)
             \/ H!Answer(p) \/ H!Timer(p) \/ H!Discard(p)
    /\ UNCHANGED <<server, opened, api, forced>>

Cut(p) ==
    /\ Running /\ check[p] = "calling" /\ (forced \/ ClientClosed)
    /\ check' = [check EXCEPT ![p] = "doomed"]
    /\ UNCHANGED <<mode, inflight, failures, successes, cooled, client, handler, trouble>>
    /\ UNCHANGED <<server, opened, api, forced>>

ApiBegin(r) ==
    /\ server = "up" /\ api' = api \cup {r}
    /\ UNCHANGED <<checkVars, server, opened, forced>>

ApiEnd(r) ==
    /\ Running /\ r \in api /\ api' = api \ {r}
    /\ UNCHANGED <<checkVars, server, opened, forced>>

Signal ==
    /\ server = "up" /\ server' = "draining"
    /\ UNCHANGED <<checkVars, opened, api, forced>>

\* A mutant: only the checks are waited for.
DrainedOfChecks ==
    /\ server = "draining" /\ \A p \in Callers : handler[p] = "idle"
    /\ server' = "drained"
    /\ UNCHANGED <<checkVars, opened, api, forced>>

\* A mutant: the drain has no deadline.
DrainDeadlineNever ==
    /\ server = "draining" /\ InFlight = {}
    /\ server' = "drained" /\ forced' = TRUE
    /\ UNCHANGED <<checkVars, opened, api>>

\* srv.Shutdown returns, and the wait for a group that nobody joins with it.
Drained ==
    /\ server = "draining" /\ InFlight = {}
    /\ server' = "drained"
    /\ UNCHANGED <<checkVars, opened, api, forced>>

\* Thirty seconds; srv.Close does not wait for the handlers, and nothing else
\* does.
DrainDeadline ==
    /\ server = "draining"
    /\ server' = "drained" /\ forced' = TRUE
    /\ UNCHANGED <<checkVars, opened, api>>

\* The deferred Close, which leaves the pointer to the client as it is.
CloseClient ==
    /\ server = "drained" /\ server' = "closed"
    /\ UNCHANGED <<checkVars, opened, api, forced>>

\* main returns: what still runs is gone.
Exit ==
    /\ server = "closed" /\ server' = "exited"
    /\ UNCHANGED <<checkVars, opened, api, forced>>

Main == Signal \/ Drained \/ DrainDeadline \/ CloseClient \/ Exit

Next ==
    \/ Checks \/ Main
    \/ \E p \in Callers : Cut(p)
    \/ \E r \in ApiRequests : ApiBegin(r) \/ ApiEnd(r)

\* The checks have the fairness of HealthCheck while the process runs.  No
\* signal need come, no request of the API need end; deadlines pass.
Fairness ==
    /\ \A p \in Callers :
          /\ WF_vars(H!Begin(p) /\ Checks)
          /\ WF_vars((H!GiveUp(p) \/ H!Call(p)) /\ Checks)
          /\ WF_vars(((H!RecordOk(p) \/ H!Doom(p)) /\ Checks) \/ Cut(p))
          /\ WF_vars(H!RecordDoomed(p) /\ Checks)
          /\ WF_vars(H!Answer(p) /\ Checks)
          /\ WF_vars(H!Timer(p) /\ Checks)
          /\ WF_vars(H!Discard(p) /\ Checks)
    /\ WF_vars(H!CoolDown /\ Checks)
    /\ WF_vars(Drained \/ DrainDeadline \/ CloseClient \/ Exit)

Spec == Init /\ [][Next]_vars
FairSpec == Spec /\ Fairness

-----------------------------------------------------------------------------

\* Types, those of the checks among them, and: without the deadline the client
\* is not closed before every request was answered, checks and API alike.
DrainHonoured ==
    /\ H!TypeOK
    /\ server \in {"up", "draining", "drained", "closed", "exited"}
    /\ api \subseteq ApiRequests /\ {opened, forced} \subseteq BOOLEAN
    /\ server \in {"closed", "exited"} /\ ~forced => InFlight = {}

\* A request for readiness is answered and its goroutine ends, even when the
\* dependency hangs and the request gave up waiting, unless the process ends.
EveryCheckEnds ==
    \A p \in Callers : []<>((handler[p] = "idle" /\ check[p] = "none") \/ ~Running)

\* While no signal comes: once the dependency answers promptly again the
\* circuit closes and stays closed, however many late failures of detached
\* checks are still to be recorded, provided there is a client to query with.
Recovers == <>[](server = "up" /\ client /\ ~trouble) => <>[](mode = "closed")

\* After a signal the process ends, also with requests that never do.
ServerExits == []<>(server \in {"up", "exited"})
===============================================================================
