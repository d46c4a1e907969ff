---------------------------- MODULE ProviderSearch ----------------------------
(***************************************************************************)
(* The search for the domains of one provider                              *)
(* (handlers/provider_domain_search.go): the nameservers listed under its  *)
(* name, the domains of each of them up to a limit, and the answer cached  *)
(* in Redis under a key without the limit.  Requests at the same time      *)
(* share one search, which runs in the context of the request that came    *)
(* first: when that client hangs up, queries fail and the search goes on.  *)
(*                                                                         *)
(* Names are those that match already; the queries of one nameserver are   *)
(* one step.                                                               *)
(***************************************************************************)
EXTENDS Naturals, FiniteSets, Functions

CONSTANTS Reqs, Domains,
          Servers,  \* nameservers
          Old,      \* [Servers -> SUBSET Domains]: reverse_ns
          First,    \* [Servers -> SUBSET Domains]: reverse_ns_sharded at first
          Known,    \* the nameservers in provider_ns at first
          New,      \* rows that uploads may insert: SUBSET (Servers \X Domains)
          Limits,   \* the limits asked for
          TTL,      \* providerDomainCacheTTL, in ticks
          NoAnswer,
          MaxErrors \* bound of the model: errors of Redis and ScyllaDB

ASSUME SearchAssumption ==
    /\ IsFiniteSet(Servers) /\ IsFiniteSet(Domains)
    /\ Old \in [Servers -> SUBSET Domains]
    /\ First \in [Servers -> SUBSET Domains]
    /\ Known \subseteq Servers /\ New \subseteq Servers \X Domains
    /\ Limits \subseteq Nat \ {0} /\ TTL \in Nat \ {0} /\ MaxErrors \in Nat
    /\ NoAnswer \notin [domains : SUBSET (Domains \X Servers), total : Nat,
                        limit : Limits \cup {0}, had : SUBSET Domains]

VARIABLES
    shardedRows,      \* reverse_ns_sharded: the domains of each nameserver
    listed,           \* the nameservers in provider_ns
    cached, life,     \* the cached answer, ticks until it expires
    pc, limit,        \* per request: where it is, its limit
    todo, found,      \* nameservers still to read; domain and nameserver found
    total,            \* response.TotalDomains
    gone,             \* requests whose client hung up
    had,              \* history: the domains there were when the search began
    errors            \* calls of Redis and ScyllaDB that failed

tables     == <<shardedRows, listed>>
redis      == <<cached, life>>
search     == <<todo, found, total, had>>
searchVars == <<tables, redis, pc, limit, search, gone, errors>>

InitSearch ==
    /\ shardedRows = First /\ listed = Known
    /\ cached = NoAnswer /\ life = 0
    /\ pc = [r \in Reqs |-> "idle"] /\ limit = [r \in Reqs |-> 0]
    /\ todo = [r \in Reqs |-> {}] /\ found = [r \in Reqs |-> {}]
    /\ total = [r \in Reqs |-> 0] /\ had = [r \in Reqs |-> {}]
    /\ gone = {}
    /\ errors = 0

-----------------------------------------------------------------------------

Fault == errors < MaxErrors /\ errors' = errors + 1

\* A query of r fails: the database has an error, or the client is gone.
Error(r) == (r \in gone /\ UNCHANGED errors) \/ Fault

\* Both tables are asked, the sharded one only when the legacy one is empty.
RowsOf(n)   == IF Old[n] # {} THEN Old[n] ELSE shardedRows[n]
Visible   == UNION {RowsOf(n) : n \in listed}
Count(ns) == SumFunctionOnSet([n \in Servers |-> Cardinality(RowsOf(n))], ns)

\* When a query of the legacy table fails the sharded one is asked as well.
Either(n)  == Old[n] \cup shardedRows[n]
Most(ns)   == SumFunctionOnSet([n \in Servers |-> Cardinality(Either(n))], ns)

Names(pairs) == {p[1] : p \in pairs}

-----------------------------------------------------------------------------
(* GetProviderDomainSearch. *)

Searching == {"get", "list", "count", "fetch", "save"}
Leaders == {r \in Reqs : pc[r] \in Searching}

Goto(r, from, to) == pc[r] = from /\ pc' = [pc EXCEPT ![r] = to]

Lead(r, l) ==
    /\ Leaders = {}
    /\ Goto(r, "idle", "get")
    /\ limit' = [limit EXCEPT ![r] = l]
    /\ UNCHANGED <<tables, redis, search, gone, errors>>

Follow(r, l) ==
    /\ Leaders # {}
    /\ Goto(r, "idle", "waiting")
    /\ limit' = [limit EXCEPT ![r] = l]
    /\ UNCHANGED <<tables, redis, search, gone, errors>>

\* A mutant: a request whose client is gone answers nobody.
FinishUnlessGone(r) ==
    LET all == {q \in Reqs : q = r \/ (pc[q] = "waiting" /\ r \notin gone)} IN
    /\ pc' = [q \in Reqs |-> IF q \in all THEN "idle" ELSE pc[q]]
    /\ limit' = [q \in Reqs |-> IF q \in all THEN 0 ELSE limit[q]]
    /\ gone' = gone \ all
    /\ todo' = [todo EXCEPT ![r] = {}] /\ found' = [found EXCEPT ![r] = {}]
    /\ total' = [total EXCEPT ![r] = 0] /\ had' = [had EXCEPT ![r] = {}]

\* The leader's answer, or its error, is that of all who wait.
Finish(r) ==
    LET all == {q \in Reqs : q = r \/ pc[q] = "waiting"} IN
    /\ pc' = [q \in Reqs |-> IF q \in all THEN "idle" ELSE pc[q]]
    /\ limit' = [q \in Reqs |-> IF q \in all THEN 0 ELSE limit[q]]
    /\ gone' = gone \ all
    /\ todo' = [todo EXCEPT ![r] = {}] /\ found' = [found EXCEPT ![r] = {}]
    /\ total' = [total EXCEPT ![r] = 0] /\ had' = [had EXCEPT ![r] = {}]

\* The context of a request is cancelled; who only waits does not notice.
HangUp(r) ==
    /\ pc[r] # "idle"
    /\ gone' = gone \cup {r}
    /\ UNCHANGED <<tables, redis, pc, limit, search, errors>>

-----------------------------------------------------------------------------
(* fetchProviderDomains. *)

Hit(r) ==
    /\ pc[r] = "get" /\ cached # NoAnswer /\ r \notin gone
    /\ Finish(r)
    /\ UNCHANGED <<tables, redis, errors>>

Miss(r) ==
    /\ cached = NoAnswer /\ r \notin gone
    /\ Goto(r, "get", "list")
    /\ UNCHANGED <<tables, redis, limit, search, gone, errors>>

GetFails(r) ==
    /\ pc[r] = "get" /\ Error(r)
    /\ Finish(r)
    /\ UNCHANGED <<tables, redis>>

\* This query is not bound to the context.
ListNS(r) ==
    /\ listed # {}
    /\ Goto(r, "list", "count")
    /\ todo' = [todo EXCEPT ![r] = listed]
    /\ had' = [had EXCEPT ![r] = Visible]
    /\ UNCHANGED <<tables, redis, limit, found, total, gone, errors>>

\* No nameservers, which is an answer but not cached; or an error.
ListNothing(r) ==
    /\ pc[r] = "list"
    /\ (listed = {} /\ UNCHANGED errors) \/ Fault
    /\ Finish(r)
    /\ UNCHANGED <<tables, redis>>

\* Counts that fail count for nothing.
CountDomains(r) ==
    /\ Goto(r, "count", "fetch")
    /\ \/ /\ r \notin gone /\ UNCHANGED errors
          /\ total' = [total EXCEPT ![r] = Count(todo[r])]
       \/ /\ Error(r)
          /\ \E t \in 0 .. Most(todo[r]) : total' = [total EXCEPT ![r] = t]
    /\ UNCHANGED <<tables, redis, limit, todo, found, gone, had>>

Least(a, b) == IF a < b THEN a ELSE b

\* What a read of nameserver n may add: domains not seen before, as far as the
\* limit goes...
Added(r, n) ==
    LET new  == RowsOf(n) \ Names(found[r])
        room == Least(limit[r] - Cardinality(found[r]), Cardinality(new)) IN
    {ds \in SUBSET new : Cardinality(ds) = room}

\* ... or whatever was read before or after a query that failed.
AddedOnError(r, n) ==
    {ds \in SUBSET (Either(n) \ Names(found[r])) :
        Cardinality(ds) <= limit[r] - Cardinality(found[r])}

Fetch(r) ==
    \E n \in todo[r] :
        /\ \/ /\ r \notin gone /\ UNCHANGED errors
              /\ \E ds \in Added(r, n) : found' = [found EXCEPT ![r] = @ \cup (ds \X {n})]
           \/ /\ Error(r)
              /\ \E ds \in AddedOnError(r, n) : found' = [found EXCEPT ![r] = @ \cup (ds \X {n})]
        /\ todo' = [todo EXCEPT ![r] = IF Cardinality(found'[r]) >= limit[r] THEN {} ELSE @ \ {n}]
        /\ Goto(r, "fetch", IF todo'[r] = {} THEN "save" ELSE "fetch")
        /\ UNCHANGED <<tables, redis, limit, total, gone, had>>

Answer(r) == [domains |-> found[r], total |-> total[r], limit |-> limit[r], had |-> had[r]]

\* Mutants: the answer is cached whether the client is there or not...
SaveDetached(r) ==
    /\ pc[r] = "save"
    /\ cached' = Answer(r) /\ life' = TTL
    /\ Finish(r)
    /\ UNCHANGED <<tables, errors>>

\* ... or without a lifetime.
SaveForever(r) ==
    /\ pc[r] = "save" /\ r \notin gone
    /\ cached' = Answer(r) /\ UNCHANGED life
    /\ Finish(r)
    /\ UNCHANGED <<tables, errors>>

Save(r) ==
    /\ pc[r] = "save" /\ r \notin gone
    /\ cached' = Answer(r) /\ life' = TTL
    /\ Finish(r)
    /\ UNCHANGED <<tables, errors>>

SaveFails(r) ==
    /\ pc[r] = "save" /\ Error(r)
    /\ Finish(r)
    /\ UNCHANGED <<tables, redis>>

-----------------------------------------------------------------------------
(* Time in Redis, and uploads: rows first, the nameserver when aggregates *)
(* are flushed.                                                           *)

Tick ==
    /\ life' = IF life > 0 THEN life - 1 ELSE 0
    /\ cached' = IF life = 1 THEN NoAnswer ELSE cached
    /\ UNCHANGED <<tables, pc, limit, search, gone, errors>>

Insert(n, d) ==
    /\ <<n, d>> \in New /\ d \notin shardedRows[n]
    /\ shardedRows' = [shardedRows EXCEPT ![n] = @ \cup {d}]
    /\ UNCHANGED <<listed, redis, pc, limit, search, gone, errors>>

List(n) ==
    /\ n \notin listed /\ shardedRows[n] # {}
    /\ listed' = listed \cup {n}
    /\ UNCHANGED <<shardedRows, redis, pc, limit, search, gone, errors>>

-----------------------------------------------------------------------------

Work(r) ==
    \/ Hit(r) \/ Miss(r) \/ GetFails(r) \/ ListNS(r) \/ ListNothing(r)
    \/ CountDomains(r) \/ Fetch(r) \/ Save(r) \/ SaveFails(r)

SearchNext ==
    \/ \E r \in Reqs : Work(r) \/ HangUp(r) \/ \E l \in Limits : Lead(r, l) \/ Follow(r, l)
    \/ \E n \in Servers : List(n) \/ \E d \in Domains : Insert(n, d)
    \/ Tick

\* Goroutines are scheduled, queries return and time passes.  Nobody has to
\* search, to hang up or to upload.
SearchFairness == (\A r \in Reqs : WF_searchVars(Work(r))) /\ WF_searchVars(Tick)

SearchSpec == InitSearch /\ [][SearchNext]_searchVars
FairSearchSpec == SearchSpec /\ SearchFairness

-----------------------------------------------------------------------------

\* Types; a domain is found under one nameserver, and no more than asked for.
TypeOK ==
    /\ shardedRows \in [Servers -> SUBSET Domains] /\ listed \subseteq Servers
    /\ life \in 0 .. TTL /\ (life = 0 <=> cached = NoAnswer)
    /\ pc \in [Reqs -> Searching \cup {"idle", "waiting"}]
    /\ limit \in [Reqs -> Limits \cup {0}]
    /\ todo \in [Reqs -> SUBSET Servers]
    /\ total \in [Reqs -> Nat] /\ had \in [Reqs -> SUBSET Domains]
    /\ \A r \in Reqs :
          /\ found[r] \subseteq Domains \X Servers
          /\ Cardinality(found[r]) = Cardinality(Names(found[r]))
          /\ Cardinality(found[r]) <= limit[r]
    /\ gone \subseteq {r \in Reqs : pc[r] # "idle"}
    /\ errors \in 0 .. MaxErrors

\* As long as the databases make no errors, a cached answer is whole: it counts
\* the domains there were when the search began and holds as many as its limit
\* allowed, whoever hung up at whatever moment of the search; with the types.
CacheWhole ==
    TypeOK /\ (errors = 0 /\ cached # NoAnswer =>
        /\ Cardinality(cached.domains) >= Least(cached.limit, Cardinality(cached.had))
        /\ cached.total >= Cardinality(cached.had))

\* Every request is answered, also when the client whose context the search
\* runs in is gone.
EveryRequestAnswered == \A r \in Reqs : pc[r] # "idle" ~> pc[r] = "idle"

\* When nobody uploads any more, the cache becomes right and stays so, although
\* errors or searches under way may have cached an old or a partial answer.
Quiet == \A p \in New : p[2] \in shardedRows[p[1]] /\ p[1] \in listed
CacheRight ==
    cached # NoAnswer =>
        /\ cached.total = Count(listed)
        /\ Cardinality(cached.domains) = Least(cached.limit, Cardinality(Visible))
SearchSettles == Quiet ~> []CacheRight
=============================================================================
