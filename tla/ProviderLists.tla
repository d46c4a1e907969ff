---------------------------- MODULE ProviderLists ----------------------------
(***************************************************************************)
(* The lists of providers (handlers/hosting_providers.go) and the          *)
(* breakdown of a provider by nameserver (provider_ns_breakdown.go): cached *)
(* in Redis for 30 minutes, read from provider_stats and provider_ns at a  *)
(* miss, all requests for a key sharing one fetch (singleflight).          *)
(*                                                                         *)
(* The state is the fetch in flight for each key; a request that finds one *)
(* waits for it and changes nothing.  The list of providers is scanned row *)
(* by row while the backfill writes the table.  A list is the set of its   *)
(* pairs: the order of the answer is left out.                             *)
(***************************************************************************)
EXTENDS Naturals, Sequences, FiniteSets

CONSTANTS ListKeys,   \* hosting-providers:all, hosting-providers:top10
          Breakdown,  \* hosting-providers:ns-breakdown:<provider in lower case>
          Asked,      \* that provider, as the tables spell it
          Order,      \* the providers in the order of a table scan
          NameServers,
          MaxProviderRows,
          None,
          MaxFaults   \* bound of the model, shared with the other modules

Keys == ListKeys \cup {Breakdown}
Providers == {Order[i] : i \in DOMAIN Order}
Spellings == {"asTable", "otherCase"}

VARIABLES
    stats, perNS,  \* provider_stats, provider_ns
    cache,         \* Redis: what is stored for a key and whether it expires
    flight,        \* the fetch of a key: where it is, what it read so far
    faults

Idle == [at |-> "idle", spelling |-> None, next |-> 1, rows |-> {}]

InitLists ==
    /\ cache = [k \in Keys |-> None]
    /\ flight = [k \in Keys |-> Idle]

Fault == faults < MaxFaults /\ faults' = faults + 1
Goes(k, at) == flight' = [flight EXCEPT ![k].at = at]
Ends(k) == flight' = [flight EXCEPT ![k] = Idle]

-----------------------------------------------------------------------------

AskList(k) ==
    /\ flight[k] = Idle /\ Goes(k, "get")
    /\ UNCHANGED <<cache, faults>>

\* The key of the flight and of the cache is the name in lower case, the query
\* uses the name as it was asked for.
AskBreakdown(s) ==
    /\ flight[Breakdown] = Idle
    /\ flight' = [flight EXCEPT ![Breakdown].at = "get", ![Breakdown].spelling = s]
    /\ UNCHANGED <<cache, faults>>

Get(k) ==
    /\ flight[k].at = "get"
    /\ IF cache[k] = None THEN Goes(k, "scan") ELSE Ends(k)
    /\ UNCHANGED <<cache, faults>>

\* The lists take an error of GET for a miss, the breakdown answers with it.
GetFails(k) ==
    /\ flight[k].at = "get" /\ Fault
    /\ IF k = Breakdown THEN Ends(k) ELSE Goes(k, "scan")
    /\ UNCHANGED cache

Scanned(k) == flight[k].next > Len(Order) \/ Cardinality(flight[k].rows) >= MaxProviderRows

ScanRow(k) ==
    LET p == Order[flight[k].next] IN
    /\ flight[k].at = "scan" /\ ~Scanned(k)
    /\ flight' = [flight EXCEPT
                     ![k].next = @ + 1,
                     ![k].rows = IF stats[p] > 0 THEN @ \cup {<<p, stats[p]>>} ELSE @]
    /\ UNCHANGED <<cache, faults>>

ScanEnds(k) ==
    /\ flight[k].at = "scan" /\ Scanned(k)
    /\ Goes(k, "save")
    /\ UNCHANGED <<cache, faults>>

\* An error, or 60 seconds: what was collected counts as the list, unless it
\* is nothing.
ScanFails(k) ==
    /\ flight[k].at = "scan" /\ Fault
    /\ IF flight[k].rows = {} THEN Ends(k) ELSE Goes(k, "save")
    /\ UNCHANGED cache

\* The rows of a partition; there is none under another spelling.
Partition(s) ==
    IF s = "asTable" THEN {<<n, perNS[Asked][n]>> : n \in {m \in NameServers : perNS[Asked][m] > 0}}
                     ELSE {}

Query ==
    /\ flight[Breakdown].at = "scan"
    /\ flight' = [flight EXCEPT ![Breakdown].at = "save", ![Breakdown].rows = Partition(flight[Breakdown].spelling)]
    /\ UNCHANGED <<cache, faults>>

\* An error, ten seconds, or the client that started the fetch hangs up.
QueryFails ==
    /\ flight[Breakdown].at = "scan" /\ Fault
    /\ Ends(Breakdown) /\ UNCHANGED cache

Entry(k, expires) ==
    [rows |-> flight[k].rows, spelling |-> flight[k].spelling, expires |-> expires]

\* A mutant: the entry is stored without a time to live.
SaveForever(k) ==
    /\ flight[k].at = "save" /\ Ends(k)
    /\ cache' = [cache EXCEPT ![k] = Entry(k, FALSE)]
    /\ UNCHANGED faults

Save(k) ==
    /\ flight[k].at = "save" /\ Ends(k)
    /\ cache' = [cache EXCEPT ![k] = Entry(k, TRUE)]
    /\ UNCHANGED faults

SaveFails(k) ==
    /\ flight[k].at = "save" /\ Fault
    /\ Ends(k) /\ UNCHANGED cache

\* Redis, 30 minutes after SET.
Expire(k) ==
    /\ cache[k] # None /\ cache[k].expires
    /\ cache' = [cache EXCEPT ![k] = None]
    /\ UNCHANGED <<flight, faults>>

Asks == (\E k \in ListKeys : AskList(k)) \/ (\E s \in Spellings : AskBreakdown(s))

Advances(k) ==
    \/ Get(k) \/ Save(k)
    \/ k \in ListKeys /\ (ScanRow(k) \/ ScanEnds(k))
    \/ k = Breakdown /\ Query

Fails(k) ==
    \/ GetFails(k) \/ SaveFails(k)
    \/ k \in ListKeys /\ ScanFails(k)
    \/ k = Breakdown /\ QueryFails

ListsStep ==
    /\ Asks \/ (\E k \in Keys : Advances(k) \/ Fails(k) \/ Expire(k))
    /\ UNCHANGED <<stats, perNS>>

-----------------------------------------------------------------------------

\* What a complete fetch would read now: for the lists, of a table with more
\* rows than the cap the first ones in the order of the scan, whatever their
\* counts.
Listed(p) == stats[p] > 0
FirstRows ==
    {<<Order[i], stats[Order[i]]>> :
        i \in {j \in DOMAIN Order :
                  /\ Listed(Order[j])
                  /\ Cardinality({l \in 1 .. j : Listed(Order[l])}) <= MaxProviderRows}}

Right(k) ==
    cache[k] # None =>
        cache[k].rows = IF k = Breakdown THEN Partition(cache[k].spelling) ELSE FirstRows
=============================================================================
