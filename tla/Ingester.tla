------------------------------- MODULE Ingester -------------------------------
(***************************************************************************)
(* One CSV file through the command-line ingester (cmd/ingester/main.go):  *)
(* main clears the tables, a reader sends records into recordCh, workers   *)
(* insert them in batches and aggregate what they inserted, a ticker       *)
(* goroutine writes the aggregates at any time and main writes them once   *)
(* more at the end.  The process may be killed and started again.          *)
(*                                                                         *)
(* A record is its place in the file, so that a row with several names is   *)
(* several records; its key in reverse_ns_sharded is its own.  The provider of a nameserver that matches several keywords is the *)
(* one that the iteration over a Go map happens to find first.  The        *)
(* channel is read under a lock of its own and the mutex of stats is held  *)
(* for single steps only, so neither is a variable.                        *)
(***************************************************************************)
EXTENDS Naturals, FiniteSets, SequencesExt

CONSTANTS Workers, NameServers, Providers,
          ProvidersOf,  \* [NameServers -> SUBSET Providers]: what a name can match
          File,         \* the records of the file, by nameserver, and the rows without one:
          Bad,          \* ... a row that the CSV reader cannot read
          Blank,        \* ... a row of fewer than three fields, or without a domain or a name
          Left,         \* provider_ns as the run before left it
          BatchSize, Capacity,
          MaxFaults,    \* bound of the model: errors of ScyllaDB
          MaxCrashes    \* bound of the model: times the process is killed

Pairs == Providers \X NameServers

\* main takes its flags as they are; with none for workers (the default is 20) a
\* run would end before the file was read.
ASSUME IngesterAssumption ==
    /\ IsFiniteSet(Workers) /\ Workers # {} /\ IsFiniteSet(NameServers) /\ IsFiniteSet(Providers)
    /\ Bad \notin NameServers /\ Blank \notin NameServers /\ Bad # Blank
    /\ File \in Seq(NameServers \cup {Bad, Blank})
    /\ ProvidersOf \in [NameServers -> (SUBSET Providers) \ {{}}]
    /\ Left \in [Pairs -> Nat]
    /\ BatchSize \in Nat \ {0} /\ Capacity \in Nat \ {0}
    /\ MaxFaults \in Nat /\ MaxCrashes \in Nat

VARIABLES
    main,       \* where main is
    next,       \* rows the reader has read
    recordCh,   \* records on their way to the workers: [ns, provider]
    worker, batch,
    agg,        \* aggState.providerNSCounts, of which the other maps are sums
    insertions, errors, nsCounts, nameservers,  \* stats
    flush,      \* where main and the ticker goroutine are in a flush of agg
    provider_stats, ns_stats, provider_ns,      \* domain_count of the tables
    stored,     \* rows of the file in reverse_ns_sharded
    faults, crashes

reading == <<next, recordCh>>
working == <<worker, batch>>
stats   == <<insertions, errors, nsCounts, nameservers>>
tables  == <<provider_stats, ns_stats, provider_ns>>
bounds  == <<faults, crashes>>
vars    == <<main, reading, working, agg, stats, flush, tables, stored, bounds>>

Flushers == {"main", "ticker"}

OfProvider(counts, p) == SumFunction([n \in NameServers |-> counts[<<p, n>>]])
OfNS(counts, n)       == SumFunction([p \in Providers |-> counts[<<p, n>>]])

Init ==
    /\ main = "clear" /\ next = 0 /\ recordCh = <<>>
    /\ worker = [w \in Workers |-> "off"] /\ batch = [w \in Workers |-> <<>>]
    /\ agg = [k \in Pairs |-> 0]
    /\ insertions = 0 /\ errors = 0
    /\ nsCounts = [n \in NameServers |-> 0] /\ nameservers = 0
    /\ flush = [f \in Flushers |-> "idle"]
    /\ provider_ns = Left
    /\ provider_stats = [p \in Providers |-> OfProvider(Left, p)]
    /\ ns_stats = [n \in NameServers |-> OfNS(Left, n)]
    /\ stored = {}
    /\ faults = 0 /\ crashes = 0

-----------------------------------------------------------------------------

Fault == faults < MaxFaults /\ faults' = faults + 1 /\ UNCHANGED crashes

Worker(w, from, to) == worker[w] = from /\ worker' = [worker EXCEPT ![w] = to]
Flush(f, from, to)  == flush[f] = from /\ flush' = [flush EXCEPT ![f] = to]

\* aggState.mutex is held by a flush under way.
Locked == \E f \in Flushers : flush[f] \in {"ns_stats", "provider_ns"}

-----------------------------------------------------------------------------
(* main. *)

\* clearAllTables, and the start of the goroutines.
Clear ==
    /\ main = "clear" /\ main' = "ingest"
    /\ provider_stats' = [p \in Providers |-> 0]
    /\ ns_stats' = [n \in NameServers |-> 0]
    /\ provider_ns' = [k \in Pairs |-> 0]
    /\ worker' = [w \in Workers |-> "select"]
    /\ UNCHANGED <<reading, batch, agg, stats, flush, stored, bounds>>

\* A TRUNCATE that fails is only logged, and the next table is truncated: an
\* outage leaves any of the tables as they were.
ClearFails ==
    /\ main = "clear" /\ main' = "ingest"
    /\ Fault
    /\ worker' = [w \in Workers |-> "select"]
    /\ provider_stats' \in {provider_stats, [p \in Providers |-> 0]}
    /\ ns_stats' \in {ns_stats, [n \in NameServers |-> 0]}
    /\ provider_ns' \in {provider_ns, [k \in Pairs |-> 0]}
    /\ UNCHANGED <<reading, batch, agg, stats, flush, stored>>

\* A mutant: main waits for the end of the file only.
WorkersDoneEarly ==
    /\ main = "ingest" /\ main' = "flush"
    /\ next = Len(File) /\ recordCh = <<>>
    /\ flush' = [flush EXCEPT !["main"] = "due"]
    /\ UNCHANGED <<reading, working, agg, stats, tables, stored, bounds>>

\* A mutant: main waits for the ticker goroutine too, which never ends.
WorkersAndTickerDone ==
    /\ main = "ingest" /\ main' = "flush"
    /\ \A w \in Workers : worker[w] = "stopped"
    /\ flush["ticker"] = "ended"
    /\ flush' = [flush EXCEPT !["main"] = "due"]
    /\ UNCHANGED <<reading, working, agg, stats, tables, stored, bounds>>

\* wg.Wait is over: the ticker is stopped and main flushes.
WorkersDone ==
    /\ main = "ingest" /\ main' = "flush"
    /\ \A w \in Workers : worker[w] = "stopped"
    /\ flush' = [flush EXCEPT !["main"] = "due"]
    /\ UNCHANGED <<reading, working, agg, stats, tables, stored, bounds>>

\* The last flush is over; what is left is the warming of Redis (ReverseNS).
Finish ==
    /\ main = "flush" /\ main' = "done"
    /\ flush["main"] = "idle"
    /\ UNCHANGED <<reading, working, agg, stats, flush, tables, stored, bounds>>

\* The process is killed and started again; only the tables survive.
Crash ==
    /\ crashes < MaxCrashes /\ crashes' = crashes + 1
    /\ main' = "clear" /\ next' = 0 /\ recordCh' = <<>>
    /\ worker' = [w \in Workers |-> "off"] /\ batch' = [w \in Workers |-> <<>>]
    /\ agg' = [k \in Pairs |-> 0]
    /\ insertions' = 0 /\ errors' = 0
    /\ nsCounts' = [n \in NameServers |-> 0] /\ nameservers' = 0
    /\ flush' = [f \in Flushers |-> "idle"]
    /\ UNCHANGED <<tables, stored, faults>>

-----------------------------------------------------------------------------
(* The reader. *)

Send ==
    /\ main = "ingest" /\ next < Len(File) /\ File[next + 1] \in NameServers
    /\ Len(recordCh) < Capacity
    /\ next' = next + 1
    /\ \E p \in ProvidersOf[File[next']] :
          recordCh' = Append(recordCh, [row |-> next', ns |-> File[next'], provider |-> p])
    /\ UNCHANGED <<main, working, agg, stats, flush, tables, stored, bounds>>

\* An error of the CSV reader is counted...
ReadFails ==
    /\ main = "ingest" /\ next < Len(File) /\ File[next + 1] = Bad
    /\ next' = next + 1
    /\ errors' = errors + 1
    /\ UNCHANGED <<main, recordCh, working, agg, insertions, nsCounts, nameservers,
                   flush, tables, stored, bounds>>

\* ... a row that was read but has nothing to insert is not.
Skip ==
    /\ main = "ingest" /\ next < Len(File) /\ File[next + 1] = Blank
    /\ next' = next + 1
    /\ UNCHANGED <<main, recordCh, working, agg, stats, flush, tables, stored, bounds>>

-----------------------------------------------------------------------------
(* A worker: the branches of its select, then the steps of its flush. *)

Full(w) == Len(batch[w]) + 1 >= BatchSize

Receive(w) ==
    /\ recordCh # <<>>
    /\ Worker(w, "select", IF Full(w) THEN "insert" ELSE "select")
    /\ batch' = [batch EXCEPT ![w] = Append(@, Head(recordCh))]
    /\ recordCh' = Tail(recordCh)
    /\ UNCHANGED <<main, next, agg, stats, flush, tables, stored, bounds>>

FlushTick(w) ==
    /\ batch[w] # <<>>
    /\ Worker(w, "select", "insert")
    /\ UNCHANGED <<main, reading, batch, agg, stats, flush, tables, stored, bounds>>

\* recordCh is closed and drained: a worker with an empty batch stops; one with
\* records flushes and, as the channel stays closed, stops after that.
Stop(w) ==
    /\ next = Len(File) /\ recordCh = <<>> /\ batch[w] = <<>>
    /\ Worker(w, "select", "stopped")
    /\ UNCHANGED <<main, reading, batch, agg, stats, flush, tables, stored, bounds>>

Rows(b) == {b[i].row : i \in DOMAIN b}

Insert(w) ==
    /\ Worker(w, "insert", "aggregate")
    /\ stored' = stored \cup Rows(batch[w])
    /\ UNCHANGED <<main, reading, batch, agg, stats, flush, tables, bounds>>

\* A mutant: a failed batch counts as one error.
InsertFailsUncounted(w) ==
    /\ Worker(w, "insert", "select")
    /\ Fault
    /\ errors' = errors + 1
    /\ batch' = [batch EXCEPT ![w] = <<>>]
    /\ UNCHANGED <<main, reading, agg, insertions, nsCounts, nameservers, flush, tables, stored>>

\* A batch that fails is given up, whatever of it was stored.
InsertFails(w) ==
    /\ Worker(w, "insert", "select")
    /\ Fault
    /\ \E part \in SUBSET Rows(batch[w]) : stored' = stored \cup part
    /\ errors' = errors + Len(batch[w])
    /\ batch' = [batch EXCEPT ![w] = <<>>]
    /\ UNCHANGED <<main, reading, agg, insertions, nsCounts, nameservers, flush, tables>>

Occurrences(b, p, n) == Cardinality({i \in DOMAIN b : b[i].provider = p /\ b[i].ns = n})
Aggregated(b) == [k \in Pairs |-> agg[k] + Occurrences(b, k[1], k[2])]

\* Mutants: a batch overwrites what was aggregated before it...
AggregateOverwriting(w) ==
    /\ ~Locked
    /\ Worker(w, "aggregate", "count")
    /\ agg' = [k \in Pairs |-> IF Occurrences(batch[w], k[1], k[2]) > 0
                              THEN Occurrences(batch[w], k[1], k[2]) ELSE agg[k]]
    /\ UNCHANGED <<main, reading, batch, stats, flush, tables, stored, bounds>>

\* ... or updateAggregation takes no lock.
AggregateUnlocked(w) ==
    /\ Worker(w, "aggregate", "count")
    /\ agg' = Aggregated(batch[w])
    /\ UNCHANGED <<main, reading, batch, stats, flush, tables, stored, bounds>>

Aggregate(w) ==
    /\ ~Locked
    /\ Worker(w, "aggregate", "count")
    /\ agg' = Aggregated(batch[w])
    /\ UNCHANGED <<main, reading, batch, stats, flush, tables, stored, bounds>>

Seen(b) == {b[i].ns : i \in DOMAIN b}

\* nsCounts counts batches, not records.
Count(w) ==
    /\ Worker(w, "count", "select")
    /\ insertions' = insertions + Len(batch[w])
    /\ nameservers' = nameservers + Cardinality({n \in Seen(batch[w]) : nsCounts[n] = 0})
    /\ nsCounts' = [n \in NameServers |->
                       IF n \in Seen(batch[w]) THEN nsCounts[n] + 1 ELSE nsCounts[n]]
    /\ batch' = [batch EXCEPT ![w] = <<>>]
    /\ UNCHANGED <<main, reading, agg, errors, flush, tables, stored, bounds>>

-----------------------------------------------------------------------------
(* flushAggregationToDB, by main and by the ticker goroutine.  The label of *)
(* a flush is the table it writes next.                                     *)

Tick ==
    /\ main = "ingest"
    /\ Flush("ticker", "idle", "due")
    /\ UNCHANGED <<main, reading, working, agg, stats, tables, stored, bounds>>

\* The rows of agg, of which some are not written when there is a fault.
Write(table, new) ==
    \/ /\ UNCHANGED bounds
       /\ table' = [k \in DOMAIN table |-> IF new[k] > 0 THEN new[k] ELSE table[k]]
    \/ /\ Fault
       /\ \E part \in SUBSET DOMAIN table :
             table' = [k \in DOMAIN table |-> IF k \in part /\ new[k] > 0 THEN new[k] ELSE table[k]]

FlushProviders(f) ==
    /\ ~Locked
    /\ Flush(f, "due", "ns_stats")
    /\ Write(provider_stats, [p \in Providers |-> OfProvider(agg, p)])
    /\ UNCHANGED <<main, reading, working, agg, stats, ns_stats, provider_ns, stored>>

FlushNameServers(f) ==
    /\ Flush(f, "ns_stats", "provider_ns")
    /\ Write(ns_stats, [n \in NameServers |-> OfNS(agg, n)])
    /\ UNCHANGED <<main, reading, working, agg, stats, provider_stats, provider_ns, stored>>

FlushPairs(f) ==
    /\ Flush(f, "provider_ns", "idle")
    /\ Write(provider_ns, agg)
    /\ UNCHANGED <<main, reading, working, agg, stats, provider_stats, ns_stats, stored>>

-----------------------------------------------------------------------------

Read == Send \/ ReadFails \/ Skip
Work(w) ==
    \/ Receive(w) \/ FlushTick(w) \/ Stop(w)
    \/ Insert(w) \/ InsertFails(w) \/ Aggregate(w) \/ Count(w)
Write3(f) == FlushProviders(f) \/ FlushNameServers(f) \/ FlushPairs(f)

\* The process ends with main, and every goroutine with it.
Next ==
    /\ main # "done"
    /\ \/ Clear \/ ClearFails \/ WorkersDone \/ Finish \/ Crash
       \/ Read \/ Tick
       \/ \E w \in Workers : Work(w)
       \/ \E f \in Flushers : Write3(f)

\* Goroutines are scheduled.  sync.Mutex hands itself over to one that waited
\* long enough, so the ticker's flushes do not keep the lock from the others.
Fairness ==
    /\ WF_vars(Clear) /\ WF_vars(Read) /\ WF_vars(WorkersDone) /\ WF_vars(Finish)
    /\ \A w \in Workers : WF_vars(Work(w)) /\ SF_vars(Aggregate(w))
    /\ \A f \in Flushers : SF_vars(Write3(f))

Spec == Init /\ [][Next]_vars
FairSpec == Spec /\ Fairness

-----------------------------------------------------------------------------
(* What a run of the ingester promises. *)

\* Types; a worker that is stopped holds no records.
TypeOK ==
    /\ main \in {"clear", "ingest", "flush", "done"}
    /\ next \in 0 .. Len(File) /\ Len(recordCh) <= Capacity
    /\ worker \in [Workers -> {"off", "select", "insert", "aggregate", "count", "stopped"}]
    /\ \A w \in Workers :
          /\ Len(batch[w]) <= BatchSize
          /\ worker[w] = "select" => Len(batch[w]) < BatchSize
          /\ worker[w] \in {"off", "stopped"} => batch[w] = <<>>
    /\ agg \in [Pairs -> Nat]
    /\ {insertions, errors, nameservers} \subseteq Nat
    /\ nsCounts \in [NameServers -> Nat]
    /\ flush \in [Flushers -> {"idle", "due", "ns_stats", "provider_ns"}]
    /\ provider_stats \in [Providers -> Nat]
    /\ ns_stats \in [NameServers -> Nat] /\ provider_ns \in [Pairs -> Nat]
    /\ stored \subseteq DOMAIN File
    /\ faults \in 0 .. MaxFaults /\ crashes \in 0 .. MaxCrashes

InBatches(S) ==
    SumFunction([w \in Workers |-> IF worker[w] \in S THEN Len(batch[w]) ELSE 0])

\* Rows of the file that were read and skipped, of which the log says nothing.
Skipped == Cardinality({i \in 1 .. next : File[i] = Blank})

\* Every record of the file that was read is inserted, counted as an error, or
\* still on its way, and none of them twice, whichever worker took it and
\* whatever failed: at the end the insertions and the errors of the log fall
\* short of the file by exactly the rows skipped without being counted.  Its
\* nameservers are the different ones seen, by any worker.
RowsAccounted ==
    /\ TypeOK
    /\ nameservers = Cardinality({n \in NameServers : nsCounts[n] > 0})
    /\ next = insertions + errors + Skipped + Len(recordCh)
                + InBatches({"select", "insert", "aggregate", "count"})

\* The aggregates are those of the records inserted, neither more nor fewer,
\* but for the batches just between the two locks.
AggregatesAccounted ==
    SumFunction([n \in NameServers |-> OfNS(agg, n)]) = insertions + InBatches({"count"})

\* Whenever no flush is under way the three tables of aggregates agree: they
\* were written from one state of aggState, also after a run that was killed
\* half-way through a flush.
TablesAgree ==
    (faults = 0 /\ main # "clear" /\ ~Locked) =>
        /\ \A p \in Providers : provider_stats[p] = OfProvider(provider_ns, p)
        /\ \A n \in NameServers : ns_stats[n] = OfNS(provider_ns, n)

\* When a run without a fault is done, all records of the file are stored and
\* the counts are those of the file, although the ticker may still have been
\* writing when main finished.
RunComplete ==
    (faults = 0 /\ main = "done") =>
        /\ {i \in DOMAIN File : File[i] \in NameServers} \subseteq stored
        /\ \A n \in NameServers : ns_stats[n] = Cardinality({i \in DOMAIN File : File[i] = n})

\* The run ends: nobody is stuck on the channel or the lock, however often the
\* ticker flushes.
RunEnds == <>(main = "done")
=============================================================================
