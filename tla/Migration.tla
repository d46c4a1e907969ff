------------------------------ MODULE Migration ------------------------------
(***************************************************************************)
(* cmd/migrate: the program that fills the tables of schema V2, and the    *)
(* answer GetGlobalStats (handlers/global_stats.go) makes from one of      *)
(* them.  A run goes through the schema file, the statistics, the metadata *)
(* of domains and one table per nameserver, which a bounded pool of        *)
(* goroutines creates and then fills; errors are logged and passed over.   *)
(* The process may die anywhere and be run again.                          *)
(*                                                                         *)
(* A number 0 stands for a row that is missing: nothing tells them apart.  *)
(***************************************************************************)
EXTENDS Naturals, Sequences, FiniteSets, Functions

CONSTANTS
    NameServers, Providers,
    ProviderNS,     \* provider_ns: pairs <<provider, ns>>
    DomainsOf,      \* reverse_ns: the domains of a nameserver, in table order
    TableOf,        \* sanitizeNSTableName: several names may go to one table
    Records,        \* the sum over provider_stats
    KnownProviders, KnownNameServers,  \* written as they stand in the program
    BatchRows,      \* 100
    CreateSlots, PopulateSlots,        \* 5, 10
    Modes,
    Missing,        \* stands for a table that does not exist
    MaxRuns, MaxFaults  \* bounds of the model: runs; errors and kills

\* What the tables of the nameservers can hold.
AllDomains == UNION {Range(DomainsOf[ns]) : ns \in NameServers}

ASSUME MigrationAssumption ==
    /\ IsFiniteSet(NameServers) /\ IsFiniteSet(Providers)
    /\ ProviderNS \subseteq Providers \X NameServers
    /\ \A ns \in NameServers : DomainsOf[ns] \in Seq(Range(DomainsOf[ns]))
    /\ DOMAIN TableOf = NameServers
    /\ \A domains \in SUBSET AllDomains : domains # Missing
    /\ {Records, KnownProviders, KnownNameServers} \subseteq Nat
    /\ BatchRows \in Nat \ {0} /\ CreateSlots \in Nat \ {0} /\ PopulateSlots \in Nat \ {0}
    /\ Modes \subseteq {"full", "stats", "metadata", "tables"}

Stats == {"unique_domains", "total_domain_records", "providers", "nameservers"}

VARIABLES
    schemaV2,  \* the tables of schema V2 exist: somebody created them by hand
    listed,    \* what SELECT DISTINCT ns FROM provider_ns answers
    global,    \* global_stats_v2.stat_value
    metadata,  \* domain_metadata_v2: what is known of a domain
    tables,    \* the per-NS tables that exist, with their domains
    index,     \* ns_table_index: domain_count and is_populated
    stage, mode, dryRun,
    clean,     \* this run met no error
    toStat,    \* the statistics it has still to write, in order
    found,     \* the rows of provider_ns behind domainMap
    toInsert,  \* the domains of domainMap not yet in a batch
    worker,    \* the goroutine of each nameserver
    runs, faults

database == <<global, metadata, tables, index>>
schema   == <<schemaV2, listed>>
progress == <<toStat, found, toInsert>>
flags    == <<mode, dryRun, runs>>
vars     == <<schema, database, stage, flags, clean, progress, worker, faults>>

Info(d, rows) ==
    LET of == {row \in rows : d \in Range(DomainsOf[row[2]])} IN
    [ns |-> {row[2] : row \in of}, providers |-> {row[1] : row \in of},
     occurrences |-> Cardinality(of)]
DomainsIn(rows) == UNION {Range(DomainsOf[row[2]]) : row \in rows}
Domains == DomainsIn(ProviderNS)
Unknown == Info("", {})

\* A goroutine: where it is, the domains its scan returned and the one its loop
\* is at.
NotStarted == [at |-> "none", has |-> 0, next |-> 0]

\* provider_ns is partitioned by provider in infra/init.cql: the database
\* refuses a DISTINCT of another column, and the list is empty.
Init ==
    /\ schemaV2 \in BOOLEAN /\ listed \in {{}, NameServers}
    /\ global = [s \in Stats |-> 0]
    /\ metadata = [d \in Domains |-> Unknown]
    /\ tables = [t \in Range(TableOf) |-> Missing]
    /\ index = [ns \in NameServers |-> [count |-> 0, populated |-> FALSE]]
    /\ stage = "off" /\ mode = "full" /\ dryRun = FALSE /\ clean = TRUE
    /\ toStat = <<>> /\ found = {} /\ toInsert = {}
    /\ worker = [ns \in NameServers |-> NotStarted]
    /\ runs = 0 /\ faults = 0

Fault == faults < MaxFaults /\ faults' = faults + 1 /\ clean' = FALSE
NoFault == UNCHANGED <<faults, clean>>
Does(m) == mode \in {"full", m}

-----------------------------------------------------------------------------

Run(m, dry) ==
    /\ stage \in {"off", "done"} /\ runs < MaxRuns
    /\ runs' = runs + 1 /\ mode' = m /\ dryRun' = dry /\ clean' = TRUE
    /\ stage' = "schema" /\ found' = {}
    /\ UNCHANGED <<schema, database, toStat, toInsert, worker, faults>>

\* A statement to global_stats_v2 that nobody asks for its error.
Store(s, v) == global' = IF schemaV2 THEN [global EXCEPT ![s] = v] ELSE global
StoreOrFail(s, v) ==
    \/ Store(s, v) /\ NoFault
    \/ Fault /\ UNCHANGED global

\* createSchemaV2: of the pieces between the semicolons those that begin with a
\* comment are skipped, each CREATE TABLE among them; the one that begins with
\* the end of a comment is refused.  INSERTs are left: one sets unique_domains,
\* two set statistics that nothing reads.
CreateSchemaV2 ==
    /\ stage = "schema"
    /\ StoreOrFail("unique_domains", 0)
    /\ stage' = "stats"
    /\ toStat' = IF Does("stats") /\ ~dryRun
                 THEN <<"total_domain_records", "providers", "nameservers">> ELSE <<>>
    /\ UNCHANGED <<schema, metadata, tables, index, flags, found, toInsert, worker>>

ValueOf(s) ==
    CASE s = "total_domain_records" -> Records
      [] s = "providers" -> KnownProviders
      [] s = "nameservers" -> KnownNameServers

\* A SELECT that breaks off gives a smaller sum.
ComputeStat ==
    /\ stage = "stats" /\ toStat # <<>> /\ toStat' = Tail(toStat)
    /\ \/ StoreOrFail(Head(toStat), ValueOf(Head(toStat)))
       \/ /\ Head(toStat) = "total_domain_records" /\ Fault
          /\ \E v \in 0 .. Records - 1 : Store("total_domain_records", v)
    /\ UNCHANGED <<schema, metadata, tables, index, stage, flags, found, toInsert, worker>>

\* populateDomainMetadata: the scan of provider_ns into domainMap, which loses
\* the rows after an error.
ScanDomains ==
    /\ stage = "stats" /\ toStat = <<>>
    /\ IF Does("metadata") /\ ~dryRun
       THEN /\ stage' = "metadata"
            /\ \/ found' = ProviderNS /\ NoFault
               \/ Fault /\ found' \in SUBSET ProviderNS
            /\ toInsert' = DomainsIn(found')
       ELSE stage' = "create" /\ UNCHANGED <<found, toInsert>> /\ NoFault
    /\ UNCHANGED <<schema, database, flags, toStat, worker>>

IsBatch(B) ==
    /\ B \subseteq toInsert
    /\ Cardinality(B) = BatchRows \/ (B = toInsert /\ Cardinality(B) < BatchRows)

\* A mutant: only full batches are executed.
InsertFullBatches ==
    /\ stage = "metadata" /\ toInsert # {}
    /\ \E B \in SUBSET toInsert :
          /\ IsBatch(B) /\ toInsert' = toInsert \ B
          /\ metadata' = [d \in Domains |->
                             IF schemaV2 /\ d \in B /\ Cardinality(B) = BatchRows
                             THEN Info(d, found) ELSE metadata[d]]
    /\ NoFault
    /\ UNCHANGED <<schema, global, tables, index, stage, flags, toStat, found, worker>>

\* A logged batch: the whole of it or nothing.
InsertBatch ==
    /\ stage = "metadata" /\ toInsert # {}
    /\ \E B \in SUBSET toInsert :
          /\ IsBatch(B) /\ toInsert' = toInsert \ B
          /\ \/ /\ metadata' = [d \in Domains |-> IF schemaV2 /\ d \in B THEN Info(d, found)
                                                                         ELSE metadata[d]]
                /\ NoFault
             \/ Fault /\ UNCHANGED metadata
    /\ UNCHANGED <<schema, global, tables, index, stage, flags, toStat, found, worker>>

StoreUnique ==
    /\ stage = "metadata" /\ toInsert = {}
    /\ StoreOrFail("unique_domains", Cardinality(DomainsIn(found)))
    /\ stage' = "create"
    /\ UNCHANGED <<schema, metadata, tables, index, flags, progress, worker>>

-----------------------------------------------------------------------------
(* The per-NS tables *)

Goes(ns, at) == worker' = [worker EXCEPT ![ns].at = at]
All(at) == \A ns \in listed : worker[ns].at = at
Holding(ats) == Cardinality({ns \in NameServers : worker[ns].at \in ats})

StartCreate ==
    /\ stage = "create"
    /\ IF Does("tables") /\ ~dryRun
       THEN stage' = "tables" /\ worker' = [ns \in NameServers |->
                IF ns \in listed THEN [NotStarted EXCEPT !.at = "waiting"] ELSE NotStarted]
       ELSE stage' = "done" /\ UNCHANGED worker
    /\ NoFault /\ UNCHANGED <<schema, database, flags, progress>>

CreateSlot(ns) ==
    /\ stage = "tables" /\ worker[ns].at = "waiting"
    /\ Holding({"creating", "created"}) < CreateSlots
    /\ Goes(ns, "creating")
    /\ NoFault /\ UNCHANGED <<schema, database, stage, flags, progress>>

CreateTable(ns) ==
    /\ stage = "tables" /\ worker[ns].at = "creating"
    /\ tables' = [tables EXCEPT ![TableOf[ns]] = IF @ = Missing THEN {} ELSE @]
    /\ Goes(ns, "created")
    /\ NoFault /\ UNCHANGED <<schema, global, metadata, index, stage, flags, progress>>

\* A mutant: the early return leaves out the call of Done.
CreateFailsUndone(ns) ==
    /\ stage = "tables" /\ worker[ns].at = "creating" /\ Fault
    /\ Goes(ns, "returned")
    /\ UNCHANGED <<schema, database, stage, flags, progress>>

\* The goroutine returns, which gives its slot back and counts it as done.
CreateFails(ns) ==
    /\ stage = "tables" /\ worker[ns].at = "creating" /\ Fault
    /\ Goes(ns, "over")
    /\ UNCHANGED <<schema, database, stage, flags, progress>>

IndexTable(ns) ==
    /\ stage = "tables" /\ worker[ns].at = "created"
    /\ \/ /\ index' = IF schemaV2 THEN [index EXCEPT ![ns].populated = FALSE] ELSE index
          /\ NoFault
       \/ Fault /\ UNCHANGED index
    /\ Goes(ns, "over")
    /\ UNCHANGED <<schema, global, metadata, tables, stage, flags, progress>>

\* wg.Wait returns; all are filled, those too whose table was not created.
StartPopulate ==
    /\ stage = "tables" /\ All("over")
    /\ stage' = "fill"
    /\ worker' = [ns \in NameServers |->
                     IF ns \in listed THEN [NotStarted EXCEPT !.at = "waiting"] ELSE NotStarted]
    /\ NoFault /\ UNCHANGED <<schema, database, flags, progress>>

\* A slot, and the scan of the domains; a scan that breaks off is taken for the
\* whole of them.
PopulateSlot(ns) ==
    /\ stage = "fill" /\ worker[ns].at = "waiting"
    /\ Holding({"filling", "filled"}) < PopulateSlots
    /\ \E n \in 0 .. Len(DomainsOf[ns]) :
          /\ worker' = [worker EXCEPT ![ns] = [at |-> "filling", has |-> n, next |-> 0]]
          /\ IF n = Len(DomainsOf[ns]) THEN NoFault ELSE Fault
    /\ UNCHANGED <<schema, database, stage, flags, progress>>

\* The loop executes its batch at each row whose index is a multiple of the
\* batch, 0 excepted: BatchRows + 1 rows first, BatchRows from then on.
LastOfBatch(i) == IF i = 0 THEN BatchRows ELSE ((i + BatchRows - 1) \div BatchRows) * BatchRows
Rows(ns, from, to) == {DomainsOf[ns][i + 1] : i \in from .. to}

\* A mutant: what is left after the loop is forgotten.
RestForgotten(ns, i) == {}

\* What is left after the loop is executed unless the length is a multiple of
\* the batch.
RestOf(ns, i) ==
    IF worker[ns].has % BatchRows # 0 THEN Rows(ns, i, worker[ns].has - 1) ELSE {}

Put(ns, rows) ==
    tables' = [tables EXCEPT ![TableOf[ns]] = IF @ = Missing THEN @ ELSE @ \cup rows]

\* An unlogged batch may be applied in part.
PutOrFail(ns, rows) ==
    \/ Put(ns, rows) /\ NoFault
    \/ Fault /\ \E some \in SUBSET rows : Put(ns, some)

PutBatch(ns) ==
    LET from == worker[ns].next
        to   == LastOfBatch(from)
    IN  /\ stage = "fill" /\ worker[ns].at = "filling" /\ to < worker[ns].has
        /\ PutOrFail(ns, Rows(ns, from, to))
        /\ worker' = [worker EXCEPT ![ns].next = to + 1]
        /\ UNCHANGED <<schema, global, metadata, index, stage, flags, progress>>

PutRest(ns) ==
    LET from == worker[ns].next IN
    /\ stage = "fill" /\ worker[ns].at = "filling" /\ LastOfBatch(from) >= worker[ns].has
    /\ PutOrFail(ns, RestOf(ns, from))
    /\ Goes(ns, "filled")
    /\ UNCHANGED <<schema, global, metadata, index, stage, flags, progress>>

\* UPDATE makes the row where CREATE had failed.
IndexPopulated(ns) ==
    /\ stage = "fill" /\ worker[ns].at = "filled"
    /\ \/ /\ index' = IF schemaV2
                      THEN [index EXCEPT ![ns] = [count |-> worker[ns].has, populated |-> TRUE]]
                      ELSE index
          /\ NoFault
       \/ Fault /\ UNCHANGED index
    /\ Goes(ns, "over")
    /\ UNCHANGED <<schema, global, metadata, tables, stage, flags, progress>>

Complete ==
    /\ stage = "fill" /\ All("over")
    /\ stage' = "done" /\ worker' = [ns \in NameServers |-> NotStarted]
    /\ NoFault /\ UNCHANGED <<schema, database, flags, progress>>

\* The process is killed.
Dies ==
    /\ stage \notin {"off", "done"} /\ Fault
    /\ stage' = "off" /\ worker' = [ns \in NameServers |-> NotStarted]
    /\ toStat' = <<>> /\ found' = {} /\ toInsert' = {}
    /\ UNCHANGED <<schema, database, flags>>

Works(ns) ==
    \/ CreateSlot(ns) \/ CreateTable(ns) \/ CreateFails(ns) \/ IndexTable(ns)
    \/ PopulateSlot(ns) \/ PutBatch(ns) \/ PutRest(ns) \/ IndexPopulated(ns)

Step ==
    \/ CreateSchemaV2 \/ ComputeStat \/ ScanDomains \/ InsertBatch \/ StoreUnique
    \/ StartCreate \/ StartPopulate \/ Complete
    \/ \E ns \in NameServers : Works(ns)

Next == Step \/ Dies \/ \E m \in Modes, dry \in BOOLEAN : Run(m, dry)

Spec == Init /\ [][Next]_vars
FairSpec == Spec /\ WF_vars(Step)

-----------------------------------------------------------------------------
(* GetGlobalStats *)

RowCount == Cardinality(ProviderNS)
Live(s, count) == IF global[s] = 0 THEN count ELSE global[s]

\* What the API answers: the computed statistics if there are unique domains
\* among them, else what it finds of them and counts of its own.
GlobalStats ==
    IF global["unique_domains"] > 0
    THEN [source |-> "computed_v2", unique |-> global["unique_domains"],
          records |-> global["total_domain_records"],
          providers |-> global["providers"], nameservers |-> global["nameservers"]]
    ELSE [source |-> "live_fast", unique |-> 0,
          records |-> Live("total_domain_records", Records),
          providers |-> Live("providers", Cardinality(Providers)),
          nameservers |-> Live("nameservers", RowCount)]

-----------------------------------------------------------------------------
(* Properties *)

Done(m) == stage = "done" /\ Does(m) /\ ~dryRun /\ clean

\* A run without an error leaves the metadata and the statistics of all domains,
\* whatever half of them a run that failed or died had left, and the API then
\* answers with them.
MetadataComplete ==
    /\ Done("metadata") /\ schemaV2 =>
          /\ \A d \in Domains : metadata[d] = Info(d, ProviderNS)
          /\ GlobalStats.unique = Cardinality(Domains)
    /\ stage = "done" /\ mode = "full" /\ ~dryRun /\ clean /\ schemaV2 /\ Domains # {} =>
          GlobalStats = [source |-> "computed_v2", unique |-> Cardinality(Domains),
                         records |-> Records, providers |-> KnownProviders,
                         nameservers |-> KnownNameServers]

Sharing(t) == {ns \in listed : TableOf[ns] = t}

\* Their number is no multiple of the batch, so that a last batch is executed.
HasRest(ns) == Len(DomainsOf[ns]) % BatchRows # 0

\* A run without an error leaves a table for each nameserver that has a last
\* batch with all of its domains in it and an index that says so; and in no
\* table a domain of anybody but the nameservers with that table name, though
\* their goroutines fill it at the same time.
TablesFilled ==
    Done("tables") =>
        /\ \A ns \in listed :
              HasRest(ns) =>
                  /\ tables[TableOf[ns]] # Missing
                  /\ Range(DomainsOf[ns]) \subseteq tables[TableOf[ns]]
                  /\ schemaV2 => index[ns] = [count |-> Len(DomainsOf[ns]), populated |-> TRUE]
        /\ \A t \in Range(TableOf) :
              tables[t] # Missing =>
                  tables[t] \subseteq UNION {Range(DomainsOf[ns]) : ns \in Sharing(t)}

\* What the index says after a run without an error (migrate/main.go:476) and its
\* log with it (:489): a nameserver with is_populated has its domains in its
\* table, domain_count of them.
TablesPopulated ==
    Done("tables") =>
        \A ns \in listed :
            index[ns].populated =>
                /\ Cardinality(Range(DomainsOf[ns])) = index[ns].count
                /\ Range(DomainsOf[ns]) \subseteq tables[TableOf[ns]]

\* A run ends, whatever fails in its goroutines and however they
\* wait for each other's slots.
MigrationEnds == []<>(stage \in {"off", "done"})
==============================================================================
