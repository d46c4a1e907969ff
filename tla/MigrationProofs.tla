---------------------------- MODULE MigrationProofs ----------------------------
(***************************************************************************)
(* What TLAPS proves of the migration, for any nameservers and domains,    *)
(* any size of batch, any slots, errors, kills and runs.                   *)
(***************************************************************************)
EXTENDS Migration, FiniteSetTheorems, SequenceTheorems, TLAPS

-----------------------------------------------------------------------------
(* The inductive invariants.                                               *)

Stages == {"off", "schema", "stats", "metadata", "create", "tables", "fill", "done"}
Labels == {"none", "waiting", "creating", "created", "over", "filling", "filled"}
Goroutine == [at : Labels, has : Nat, next : Nat]
USE DEF Goroutine
ToCompute == <<"total_domain_records", "providers", "nameservers">>

Typed ==
    /\ listed \subseteq NameServers /\ schemaV2 \in BOOLEAN
    /\ global \in [Stats -> Nat]
    /\ tables \in [Range(TableOf) -> (SUBSET AllDomains) \cup {Missing}]
    /\ DOMAIN index = NameServers
    /\ stage \in Stages /\ clean \in BOOLEAN
    /\ toStat \in {<<>>, <<ToCompute[3]>>, <<ToCompute[2], ToCompute[3]>>, ToCompute}
    /\ toStat # <<>> => stage = "stats"
    /\ found \subseteq ProviderNS /\ toInsert \subseteq Domains
    /\ worker \in [NameServers -> Goroutine]
    /\ \A ns \in NameServers \ listed : worker[ns].at = "none"
    /\ \A ns \in NameServers : worker[ns].has <= Len(DomainsOf[ns])

\* A run without an error so far: the domains no longer in domainMap have their
\* metadata, and after the scan so have all of them.
MetadataFollows ==
    (clean /\ Does("metadata") /\ ~dryRun) =>
        /\ stage = "metadata" =>
              /\ found = ProviderNS
              /\ schemaV2 => \A d \in Domains \ toInsert : metadata[d] = Info(d, ProviderNS)
        /\ (stage \in {"create", "tables", "fill", "done"} /\ schemaV2) =>
              /\ \A d \in Domains : metadata[d] = Info(d, ProviderNS)
              /\ global["unique_domains"] = Cardinality(Domains)

\* The statistics that are not still to be written are right.
StatsFollow ==
    (clean /\ mode = "full" /\ ~dryRun /\ schemaV2 /\ stage \notin {"off", "schema"}) =>
        \A s \in Range(ToCompute) \ Range(toStat) : global[s] = ValueOf(s)

\* A table holds domains of its nameservers only, whatever failed.
TablesHold ==
    \A t \in Range(TableOf) :
        tables[t] # Missing =>
            \A d \in tables[t] : \E ns \in Sharing(t) : d \in Range(DomainsOf[ns])

\* What a nameserver has in its table for sure: all of its domains, if it has a
\* last batch.
Sure(ns) == IF HasRest(ns) THEN Range(DomainsOf[ns]) ELSE {}

\* What the index then says.
Indexed(ns) == [count |-> Len(DomainsOf[ns]), populated |-> TRUE]

\* How far the table of a nameserver is when a run without an error fills it.
Filled(ns) ==
    /\ tables[TableOf[ns]] # Missing
    /\ worker[ns].at \in {"filling", "filled"} => worker[ns].has = Len(DomainsOf[ns])
    /\ worker[ns].at = "filling" =>
          /\ worker[ns].next <= worker[ns].has
          /\ Rows(ns, 0, worker[ns].next - 1) \subseteq tables[TableOf[ns]]
    /\ worker[ns].at \in {"filled", "over"} => Sure(ns) \subseteq tables[TableOf[ns]]
    /\ worker[ns].at = "over" /\ schemaV2 => index[ns] = Indexed(ns)

TablesFollow ==
    clean =>
        /\ stage = "tables" =>
              \A ns \in listed : worker[ns].at \in {"created", "over"} => tables[TableOf[ns]] # Missing
        /\ stage = "fill" => \A ns \in listed : Filled(ns)
        /\ (stage = "done" /\ Does("tables") /\ ~dryRun) =>
              \A ns \in listed :
                  /\ tables[TableOf[ns]] # Missing
                  /\ Sure(ns) \subseteq tables[TableOf[ns]]
                  /\ schemaV2 => index[ns] = Indexed(ns)

-----------------------------------------------------------------------------
(* Batches and numbers.                                                    *)

\* A batch does not end before it begins.
LEMMA BatchEnds ==
    ASSUME NEW i \in Nat
    PROVE  LastOfBatch(i) \in Nat /\ i <= LastOfBatch(i)
<1>0. BatchRows \in Nat \ {0}
    BY MigrationAssumption
<1>1. CASE i = 0
    BY <1>0, <1>1 DEF LastOfBatch
<1>2. CASE i # 0
  <2> DEFINE m == i + BatchRows - 1
  <2>1. m \in Nat
      BY <1>0
  <2> HIDE DEF m
  <2>2. m \div BatchRows \in Nat /\ m = BatchRows * (m \div BatchRows) + (m % BatchRows)
        /\ m % BatchRows \in 0 .. BatchRows - 1
      BY <1>0, <2>1
  <2>3. (m \div BatchRows) * BatchRows = BatchRows * (m \div BatchRows)
        /\ (m \div BatchRows) * BatchRows \in Nat
      BY <1>0, <2>2
  <2>4. LastOfBatch(i) = (m \div BatchRows) * BatchRows
      BY <1>2 DEF LastOfBatch, m
  <2>5. i = m - BatchRows + 1
      BY <1>0 DEF m
  <2> QED BY <1>0, <2>1, <2>2, <2>3, <2>4, <2>5
<1> QED BY <1>1, <1>2

\* The domains of a nameserver, and the sets they are in.
LEMMA DomainsType ==
    ASSUME NEW ns \in NameServers
    PROVE  /\ DomainsOf[ns] \in Seq(Range(DomainsOf[ns]))
           /\ Len(DomainsOf[ns]) \in Nat /\ DOMAIN DomainsOf[ns] = 1 .. Len(DomainsOf[ns])
           /\ IsFiniteSet(Range(DomainsOf[ns])) /\ Range(DomainsOf[ns]) \subseteq AllDomains
           /\ TableOf[ns] \in Range(TableOf)
<1>1. DomainsOf[ns] \in Seq(Range(DomainsOf[ns]))
    BY MigrationAssumption
<1>2. Len(DomainsOf[ns]) \in Nat /\ DOMAIN DomainsOf[ns] = 1 .. Len(DomainsOf[ns])
    BY <1>1, LenProperties
<1>3. IsFiniteSet(Range(DomainsOf[ns]))
  <2> DEFINE s == DomainsOf[ns]
  <2>1. IsFiniteSet(DOMAIN s)
      BY <1>2, FS_Interval
  <2>2. s \in Surjection(DOMAIN s, Range(s))
    <3>1. s \in [DOMAIN s -> Range(s)]
        BY <1>1, <1>2
    <3> QED BY <3>1 DEF Surjection, Range
  <2> HIDE DEF s
  <2>3. IsFiniteSet(Range(s))
      BY <2>1, <2>2, FS_Surjection
  <2> QED BY <2>3 DEF s
<1>4. Range(DomainsOf[ns]) \subseteq AllDomains
    BY DEF AllDomains
<1>5. TableOf[ns] \in Range(TableOf)
    BY MigrationAssumption DEF Range
<1> QED BY <1>1, <1>2, <1>3, <1>4, <1>5

\* The domains of some rows of provider_ns can be counted.
LEMMA DomainsFinite ==
    ASSUME NEW rows \in SUBSET ProviderNS
    PROVE  /\ IsFiniteSet(DomainsIn(rows)) /\ Cardinality(DomainsIn(rows)) \in Nat
           /\ DomainsIn(rows) \subseteq Domains
<1>1. IsFiniteSet(rows)
  <2>1. IsFiniteSet(Providers \X NameServers)
      BY MigrationAssumption, FS_Product
  <2>2. rows \in SUBSET (Providers \X NameServers)
      BY MigrationAssumption
  <2> QED BY <2>1, <2>2, FS_Subset
<1> DEFINE g == [row \in rows |-> Range(DomainsOf[row[2]])]
<1>2. \A row \in rows : row[2] \in NameServers
    BY MigrationAssumption
<1>3. IsFiniteSet(Range(g)) /\ Range(g) = {Range(DomainsOf[row[2]]) : row \in rows}
  <2>1. g \in Surjection(rows, Range(g))
      BY DEF Surjection, Range
  <2>2. Range(g) = {Range(DomainsOf[row[2]]) : row \in rows}
      BY DEF Range
  <2> HIDE DEF g
  <2> QED BY <1>1, <2>1, <2>2, FS_Surjection
<1>4. \A T \in Range(g) : IsFiniteSet(T)
    BY <1>2, <1>3, DomainsType
<1>5. IsFiniteSet(UNION Range(g))
  <2> HIDE DEF g
  <2> QED BY <1>3, <1>4, FS_UNION
<1>6. IsFiniteSet(DomainsIn(rows))
    BY <1>3, <1>5 DEF DomainsIn
<1> QED BY <1>6, FS_CardinalityType DEF Domains, DomainsIn

\* Rows of a nameserver are domains of it.
LEMMA RowsAreDomains ==
    ASSUME NEW ns \in NameServers, NEW from \in Nat, NEW to \in Int, to < Len(DomainsOf[ns])
    PROVE  Rows(ns, from, to) \subseteq Range(DomainsOf[ns])
<1>1. \A i \in from .. to : i + 1 \in DOMAIN DomainsOf[ns]
    BY DomainsType
<1> QED BY <1>1 DEF Rows, Range

\* So is what is left after the loop.
LEMMA RestsAreDomains ==
    ASSUME NEW ns \in NameServers, NEW i \in Nat,
           worker[ns].has \in Nat, worker[ns].has <= Len(DomainsOf[ns])
    PROVE  RestOf(ns, i) \subseteq Range(DomainsOf[ns])
<1> DEFINE last == worker[ns].has - 1
<1>1. last \in Int /\ last < Len(DomainsOf[ns]) /\ Len(DomainsOf[ns]) \in Nat
    BY DomainsType
<1> HIDE DEF last
<1>2. Rows(ns, i, last) \subseteq Range(DomainsOf[ns])
    BY <1>1, RowsAreDomains
<1> QED BY <1>2 DEF RestOf, last

-----------------------------------------------------------------------------
(* Types. *)

\* A run that meets an error is not without errors, and does not become so again.
LEMMA CleanStep ==
    ASSUME clean \in BOOLEAN, NoFault \/ Fault
    PROVE  clean' \in BOOLEAN /\ (clean' => clean /\ NoFault)
<1>1. CASE NoFault
  <2>1. clean' = clean
      BY <1>1 DEF NoFault
  <2> QED BY <1>1, <2>1
<1>2. CASE Fault
  <2>1. clean' = FALSE
      BY <1>2 DEF Fault
  <2> QED BY <2>1
<1> QED BY <1>1, <1>2

\* A statistic that is stored is a number, and nothing else changes with it.
LEMMA StoreType ==
    ASSUME global \in [Stats -> Nat], NEW s \in Stats, NEW v \in Nat, StoreOrFail(s, v)
    PROVE  /\ global' \in [Stats -> Nat]
           /\ \A t \in Stats \ {s} : global'[t] = global[t]
           /\ clean' /\ schemaV2 => global'[s] = v
           /\ clean' => clean
BY DEF StoreOrFail, Store, Fault, NoFault

\* Filling a table keeps what it and the others hold, and adds the rows.
LEMMA PutType ==
    ASSUME Typed, NEW ns \in NameServers, NEW rows, rows \subseteq Range(DomainsOf[ns]), PutOrFail(ns, rows)
    PROVE  /\ tables' \in [Range(TableOf) -> (SUBSET AllDomains) \cup {Missing}]
           /\ \A t \in Range(TableOf) : tables[t] # Missing => tables'[t] # Missing /\ tables[t] \subseteq tables'[t]
           /\ \A t \in Range(TableOf) : tables'[t] # Missing => tables[t] # Missing
           /\ \A t \in Range(TableOf) : tables[t] # Missing =>
                 \A d \in tables'[t] : d \in tables[t] \/ (t = TableOf[ns] /\ d \in rows)
           /\ clean' /\ tables[TableOf[ns]] # Missing => rows \subseteq tables'[TableOf[ns]]
           /\ clean' => clean
<1> DEFINE T == TableOf[ns]
<1>0. /\ tables \in [Range(TableOf) -> (SUBSET AllDomains) \cup {Missing}] /\ T \in Range(TableOf)
      /\ \A domains \in SUBSET AllDomains : domains # Missing
      /\ Range(DomainsOf[ns]) \subseteq AllDomains /\ clean \in BOOLEAN
    BY DomainsType, MigrationAssumption DEF Typed
<1>1. PICK some \in SUBSET rows : Put(ns, some) /\ (clean' => some = rows /\ clean)
    BY DEF PutOrFail, Fault, NoFault
<1>2. tables' = [tables EXCEPT ![T] = IF tables[T] = Missing THEN tables[T] ELSE tables[T] \cup some]
    BY <1>1 DEF Put
<1> HIDE DEF T
<1>3. \A t \in Range(TableOf) \ {T} : tables'[t] = tables[t]
    BY <1>0, <1>2
<1>4. tables'[T] = IF tables[T] = Missing THEN tables[T] ELSE tables[T] \cup some
    BY <1>0, <1>2
<1>5. tables[T] # Missing => tables[T] \cup some \in SUBSET AllDomains
  <2>1. tables[T] # Missing => tables[T] \subseteq AllDomains
    <3>1. tables[T] \in (SUBSET AllDomains) \cup {Missing}
        BY <1>0
    <3> QED BY <3>1
  <2>2. some \subseteq AllDomains
      BY <1>0, <1>1
  <2> QED BY <2>1, <2>2
<1>6. tables[T] # Missing => tables[T] \cup some # Missing
    BY <1>0, <1>5
<1>7. tables' \in [Range(TableOf) -> (SUBSET AllDomains) \cup {Missing}]
    BY <1>0, <1>2, <1>5
<1>8. \A t \in Range(TableOf) : tables[t] # Missing => tables'[t] # Missing /\ tables[t] \subseteq tables'[t]
    BY <1>3, <1>4, <1>6
<1>9. \A t \in Range(TableOf) : tables'[t] # Missing => tables[t] # Missing
    BY <1>3, <1>4
<1>10. \A t \in Range(TableOf) : tables[t] # Missing =>
          \A d \in tables'[t] : d \in tables[t] \/ (t = T /\ d \in rows)
    BY <1>1, <1>3, <1>4
<1>11. clean' /\ tables[T] # Missing => rows \subseteq tables'[T]
    BY <1>1, <1>4
<1> QED BY <1>1, <1>7, <1>8, <1>9, <1>10, <1>11 DEF T

\* A nameserver's goroutine goes to another label.
LEMMA GoesType ==
    ASSUME Typed, NEW ns \in NameServers, NEW at \in Labels, Goes(ns, at)
    PROVE  /\ worker' \in [NameServers -> Goroutine]
           /\ worker'[ns].at = at /\ worker'[ns].next = worker[ns].next /\ worker'[ns].has = worker[ns].has
           /\ \A m \in NameServers \ {ns} : worker'[m] = worker[m]
<1>1. worker \in [NameServers -> Goroutine]
    BY DEF Typed
<1>2. worker' = [worker EXCEPT ![ns] = [worker[ns] EXCEPT !.at = at]]
    BY DEF Goes
<1>3. [worker[ns] EXCEPT !.at = at] \in Goroutine
    BY <1>1
<1>4. [worker[ns] EXCEPT !.at = at].at = at /\ [worker[ns] EXCEPT !.at = at].next = worker[ns].next
      /\ [worker[ns] EXCEPT !.at = at].has = worker[ns].has
    BY <1>1
<1> QED BY <1>1, <1>2, <1>3, <1>4

\* What a goroutine does to the state it shares.
LEMMA WorkFrame ==
    ASSUME Typed, NEW ns \in NameServers, Works(ns)
    PROVE  /\ UNCHANGED <<schema, global, metadata, stage, flags, progress>>
           /\ worker[ns].at # "none" /\ ns \in listed
           /\ worker' \in [NameServers -> Goroutine]
           /\ worker'[ns].at # "none" /\ worker'[ns].has <= Len(DomainsOf[ns])
           /\ \A m \in NameServers \ {ns} : worker'[m] = worker[m] /\ (index'[m] = index[m])
           /\ DOMAIN index' = NameServers
           /\ clean' \in BOOLEAN /\ (clean' => clean)
           /\ stage \in {"tables", "fill"}
<1>0. /\ worker \in [NameServers -> Goroutine] /\ DOMAIN index = NameServers /\ clean \in BOOLEAN
      /\ worker[ns].has <= Len(DomainsOf[ns])
      /\ \A m \in NameServers \ listed : worker[m].at = "none"
    BY DEF Typed
<1>1. CASE CreateSlot(ns) \/ CreateTable(ns) \/ CreateFails(ns) \/ IndexTable(ns)
           \/ PutRest(ns) \/ IndexPopulated(ns)
  <2>1. PICK at \in Labels \ {"none"} : Goes(ns, at)
      BY <1>1 DEF CreateSlot, CreateTable, CreateFails, IndexTable, PutRest, IndexPopulated, Labels
  <2>2. UNCHANGED <<schema, global, metadata, stage, flags, progress>> /\ worker[ns].at # "none"
        /\ stage \in {"tables", "fill"}
      BY <1>1 DEF CreateSlot, CreateTable, CreateFails, IndexTable, PutRest, IndexPopulated, database
  <2>3. clean' \in BOOLEAN /\ (clean' => clean)
    <3>1. NoFault \/ Fault
        BY <1>1 DEF CreateSlot, CreateTable, CreateFails, IndexTable, PutRest, IndexPopulated,
           PutOrFail
    <3> QED BY <1>0, <3>1, CleanStep
  <2>4. index' = index \/ \E v : index' = [index EXCEPT ![ns] = v]
    <3>1. CASE IndexTable(ns)
      <4>1. index' = index \/ index' = [index EXCEPT ![ns] = [index[ns] EXCEPT !.populated = FALSE]]
          BY <3>1 DEF IndexTable
      <4> QED BY <4>1
    <3>2. CASE IndexPopulated(ns)
        BY <3>2 DEF IndexPopulated
    <3>3. CASE CreateSlot(ns) \/ CreateTable(ns) \/ CreateFails(ns) \/ PutRest(ns)
        BY <3>3 DEF CreateSlot, CreateTable, CreateFails, PutRest, database
    <3> QED BY <1>1, <3>1, <3>2, <3>3
  <2>5. DOMAIN index' = NameServers /\ \A m \in NameServers \ {ns} : index'[m] = index[m]
      BY <1>0, <2>4
  <2>6. /\ worker' \in [NameServers -> Goroutine] /\ worker'[ns].at # "none"
        /\ \A m \in NameServers \ {ns} : worker'[m] = worker[m]
      BY <2>1, GoesType
  <2>7. worker'[ns].has = worker[ns].has
      BY <2>1, GoesType
  <2>8. worker'[ns].has <= Len(DomainsOf[ns])
      BY <1>0, <2>7, Zenon
  <2> QED BY <1>0, <2>2, <2>3, <2>5, <2>6, <2>8
<1>2. CASE PutBatch(ns)
  <2> DEFINE from == worker[ns].next
             to == LastOfBatch(from)
  <2>1. /\ worker' = [worker EXCEPT ![ns].next = to + 1]
        /\ UNCHANGED <<schema, global, metadata, index, stage, flags, progress>>
        /\ worker[ns].at = "filling" /\ PutOrFail(ns, Rows(ns, from, to)) /\ stage = "fill"
      BY <1>2 DEF PutBatch
  <2>2. to + 1 \in Nat
    <3>1. from \in Nat
        BY <1>0
    <3> HIDE DEF from
    <3>2. LastOfBatch(from) \in Nat
        BY <3>1, BatchEnds
    <3> QED BY <3>2
  <2> HIDE DEF from, to
  <2>3. worker' = [worker EXCEPT ![ns] = [worker[ns] EXCEPT !.next = to + 1]]
      BY <2>1
  <2>4. [worker[ns] EXCEPT !.next = to + 1] \in Goroutine
        /\ [worker[ns] EXCEPT !.next = to + 1].at = "filling"
        /\ [worker[ns] EXCEPT !.next = to + 1].has = worker[ns].has
      BY <1>0, <2>1, <2>2
  <2>5. clean' \in BOOLEAN /\ (clean' => clean)
    <3>1. NoFault \/ Fault
        BY <2>1 DEF PutOrFail
    <3> QED BY <1>0, <3>1, CleanStep
  <2>6. /\ worker' \in [NameServers -> Goroutine] /\ worker'[ns].at # "none"
        /\ \A m \in NameServers \ {ns} : worker'[m] = worker[m]
      BY <1>0, <2>3, <2>4
  <2>7. worker'[ns].has = worker[ns].has
      BY <1>0, <2>3, <2>4
  <2>8. worker'[ns].has <= Len(DomainsOf[ns])
      BY <1>0, <2>7, Zenon
  <2> QED BY <1>0, <2>1, <2>5, <2>6, <2>8
<1>3. CASE PopulateSlot(ns)
  <2>1. PICK n \in 0 .. Len(DomainsOf[ns]) :
            /\ worker' = [worker EXCEPT ![ns] = [at |-> "filling", has |-> n, next |-> 0]]
            /\ IF n = Len(DomainsOf[ns]) THEN NoFault ELSE Fault
      BY <1>3 DEF PopulateSlot
  <2>2. /\ UNCHANGED <<schema, database, stage, flags, progress>>
        /\ worker[ns].at = "waiting" /\ stage = "fill"
      BY <1>3 DEF PopulateSlot
  <2>3. n \in Nat /\ n <= Len(DomainsOf[ns]) /\ [at |-> "filling", has |-> n, next |-> 0] \in Goroutine
      BY <2>1, DomainsType DEF Labels
  <2>4. clean' \in BOOLEAN /\ (clean' => clean)
      BY <1>0, <2>1, CleanStep
  <2>5. worker' \in [NameServers -> Goroutine]
        /\ worker'[ns].at = "filling" /\ worker'[ns].has = n
        /\ \A m \in NameServers \ {ns} : worker'[m] = worker[m]
      BY <1>0, <2>1, <2>3
  <2> QED BY <1>0, <2>2, <2>3, <2>4, <2>5 DEF database
<1> QED BY <1>1, <1>2, <1>3 DEF Works

\* What the goroutines do to the tables: a table once made stays, and grows by
\* domains of the nameserver.
LEMMA TablesGrow ==
    ASSUME Typed, NEW ns \in NameServers, Works(ns)
    PROVE  /\ tables' \in [Range(TableOf) -> (SUBSET AllDomains) \cup {Missing}]
           /\ \A t \in Range(TableOf) : tables[t] # Missing => tables'[t] # Missing /\ tables[t] \subseteq tables'[t]
           /\ \A t \in Range(TableOf) : tables'[t] # Missing =>
                 \A d \in tables'[t] : \/ tables[t] # Missing /\ d \in tables[t]
                                       \/ t = TableOf[ns] /\ d \in Range(DomainsOf[ns])
<1>0. /\ tables \in [Range(TableOf) -> (SUBSET AllDomains) \cup {Missing}] /\ TableOf[ns] \in Range(TableOf)
      /\ \A domains \in SUBSET AllDomains : domains # Missing
    BY DomainsType, MigrationAssumption DEF Typed
<1>1. CASE CreateTable(ns)
  <2>1. tables' = [tables EXCEPT ![TableOf[ns]] =
                     IF tables[TableOf[ns]] = Missing THEN {} ELSE tables[TableOf[ns]]]
      BY <1>1 DEF CreateTable
  <2>2. {} # Missing /\ {} \in SUBSET AllDomains
      BY <1>0
  <2> QED BY <1>0, <2>1, <2>2
<1>2. ASSUME NEW rows, rows \subseteq Range(DomainsOf[ns]), PutOrFail(ns, rows)
      PROVE  /\ tables' \in [Range(TableOf) -> (SUBSET AllDomains) \cup {Missing}]
             /\ \A t \in Range(TableOf) : tables[t] # Missing => tables'[t] # Missing /\ tables[t] \subseteq tables'[t]
             /\ \A t \in Range(TableOf) : tables'[t] # Missing =>
                 \A d \in tables'[t] : \/ tables[t] # Missing /\ d \in tables[t]
                                       \/ t = TableOf[ns] /\ d \in Range(DomainsOf[ns])
  <2>1. /\ tables' \in [Range(TableOf) -> (SUBSET AllDomains) \cup {Missing}]
        /\ \A t \in Range(TableOf) : tables[t] # Missing => tables'[t] # Missing /\ tables[t] \subseteq tables'[t]
        /\ \A t \in Range(TableOf) : tables'[t] # Missing => tables[t] # Missing
        /\ \A t \in Range(TableOf) : tables[t] # Missing =>
              \A d \in tables'[t] : d \in tables[t] \/ (t = TableOf[ns] /\ d \in rows)
      BY <1>2, PutType
  <2> QED BY <1>2, <2>1
<1>n. /\ worker[ns].next \in Nat /\ worker[ns].has \in Nat /\ Len(DomainsOf[ns]) \in Nat
      /\ worker[ns].has <= Len(DomainsOf[ns])
    BY DomainsType DEF Typed
<1>3. CASE PutBatch(ns)
  <2> DEFINE i == worker[ns].next
             to == LastOfBatch(i)
  <2>1. PutOrFail(ns, Rows(ns, i, to)) /\ to < worker[ns].has /\ i \in Nat
      BY <1>3, <1>n DEF PutBatch
  <2> HIDE DEF i
  <2>2. to \in Nat
      BY <2>1, BatchEnds
  <2> HIDE DEF to
  <2>4. to < Len(DomainsOf[ns])
      BY <1>n, <2>1, <2>2
  <2>3. Rows(ns, i, to) \subseteq Range(DomainsOf[ns])
      BY <2>1, <2>2, <2>4, RowsAreDomains
  <2> QED BY <1>2, <2>1, <2>3
<1>4. CASE PutRest(ns)
  <2>1. PutOrFail(ns, RestOf(ns, worker[ns].next))
      BY <1>4 DEF PutRest
  <2>2. RestOf(ns, worker[ns].next) \subseteq Range(DomainsOf[ns])
      BY <1>n, RestsAreDomains
  <2> QED BY <1>2, <2>1, <2>2
<1>5. CASE CreateSlot(ns) \/ CreateFails(ns) \/ IndexTable(ns) \/ PopulateSlot(ns) \/ IndexPopulated(ns)
  <2>1. tables' = tables
      BY <1>5 DEF CreateSlot, CreateFails, IndexTable, PopulateSlot, IndexPopulated, database
  <2> QED BY <1>0, <2>1
<1> QED BY <1>1, <1>3, <1>4, <1>5 DEF Works

\* A run starts in its types...
LEMMA TypedInit == Init => Typed
<1> SUFFICES ASSUME Init PROVE Typed
    OBVIOUS
<1>1. /\ listed \subseteq NameServers /\ schemaV2 \in BOOLEAN /\ DOMAIN index = NameServers
      /\ stage \in Stages /\ clean \in BOOLEAN /\ toStat = <<>>
      /\ found \subseteq ProviderNS /\ toInsert \subseteq Domains
    BY DEF Init, Stages
<1>2. global \in [Stats -> Nat]
  <2>1. global = [s \in Stats |-> 0]
      BY DEF Init
  <2> QED BY <2>1
<1>3. tables \in [Range(TableOf) -> (SUBSET AllDomains) \cup {Missing}]
  <2>1. tables = [t \in Range(TableOf) |-> Missing]
      BY DEF Init
  <2> QED BY <2>1
<1>4. /\ worker \in [NameServers -> Goroutine]
      /\ \A ns \in NameServers : worker[ns].at = "none" /\ worker[ns].has <= Len(DomainsOf[ns])
  <2>1. worker = [ns \in NameServers |-> NotStarted]
      BY DEF Init
  <2> QED BY <2>1, DomainsType DEF NotStarted, Labels
<1> QED BY <1>1, <1>2, <1>3, <1>4 DEF Typed

\* ... and every step keeps them.
LEMMA TypedStep == Typed /\ [Next]_vars => Typed'
<1> SUFFICES ASSUME Typed, [Next]_vars PROVE Typed'
    OBVIOUS
<1>0. /\ listed \subseteq NameServers /\ schemaV2 \in BOOLEAN
      /\ global \in [Stats -> Nat]
      /\ tables \in [Range(TableOf) -> (SUBSET AllDomains) \cup {Missing}]
      /\ DOMAIN index = NameServers
      /\ stage \in Stages /\ clean \in BOOLEAN
      /\ toStat \in {<<>>, <<ToCompute[3]>>, <<ToCompute[2], ToCompute[3]>>, ToCompute}
      /\ toStat # <<>> => stage = "stats"
      /\ found \subseteq ProviderNS /\ toInsert \subseteq Domains
      /\ worker \in [NameServers -> Goroutine]
      /\ \A ns \in NameServers \ listed : worker[ns].at = "none"
      /\ \A ns \in NameServers : worker[ns].has <= Len(DomainsOf[ns])
    BY DEF Typed
<1>f. (NoFault \/ Fault) => clean' \in BOOLEAN
    BY <1>0 DEF NoFault, Fault
<1>1. ASSUME NEW m \in Modes, NEW dry \in BOOLEAN, Run(m, dry) PROVE Typed'
  <2>1. /\ UNCHANGED <<schemaV2, listed, global, tables, index, toStat, toInsert, worker>>
        /\ stage' = "schema" /\ clean' = TRUE /\ found' = {} /\ toStat = <<>>
      BY <1>0, <1>1 DEF Run, schema, database
  <2> QED BY <1>0, <2>1 DEF Typed, Stages
<1>2. CASE CreateSchemaV2
  <2>1. /\ UNCHANGED <<schemaV2, listed, tables, index, found, toInsert, worker>>
        /\ stage' = "stats" /\ toStat' \in {<<>>, ToCompute} /\ StoreOrFail("unique_domains", 0)
      BY <1>2 DEF CreateSchemaV2, schema, ToCompute
  <2>2. global' \in [Stats -> Nat] /\ clean' \in BOOLEAN
    <3>1. "unique_domains" \in Stats /\ 0 \in Nat
        BY DEF Stats
    <3> QED BY <1>0, <1>f, <2>1, <3>1, StoreType DEF StoreOrFail
  <2> QED BY <1>0, <2>1, <2>2 DEF Typed, Stages
<1>3. CASE ComputeStat
  <2>1. /\ UNCHANGED <<schemaV2, listed, tables, index, found, toInsert, worker, stage>>
        /\ stage = "stats" /\ toStat # <<>> /\ toStat' = Tail(toStat)
        /\ \/ StoreOrFail(Head(toStat), ValueOf(Head(toStat)))
           \/ Head(toStat) = "total_domain_records" /\ Fault
                /\ \E v \in 0 .. Records - 1 : Store("total_domain_records", v)
      BY <1>3 DEF ComputeStat, schema
  <2>2. /\ Head(toStat) \in Stats /\ ValueOf(Head(toStat)) \in Nat
        /\ toStat' \in {<<>>, <<ToCompute[3]>>, <<ToCompute[2], ToCompute[3]>>, ToCompute}
    <3>1. CASE toStat = <<ToCompute[3]>>
        BY <2>1, <3>1, MigrationAssumption DEF ToCompute, Stats, ValueOf
    <3>2. CASE toStat = <<ToCompute[2], ToCompute[3]>>
        BY <2>1, <3>2, MigrationAssumption DEF ToCompute, Stats, ValueOf
    <3>3. CASE toStat = ToCompute
        BY <2>1, <3>3, MigrationAssumption DEF ToCompute, Stats, ValueOf
    <3> QED BY <1>0, <2>1, <3>1, <3>2, <3>3
  <2>3. global' \in [Stats -> Nat] /\ clean' \in BOOLEAN
    <3>1. CASE StoreOrFail(Head(toStat), ValueOf(Head(toStat)))
      <4>1. PICK s \in Stats, v \in Nat : StoreOrFail(s, v)
          BY <2>2, <3>1
      <4> QED BY <1>0, <1>f, <4>1, StoreType DEF StoreOrFail
    <3>2. CASE Fault /\ \E v \in 0 .. Records - 1 : Store("total_domain_records", v)
      <4>1. PICK v \in 0 .. Records - 1 : Store("total_domain_records", v)
          BY <3>2
      <4>2. v \in Nat /\ "total_domain_records" \in Stats
          BY MigrationAssumption DEF Stats
      <4>3. global' \in [Stats -> Nat]
          BY <1>0, <4>1, <4>2 DEF Store
      <4> QED BY <1>f, <3>2, <4>3
    <3> QED BY <2>1, <3>1, <3>2
  <2> QED BY <1>0, <2>1, <2>2, <2>3 DEF Typed
<1>4. CASE ScanDomains
  <2>1. /\ UNCHANGED <<schemaV2, listed, global, tables, index, toStat, worker>>
        /\ toStat = <<>> /\ stage' \in {"metadata", "create"} /\ (NoFault \/ Fault)
        /\ \/ found' \subseteq ProviderNS /\ toInsert' = DomainsIn(found')
           \/ UNCHANGED <<found, toInsert>>
      BY <1>4 DEF ScanDomains, schema, database
  <2>2. found' \subseteq ProviderNS /\ toInsert' \subseteq Domains
      BY <1>0, <2>1, DomainsFinite
  <2> QED BY <1>0, <1>f, <2>1, <2>2 DEF Typed, Stages
<1>5. CASE InsertBatch
  <2>1. /\ UNCHANGED <<schemaV2, listed, global, tables, index, toStat, found, worker, stage>>
        /\ toInsert' \subseteq toInsert /\ (NoFault \/ Fault)
      BY <1>5 DEF InsertBatch, schema
  <2> QED BY <1>0, <1>f, <2>1 DEF Typed
<1>6. CASE StoreUnique
  <2>1. /\ UNCHANGED <<schemaV2, listed, tables, index, toStat, found, toInsert, worker>>
        /\ stage = "metadata" /\ stage' = "create"
        /\ StoreOrFail("unique_domains", Cardinality(DomainsIn(found)))
      BY <1>6 DEF StoreUnique, schema, progress
  <2>2. "unique_domains" \in Stats /\ Cardinality(DomainsIn(found)) \in Nat
      BY <1>0, DomainsFinite DEF Stats
  <2>3. global' \in [Stats -> Nat] /\ clean' \in BOOLEAN
      BY <1>0, <1>f, <2>1, <2>2, StoreType DEF StoreOrFail
  <2> QED BY <1>0, <2>1, <2>3 DEF Typed, Stages
<1>7. CASE StartCreate \/ StartPopulate \/ Complete \/ Dies
  <2>1. /\ UNCHANGED <<schemaV2, listed, global, tables, index>>
        /\ stage' \in Stages /\ (NoFault \/ Fault)
        /\ \/ UNCHANGED <<toStat, found, toInsert>> /\ stage # "stats"
           \/ toStat' = <<>> /\ found' = {} /\ toInsert' = {}
      BY <1>7 DEF StartCreate, StartPopulate, Complete, Dies, schema, database, progress, Stages
  <2>2. \/ worker' = worker
        \/ worker' = [ns \in NameServers |-> IF ns \in listed THEN [NotStarted EXCEPT !.at = "waiting"] ELSE NotStarted]
        \/ worker' = [ns \in NameServers |-> NotStarted]
      BY <1>7 DEF StartCreate, StartPopulate, Complete, Dies
  <2>3. NotStarted.at = "none" /\ NotStarted \in Goroutine
        /\ [NotStarted EXCEPT !.at = "waiting"] \in Goroutine
        /\ NotStarted.has = 0 /\ [NotStarted EXCEPT !.at = "waiting"].has = 0
        /\ \A ns \in NameServers : 0 <= Len(DomainsOf[ns])
      BY DomainsType DEF NotStarted, Labels
  <2>4. /\ worker' \in [NameServers -> Goroutine]
        /\ \A ns \in NameServers \ listed : worker'[ns].at = "none"
        /\ \A ns \in NameServers : worker'[ns].has <= Len(DomainsOf[ns])
    <3>1. CASE worker' = worker
        BY <1>0, <3>1
    <3>2. CASE worker' = [ns \in NameServers |-> IF ns \in listed THEN [NotStarted EXCEPT !.at = "waiting"] ELSE NotStarted]
        BY <2>3, <3>2
    <3>3. CASE worker' = [ns \in NameServers |-> NotStarted]
        BY <2>3, <3>3
    <3> QED BY <2>2, <3>1, <3>2, <3>3
  <2> QED BY <1>0, <1>f, <2>1, <2>4 DEF Typed
<1>8. ASSUME NEW ns \in NameServers, Works(ns) PROVE Typed'
  <2>1. /\ UNCHANGED <<schemaV2, listed, global, stage, toStat, found, toInsert>>
        /\ ns \in listed /\ worker' \in [NameServers -> Goroutine]
        /\ \A m \in NameServers \ {ns} : worker'[m] = worker[m]
        /\ worker'[ns].has <= Len(DomainsOf[ns])
        /\ DOMAIN index' = NameServers /\ clean' \in BOOLEAN
      BY <1>8, WorkFrame DEF schema, progress
  <2>2. tables' \in [Range(TableOf) -> (SUBSET AllDomains) \cup {Missing}]
      BY <1>8, TablesGrow
  <2> QED BY <1>0, <2>1, <2>2 DEF Typed
<1>9. CASE UNCHANGED vars
    BY <1>0, <1>9 DEF vars, schema, database, progress, Typed
<1> QED BY <1>1, <1>2, <1>3, <1>4, <1>5, <1>6, <1>7, <1>8, <1>9 DEF Next, Step

-----------------------------------------------------------------------------
(* Metadata and statistics.                                                *)

\* What is still to be written: the head of the list, or of the rest.
LEMMA StillToWrite ==
    ASSUME Typed, toStat # <<>>
    PROVE  /\ Head(toStat) \in Range(ToCompute) /\ ValueOf(Head(toStat)) \in Nat
           /\ \A s \in Range(toStat) : s = Head(toStat) \/ s \in Range(Tail(toStat))
<1>0. toStat \in {<<>>, <<ToCompute[3]>>, <<ToCompute[2], ToCompute[3]>>, ToCompute}
    BY DEF Typed
<1>1. CASE toStat = <<ToCompute[3]>>
    BY <1>1, MigrationAssumption DEF ToCompute, ValueOf, Range
<1>2. CASE toStat = <<ToCompute[2], ToCompute[3]>>
    BY <1>2, MigrationAssumption DEF ToCompute, ValueOf, Range
<1>3. CASE toStat = ToCompute
    BY <1>3, MigrationAssumption DEF ToCompute, ValueOf, Range
<1> QED BY <1>0, <1>1, <1>2, <1>3

\* Every step leaves the metadata as far as the run has come.
LEMMA MetadataStep == Typed /\ MetadataFollows /\ [Next]_vars => MetadataFollows'
<1> SUFFICES ASSUME Typed, MetadataFollows, [Next]_vars PROVE MetadataFollows'
    OBVIOUS
<1>0. clean \in BOOLEAN /\ toInsert \subseteq Domains /\ found \subseteq ProviderNS
      /\ global \in [Stats -> Nat]
    BY DEF Typed
<1>1. ASSUME NEW m \in Modes, NEW dry \in BOOLEAN, Run(m, dry) PROVE MetadataFollows'
  <2>1. stage' = "schema"
      BY <1>1 DEF Run
  <2> QED BY <2>1 DEF MetadataFollows
<1>2. CASE CreateSchemaV2 \/ ComputeStat \/ Dies
  <2>1. stage' \in {"stats", "off"}
      BY <1>2 DEF CreateSchemaV2, ComputeStat, Dies
  <2> QED BY <2>1 DEF MetadataFollows
<1>3. CASE ScanDomains
  <2>1. CASE Does("metadata") /\ ~dryRun
    <3>1. stage' = "metadata" /\ toInsert' = DomainsIn(found')
          /\ ((found' = ProviderNS /\ NoFault) \/ Fault)
        BY <1>3, <2>1 DEF ScanDomains
    <3>2. clean' => found' = ProviderNS
        BY <3>1 DEF Fault
    <3>3. clean' => Domains \ toInsert' = {}
        BY <3>1, <3>2 DEF Domains
    <3> QED BY <3>1, <3>2, <3>3 DEF MetadataFollows
  <2>2. CASE ~(Does("metadata") /\ ~dryRun)
    <3>1. UNCHANGED <<mode, dryRun>>
        BY <1>3 DEF ScanDomains, flags
    <3> QED BY <2>2, <3>1 DEF MetadataFollows, Does
  <2> QED BY <2>1, <2>2
<1>4. CASE InsertBatch
  <2>1. /\ stage = "metadata" /\ UNCHANGED <<schemaV2, stage, mode, dryRun, found>>
        /\ (NoFault \/ Fault)
      BY <1>4 DEF InsertBatch, schema, flags
  <2>2. clean' => clean /\ NoFault
      BY <1>0, <2>1, CleanStep
  <2>3. SUFFICES ASSUME clean', Does("metadata"), ~dryRun
                 PROVE  found = ProviderNS
                        /\ (schemaV2 => \A d \in Domains \ toInsert' : metadata'[d] = Info(d, ProviderNS))
      BY <2>1 DEF MetadataFollows, Does
  <2>4. found = ProviderNS /\ (schemaV2 => \A d \in Domains \ toInsert : metadata[d] = Info(d, ProviderNS))
      BY <2>1, <2>2, <2>3 DEF MetadataFollows
  <2>5. PICK B \in SUBSET toInsert :
            /\ toInsert' = toInsert \ B
            /\ metadata' = [d \in Domains |-> IF schemaV2 /\ d \in B THEN Info(d, found) ELSE metadata[d]]
      BY <1>4, <2>3 DEF InsertBatch, Fault
  <2> QED BY <2>4, <2>5
<1>5. CASE StoreUnique
  <2>1. /\ stage = "metadata" /\ stage' = "create" /\ toInsert = {}
        /\ UNCHANGED <<schemaV2, mode, dryRun, found, metadata>>
        /\ StoreOrFail("unique_domains", Cardinality(DomainsIn(found)))
      BY <1>5 DEF StoreUnique, schema, flags, progress
  <2>2. clean' => clean
    <3>1. NoFault \/ Fault
        BY <2>1 DEF StoreOrFail
    <3> QED BY <1>0, <3>1, CleanStep
  <2>3. SUFFICES ASSUME clean', Does("metadata"), ~dryRun, schemaV2
                 PROVE  /\ \A d \in Domains : metadata[d] = Info(d, ProviderNS)
                        /\ global'["unique_domains"] = Cardinality(Domains)
      BY <2>1 DEF MetadataFollows, Does
  <2>4. found = ProviderNS /\ \A d \in Domains \ toInsert : metadata[d] = Info(d, ProviderNS)
      BY <2>1, <2>2, <2>3 DEF MetadataFollows
  <2>5. global'["unique_domains"] = Cardinality(DomainsIn(found))
    <3>1. "unique_domains" \in Stats /\ Cardinality(DomainsIn(found)) \in Nat
        BY <1>0, DomainsFinite DEF Stats
    <3> QED BY <1>0, <2>1, <2>3, <3>1, StoreType
  <2> QED BY <2>1, <2>4, <2>5 DEF Domains
<1>6. CASE StartCreate \/ StartPopulate \/ Complete
  <2>1. /\ UNCHANGED <<schemaV2, global, metadata, mode, dryRun, clean>>
        /\ stage \in {"create", "tables", "fill"} /\ stage' \in {"tables", "fill", "done"}
      BY <1>6 DEF StartCreate, StartPopulate, Complete, schema, database, flags, NoFault
  <2> QED BY <2>1 DEF MetadataFollows, Does
<1>7. ASSUME NEW ns \in NameServers, Works(ns) PROVE MetadataFollows'
  <2>1. /\ UNCHANGED <<schemaV2, global, metadata, mode, dryRun, stage, found, toInsert>>
        /\ clean' => clean
      BY <1>7, WorkFrame DEF schema, flags, progress
  <2> QED BY <2>1 DEF MetadataFollows, Does
<1>8. CASE UNCHANGED vars
    BY <1>8 DEF vars, schema, database, progress, flags, MetadataFollows, Does
<1> QED BY <1>1, <1>2, <1>3, <1>4, <1>5, <1>6, <1>7, <1>8 DEF Next, Step

\* Every step leaves the statistics right that it does not leave to be written.
LEMMA StatsStep == Typed /\ StatsFollow /\ [Next]_vars => StatsFollow'
<1> SUFFICES ASSUME Typed, StatsFollow, [Next]_vars PROVE StatsFollow'
    OBVIOUS
<1>0. clean \in BOOLEAN /\ global \in [Stats -> Nat] /\ found \subseteq ProviderNS
      /\ (toStat # <<>> => stage = "stats")
    BY DEF Typed
<1>r. Range(ToCompute) \subseteq Stats /\ "unique_domains" \notin Range(ToCompute)
      /\ "unique_domains" \in Stats
    BY DEF Range, ToCompute, Stats
<1>1. ASSUME NEW m \in Modes, NEW dry \in BOOLEAN, Run(m, dry) PROVE StatsFollow'
  <2>1. stage' = "schema"
      BY <1>1 DEF Run
  <2> QED BY <2>1 DEF StatsFollow
<1>2. CASE Dies
  <2>1. stage' = "off"
      BY <1>2 DEF Dies
  <2> QED BY <2>1 DEF StatsFollow
<1>3. CASE CreateSchemaV2
  <2>1. /\ UNCHANGED <<mode, dryRun>>
        /\ mode = "full" /\ ~dryRun => toStat' = ToCompute
      BY <1>3 DEF CreateSchemaV2, flags, Does, ToCompute
  <2>2. Range(ToCompute) \ Range(ToCompute) = {}
      OBVIOUS
  <2> QED BY <2>1, <2>2 DEF StatsFollow
<1>4. CASE ComputeStat
  <2>1. /\ UNCHANGED <<schemaV2, mode, dryRun, stage>> /\ stage = "stats"
        /\ toStat # <<>> /\ toStat' = Tail(toStat)
        /\ StoreOrFail(Head(toStat), ValueOf(Head(toStat))) \/ Fault
      BY <1>4 DEF ComputeStat, schema, flags
  <2>2. SUFFICES ASSUME clean', mode = "full", ~dryRun, schemaV2
                 PROVE  \A s \in Range(ToCompute) \ Range(toStat') : global'[s] = ValueOf(s)
      BY <2>1 DEF StatsFollow
  <2>3. PICK h \in Range(ToCompute) : h = Head(toStat) /\ ValueOf(h) \in Nat
      BY <2>1, StillToWrite
  <2>4. StoreOrFail(h, ValueOf(h))
      BY <2>1, <2>2, <2>3 DEF Fault
  <2>5. /\ \A t \in Stats \ {h} : global'[t] = global[t]
        /\ global'[h] = ValueOf(h) /\ clean
    <3>1. h \in Stats /\ ValueOf(h) \in Nat
        BY <1>r, <2>3
    <3> QED BY <1>0, <2>2, <2>4, <3>1, StoreType
  <2>6. \A s \in Range(ToCompute) \ Range(toStat) : global[s] = ValueOf(s)
      BY <2>1, <2>2, <2>5 DEF StatsFollow
  <2>7. \A s \in Range(toStat) : s = h \/ s \in Range(Tail(toStat))
      BY <2>1, <2>3, StillToWrite
  <2>8. ASSUME NEW s \in Range(ToCompute) \ Range(toStat') PROVE global'[s] = ValueOf(s)
    <3>1. CASE s = h
        BY <2>5, <3>1
    <3>2. CASE s # h
      <4>1. s \in Range(ToCompute) \ Range(toStat) /\ s \in Stats \ {h}
          BY <1>r, <2>1, <2>7, <3>2
      <4> QED BY <2>5, <2>6, <4>1
    <3> QED BY <3>1, <3>2
  <2> QED BY <2>8
<1>5. CASE StoreUnique
  <2>1. /\ UNCHANGED <<schemaV2, mode, dryRun, toStat>> /\ stage = "metadata"
        /\ StoreOrFail("unique_domains", Cardinality(DomainsIn(found)))
      BY <1>5 DEF StoreUnique, schema, flags, progress
  <2>2. (\A t \in Stats \ {"unique_domains"} : global'[t] = global[t]) /\ (clean' => clean)
    <3>1. Cardinality(DomainsIn(found)) \in Nat
        BY <1>0, DomainsFinite
    <3>2. \A t \in Stats \ {"unique_domains"} : global'[t] = global[t]
        BY <1>0, <1>r, <2>1, <3>1, StoreType
    <3>3. NoFault \/ Fault
        BY <2>1 DEF StoreOrFail
    <3> QED BY <1>0, <3>2, <3>3, CleanStep
  <2>3. \A s \in Range(ToCompute) : global'[s] = global[s]
      BY <1>r, <2>2
  <2> QED BY <2>1, <2>2, <2>3 DEF StatsFollow
<1>6. CASE ScanDomains \/ InsertBatch \/ StartCreate \/ StartPopulate \/ Complete
  <2>1. /\ UNCHANGED <<schemaV2, global, mode, dryRun, toStat>> /\ stage \notin {"off", "schema"}
        /\ (NoFault \/ Fault)
      BY <1>6 DEF ScanDomains, InsertBatch, StartCreate, StartPopulate, Complete,
         schema, database, flags, progress
  <2>2. clean' => clean
      BY <1>0, <2>1, CleanStep
  <2> QED BY <2>1, <2>2 DEF StatsFollow
<1>7. ASSUME NEW ns \in NameServers, Works(ns) PROVE StatsFollow'
  <2>1. /\ UNCHANGED <<schemaV2, global, mode, dryRun, stage, toStat>> /\ (clean' => clean)
      BY <1>7, WorkFrame DEF schema, flags, progress
  <2> QED BY <2>1 DEF StatsFollow
<1>8. CASE UNCHANGED vars
    BY <1>8 DEF vars, schema, database, progress, flags, StatsFollow
<1> QED BY <1>1, <1>2, <1>3, <1>4, <1>5, <1>6, <1>7, <1>8 DEF Next, Step

\* What the run has done by its end is what the API answers with.
LEMMA AnswersFollow == Typed /\ MetadataFollows /\ StatsFollow => MetadataComplete
<1> SUFFICES ASSUME Typed, MetadataFollows, StatsFollow PROVE MetadataComplete
    OBVIOUS
<1>0. global["unique_domains"] \in Nat
    BY DEF Typed, Stats
<1>1. ASSUME stage = "done", Does("metadata"), ~dryRun, clean, schemaV2
      PROVE  /\ \A d \in Domains : metadata[d] = Info(d, ProviderNS)
             /\ global["unique_domains"] = Cardinality(Domains)
    BY <1>1 DEF MetadataFollows
<1>2. ASSUME Done("metadata"), schemaV2
      PROVE  /\ \A d \in Domains : metadata[d] = Info(d, ProviderNS)
             /\ GlobalStats.unique = Cardinality(Domains)
  <2>1. /\ \A d \in Domains : metadata[d] = Info(d, ProviderNS)
        /\ global["unique_domains"] = Cardinality(Domains)
      BY <1>1, <1>2 DEF Done
  <2>2. GlobalStats.unique = IF global["unique_domains"] > 0 THEN global["unique_domains"] ELSE 0
      BY DEF GlobalStats
  <2>3. GlobalStats.unique = global["unique_domains"]
      BY <1>0, <2>2
  <2> QED BY <2>1, <2>3
<1>3. ASSUME stage = "done", mode = "full", ~dryRun, clean, schemaV2, Domains # {}
      PROVE  GlobalStats = [source |-> "computed_v2", unique |-> Cardinality(Domains),
                            records |-> Records, providers |-> KnownProviders,
                            nameservers |-> KnownNameServers]
  <2>1. global["unique_domains"] = Cardinality(Domains)
      BY <1>1, <1>3 DEF Does
  <2>2. Cardinality(Domains) > 0
    <3>1. IsFiniteSet(Domains) /\ Cardinality(Domains) \in Nat
        BY DomainsFinite DEF Domains
    <3>2. Cardinality(Domains) # 0
        BY <1>3, <3>1, FS_EmptySet
    <3> QED BY <3>1, <3>2
  <2>3. /\ global["total_domain_records"] = Records /\ global["providers"] = KnownProviders
        /\ global["nameservers"] = KnownNameServers
    <3>1. toStat = <<>> /\ Range(toStat) = {}
        BY <1>3 DEF Typed, Range
    <3>2. \A s \in Range(ToCompute) : global[s] = ValueOf(s)
        BY <1>3, <3>1 DEF StatsFollow
    <3>3. /\ "total_domain_records" \in Range(ToCompute) /\ "providers" \in Range(ToCompute)
          /\ "nameservers" \in Range(ToCompute)
      <4>1. /\ ToCompute[1] = "total_domain_records" /\ ToCompute[2] = "providers"
            /\ ToCompute[3] = "nameservers" /\ DOMAIN ToCompute = {1, 2, 3}
          BY DEF ToCompute
      <4> QED BY <4>1 DEF Range
    <3> QED BY <3>2, <3>3 DEF ValueOf
  <2> QED BY <2>1, <2>2, <2>3 DEF GlobalStats
<1> QED BY <1>2, <1>3 DEF MetadataComplete

\* A run without an error leaves the metadata and the statistics of all domains,
\* whatever earlier runs left that failed or died, and the API answers with them.
THEOREM MetadataCompleteCorrect == Spec => []MetadataComplete
<1>1. Init => Typed /\ MetadataFollows /\ StatsFollow
  <2>1. Init => stage = "off"
      BY DEF Init
  <2> QED BY <2>1, TypedInit DEF MetadataFollows, StatsFollow
<1>2. Typed /\ MetadataFollows /\ StatsFollow /\ [Next]_vars
          => (Typed /\ MetadataFollows /\ StatsFollow)'
    BY TypedStep, MetadataStep, StatsStep
<1> QED BY <1>1, <1>2, AnswersFollow, PTL DEF Spec

-----------------------------------------------------------------------------
(* The tables of the nameservers.                                          *)

\* At the start no table exists...
LEMMA TablesHoldInit == Init => TablesHold
BY DEF Init, TablesHold

\* ... and every step puts domains only where one of their nameservers has its
\* table.
LEMMA TablesHoldStep == Typed /\ TablesHold /\ [Next]_vars => TablesHold'
<1> SUFFICES ASSUME Typed, TablesHold, [Next]_vars PROVE TablesHold'
    OBVIOUS
<1>1. CASE UNCHANGED <<listed, tables>>
    BY <1>1 DEF TablesHold, Sharing
<1>2. ASSUME NEW m \in Modes, NEW dry \in BOOLEAN, Run(m, dry) PROVE UNCHANGED <<listed, tables>>
    BY <1>2 DEF Run, schema, database
<1>3. CASE CreateSchemaV2 \/ ComputeStat \/ ScanDomains \/ InsertBatch \/ StoreUnique
           \/ StartCreate \/ StartPopulate \/ Complete \/ Dies
  <2>1. UNCHANGED <<listed, tables>>
      BY <1>3 DEF CreateSchemaV2, ComputeStat, ScanDomains, InsertBatch, StoreUnique, StartCreate,
         StartPopulate, Complete, Dies, schema, database
  <2> QED BY <1>1, <2>1
<1>4. ASSUME NEW ns \in NameServers, Works(ns) PROVE TablesHold'
  <2>1. ns \in listed /\ listed' = listed
      BY <1>4, WorkFrame DEF schema
  <2>2. \A t \in Range(TableOf) : tables'[t] # Missing =>
            \A d \in tables'[t] : \/ tables[t] # Missing /\ d \in tables[t]
                                  \/ t = TableOf[ns] /\ d \in Range(DomainsOf[ns])
      BY <1>4, TablesGrow
  <2>3. ASSUME NEW t \in Range(TableOf), tables'[t] # Missing, NEW d \in tables'[t]
        PROVE  \E m \in Sharing(t) : d \in Range(DomainsOf[m])
    <3>1. CASE tables[t] # Missing /\ d \in tables[t]
        BY <3>1 DEF TablesHold
    <3>2. CASE t = TableOf[ns] /\ d \in Range(DomainsOf[ns])
      <4>1. ns \in Sharing(t)
          BY <2>1, <3>2 DEF Sharing
      <4> QED BY <3>2, <4>1
    <3> QED BY <2>2, <2>3, <3>1, <3>2
  <2>4. \A t : Sharing(t)' = Sharing(t)
      BY <2>1 DEF Sharing
  <2> QED BY <2>3, <2>4 DEF TablesHold
<1>5. CASE UNCHANGED vars
  <2>1. UNCHANGED <<listed, tables>>
      BY <1>5 DEF vars, schema, database
  <2> QED BY <1>1, <2>1
<1> QED BY <1>1, <1>2, <1>3, <1>4, <1>5 DEF Next, Step

\* The rows up to a row are those before another and those from there on.
LEMMA RowsSplit ==
    ASSUME NEW ns, NEW i \in Nat, NEW to \in Int, i <= to + 1
    PROVE  Rows(ns, 0, to) = Rows(ns, 0, i - 1) \cup Rows(ns, i, to)
<1>1. \A j : j \in 0 .. to <=> (j \in 0 .. i - 1 \/ j \in i .. to)
    OBVIOUS
<1> QED BY <1>1 DEF Rows

\* The rows before the first are none, all rows are the domains.
LEMMA AllRows ==
    ASSUME NEW ns \in NameServers
    PROVE  /\ Rows(ns, 0, 0 - 1) = {}
           /\ Range(DomainsOf[ns]) \subseteq Rows(ns, 0, Len(DomainsOf[ns]) - 1)
<1> DEFINE n == Len(DomainsOf[ns])
<1>0. n \in Nat /\ DOMAIN DomainsOf[ns] = 1 .. n
    BY DomainsType
<1>1. ASSUME NEW j \in 1 .. n PROVE \E k \in 0 .. n - 1 : DomainsOf[ns][j] = DomainsOf[ns][k + 1]
  <2>1. j - 1 \in 0 .. n - 1 /\ (j - 1) + 1 = j
      BY <1>0
  <2> QED BY <2>1
<1> HIDE DEF n
<1>2. Range(DomainsOf[ns]) \subseteq Rows(ns, 0, n - 1)
    BY <1>0, <1>1 DEF Range, Rows
<1> QED BY <1>2 DEF Rows, n

\* With a last batch, what the loop has written when it ends and what is written
\* then are all the domains.
LEMMA RestKept ==
    ASSUME NEW ns \in NameServers, NEW i \in Nat, i <= worker[ns].has,
           worker[ns].has = Len(DomainsOf[ns])
    PROVE  Sure(ns) \subseteq Rows(ns, 0, i - 1) \cup RestOf(ns, i)
<1> DEFINE n == Len(DomainsOf[ns])
<1>1. CASE HasRest(ns)
  <2>1. Sure(ns) = Range(DomainsOf[ns]) /\ RestOf(ns, i) = Rows(ns, i, n - 1)
      BY <1>1 DEF Sure, HasRest, RestOf
  <2>2. n \in Nat /\ n - 1 \in Int /\ i <= (n - 1) + 1
      BY DomainsType
  <2>3. Rows(ns, 0, n - 1) = Rows(ns, 0, i - 1) \cup Rows(ns, i, n - 1)
    <3> HIDE DEF n
    <3> QED BY <2>2, RowsSplit
  <2>4. Range(DomainsOf[ns]) \subseteq Rows(ns, 0, n - 1)
      BY AllRows
  <2> QED BY <2>1, <2>3, <2>4
<1>2. CASE ~HasRest(ns)
    BY <1>2 DEF Sure
<1> QED BY <1>1, <1>2

\* A table that is filled stays filled when only others' goroutines work.
LEMMA FilledStays ==
    ASSUME Typed, NEW ns \in NameServers, NEW m \in NameServers, Filled(m), schemaV2' = schemaV2,
           worker'[m] = worker[m], index'[m] = index[m],
           \A t \in Range(TableOf) : tables[t] # Missing => tables'[t] # Missing /\ tables[t] \subseteq tables'[t]
    PROVE  Filled(m)'
<1>1. tables'[TableOf[m]] # Missing /\ tables[TableOf[m]] \subseteq tables'[TableOf[m]]
    BY DomainsType DEF Filled
<1> QED BY <1>1 DEF Filled

\* How one goroutine fills its table, as long as nothing fails.
LEMMA FilledStep ==
    ASSUME Typed, NEW ns \in NameServers, Filled(ns), Works(ns), stage = "fill", clean'
    PROVE  Filled(ns)'
<1>0. /\ worker \in [NameServers -> Goroutine] /\ DOMAIN index = NameServers
      /\ worker[ns].next \in Nat /\ Len(DomainsOf[ns]) \in Nat /\ TableOf[ns] \in Range(TableOf)
    BY DomainsType DEF Typed
<1>t. tables'[TableOf[ns]] # Missing /\ tables[TableOf[ns]] \subseteq tables'[TableOf[ns]]
  <2>1. \A t \in Range(TableOf) : tables[t] # Missing => tables'[t] # Missing /\ tables[t] \subseteq tables'[t]
      BY TablesGrow
  <2> QED BY <1>0, <2>1 DEF Filled
<1>s. schemaV2' = schemaV2
    BY WorkFrame DEF schema
<1>1. CASE CreateSlot(ns) \/ CreateTable(ns) \/ CreateFails(ns) \/ IndexTable(ns)
    BY <1>1 DEF CreateSlot, CreateTable, CreateFails, IndexTable
<1>2. CASE PopulateSlot(ns)
  <2>1. worker' = [worker EXCEPT ![ns] = [at |-> "filling", has |-> Len(DomainsOf[ns]), next |-> 0]]
      BY <1>2 DEF PopulateSlot, Fault
  <2>2. worker'[ns] = [at |-> "filling", has |-> Len(DomainsOf[ns]), next |-> 0]
      BY <1>0, <2>1
  <2>3. Rows(ns, 0, worker'[ns].next - 1) = {}
      BY <2>2, AllRows
  <2> QED BY <1>0, <1>t, <2>2, <2>3 DEF Filled
<1>3. CASE PutBatch(ns)
  <2> DEFINE i == worker[ns].next
             to == LastOfBatch(i)
  <2>1. /\ worker[ns].at = "filling" /\ to < worker[ns].has
        /\ PutOrFail(ns, Rows(ns, i, to)) /\ worker' = [worker EXCEPT ![ns].next = to + 1]
      BY <1>3 DEF PutBatch
  <2>2. /\ i \in Nat /\ worker[ns].has = Len(DomainsOf[ns])
        /\ Rows(ns, 0, i - 1) \subseteq tables[TableOf[ns]]
      BY <1>0, <2>1 DEF Filled
  <2>3. to \in Nat /\ i <= to /\ to + 1 \in Nat /\ to < Len(DomainsOf[ns])
    <3> HIDE DEF i
    <3>1. to \in Nat /\ i <= to
        BY <2>2, BatchEnds
    <3> QED BY <2>1, <2>2, <3>1
  <2>4. Rows(ns, i, to) \subseteq tables'[TableOf[ns]]
    <3> HIDE DEF i, to
    <3>1. Rows(ns, i, to) \subseteq Range(DomainsOf[ns])
        BY <2>2, <2>3, RowsAreDomains
    <3> QED BY <2>1, <3>1, PutType DEF Filled
  <2>5. Rows(ns, 0, to) \subseteq tables'[TableOf[ns]]
    <3> HIDE DEF i, to
    <3>1. Rows(ns, 0, to) = Rows(ns, 0, i - 1) \cup Rows(ns, i, to)
        BY <2>2, <2>3, RowsSplit
    <3> QED BY <1>t, <2>2, <2>4, <3>1
  <2>6. /\ worker'[ns].at = "filling" /\ worker'[ns].next = to + 1
        /\ worker'[ns].has = Len(DomainsOf[ns])
    <3> HIDE DEF i, to
    <3> QED BY <1>0, <2>1, <2>2
  <2>7. (to + 1) - 1 = to /\ to + 1 <= Len(DomainsOf[ns])
    <3> HIDE DEF i, to
    <3> QED BY <1>0, <2>3
  <2> HIDE DEF i, to
  <2>8. Rows(ns, 0, worker'[ns].next - 1) \subseteq tables'[TableOf[ns]]
      BY <2>5, <2>6, <2>7
  <2> QED BY <1>t, <2>6, <2>7, <2>8 DEF Filled
<1>4. CASE PutRest(ns)
  <2> DEFINE i == worker[ns].next
  <2>1. /\ worker[ns].at = "filling"
        /\ PutOrFail(ns, RestOf(ns, i)) /\ Goes(ns, "filled") /\ "filled" \in Labels
      BY <1>4 DEF PutRest, Labels
  <2>2. /\ i \in Nat /\ i <= worker[ns].has /\ worker[ns].has = Len(DomainsOf[ns])
        /\ Rows(ns, 0, i - 1) \subseteq tables[TableOf[ns]]
      BY <1>0, <2>1 DEF Filled
  <2> HIDE DEF i
  <2>3. RestOf(ns, i) \subseteq tables'[TableOf[ns]]
    <3>1. worker[ns].has \in Nat /\ worker[ns].has <= Len(DomainsOf[ns])
        BY <1>0, <2>2
    <3>2. RestOf(ns, i) \subseteq Range(DomainsOf[ns])
        BY <2>2, <3>1, RestsAreDomains
    <3> QED BY <2>1, <3>2, PutType DEF Filled
  <2>4. Sure(ns) \subseteq tables'[TableOf[ns]]
    <3>1. Sure(ns) \subseteq Rows(ns, 0, i - 1) \cup RestOf(ns, i)
        BY <2>2, RestKept
    <3> QED BY <1>t, <2>2, <2>3, <3>1
  <2>5. worker'[ns].at = "filled" /\ worker'[ns].has = Len(DomainsOf[ns])
      BY <2>1, <2>2, GoesType
  <2> QED BY <1>t, <2>4, <2>5 DEF Filled
<1>5. CASE IndexPopulated(ns)
  <2>1. /\ worker[ns].at = "filled" /\ Goes(ns, "over") /\ "over" \in Labels
        /\ schemaV2 => index' = [index EXCEPT ![ns] = [count |-> worker[ns].has, populated |-> TRUE]]
      BY <1>5 DEF IndexPopulated, Fault, Labels
  <2>2. worker'[ns].at = "over"
      BY <2>1, GoesType
  <2>3. schemaV2 => index'[ns] = Indexed(ns)
      BY <1>0, <2>1 DEF Filled, Indexed
  <2>4. Sure(ns) \subseteq tables'[TableOf[ns]]
      BY <1>t, <2>1 DEF Filled
  <2> QED BY <1>t, <1>s, <2>2, <2>3, <2>4 DEF Filled
<1> QED BY <1>1, <1>2, <1>3, <1>4, <1>5 DEF Works

\* At the start no table is being filled...
LEMMA TablesFollowInit == Init => TablesFollow
BY DEF Init, TablesFollow

\* ... and every step fills the tables as far as the run has come.
LEMMA TablesFollowStep == Typed /\ TablesFollow /\ [Next]_vars => TablesFollow'
<1> SUFFICES ASSUME Typed, TablesFollow, [Next]_vars PROVE TablesFollow'
    OBVIOUS
<1>0. /\ clean \in BOOLEAN /\ listed \subseteq NameServers /\ DOMAIN index = NameServers
      /\ worker \in [NameServers -> Goroutine]
      /\ tables \in [Range(TableOf) -> (SUBSET AllDomains) \cup {Missing}]
      /\ \A domains \in SUBSET AllDomains : domains # Missing
    BY MigrationAssumption DEF Typed
<1>w. \A ns \in NameServers : TableOf[ns] \in Range(TableOf)
    BY DomainsType
<1>1. ASSUME NEW m \in Modes, NEW dry \in BOOLEAN, Run(m, dry) PROVE TablesFollow'
  <2>1. stage' = "schema"
      BY <1>1 DEF Run
  <2> QED BY <2>1 DEF TablesFollow
<1>2. CASE CreateSchemaV2 \/ ComputeStat \/ ScanDomains \/ InsertBatch \/ StoreUnique \/ Dies
  <2>1. stage' \in {"off", "stats", "metadata", "create"}
      BY <1>2 DEF CreateSchemaV2, ComputeStat, ScanDomains, InsertBatch, StoreUnique, Dies
  <2> QED BY <2>1 DEF TablesFollow
<1>3. CASE StartCreate
  <2>1. CASE Does("tables") /\ ~dryRun
    <3>1. /\ stage' = "tables"
          /\ worker' = [ns \in NameServers |->
                          IF ns \in listed THEN [NotStarted EXCEPT !.at = "waiting"] ELSE NotStarted]
        BY <1>3, <2>1 DEF StartCreate
    <3>2. listed' = listed
        BY <1>3 DEF StartCreate, schema
    <3>3. \A ns \in listed : worker'[ns].at = "waiting"
        BY <1>0, <3>1 DEF NotStarted
    <3> QED BY <3>1, <3>2, <3>3 DEF TablesFollow
  <2>2. CASE ~(Does("tables") /\ ~dryRun)
    <3>1. stage' = "done" /\ UNCHANGED <<mode, dryRun>>
        BY <1>3, <2>2 DEF StartCreate, flags
    <3> QED BY <2>2, <3>1 DEF TablesFollow, Does
  <2> QED BY <2>1, <2>2
<1>4. CASE StartPopulate
  <2>1. /\ stage = "tables" /\ All("over") /\ stage' = "fill"
        /\ UNCHANGED <<schemaV2, listed, tables, index, clean>>
        /\ worker' = [ns \in NameServers |->
                        IF ns \in listed THEN [NotStarted EXCEPT !.at = "waiting"] ELSE NotStarted]
      BY <1>4 DEF StartPopulate, schema, database, NoFault
  <2>2. ASSUME clean, NEW ns \in listed PROVE Filled(ns)'
    <3>1. tables[TableOf[ns]] # Missing
        BY <2>1, <2>2 DEF TablesFollow, All
    <3>2. worker'[ns].at = "waiting"
        BY <1>0, <2>1 DEF NotStarted
    <3> QED BY <2>1, <3>1, <3>2 DEF Filled
  <2> QED BY <2>1, <2>2 DEF TablesFollow
<1>5. CASE Complete
  <2>1. /\ stage = "fill" /\ All("over") /\ stage' = "done"
        /\ UNCHANGED <<schemaV2, listed, tables, index, clean>>
      BY <1>5 DEF Complete, schema, database, NoFault
  <2>2. ASSUME clean, NEW ns \in listed
        PROVE  /\ tables[TableOf[ns]] # Missing
               /\ Sure(ns) \subseteq tables[TableOf[ns]]
               /\ schemaV2 => index[ns] = Indexed(ns)
    <3>1. Filled(ns) /\ worker[ns].at = "over"
        BY <2>1, <2>2 DEF TablesFollow, All
    <3> QED BY <3>1 DEF Filled
  <2> QED BY <2>1, <2>2 DEF TablesFollow
<1>6. ASSUME NEW ns \in NameServers, Works(ns) PROVE TablesFollow'
  <2>1. /\ UNCHANGED <<schemaV2, listed, stage>> /\ ns \in listed
        /\ \A m \in NameServers \ {ns} : worker'[m] = worker[m] /\ index'[m] = index[m]
        /\ clean' => clean
        /\ stage \in {"tables", "fill"}
      BY <1>6, WorkFrame DEF schema
  <2>2. \A t \in Range(TableOf) : tables[t] # Missing => tables'[t] # Missing /\ tables[t] \subseteq tables'[t]
      BY <1>6, TablesGrow
  <2>3. CASE stage = "tables"
    <3>1. ASSUME clean', worker'[ns].at \in {"created", "over"} PROVE tables'[TableOf[ns]] # Missing
      <4>1. CASE CreateTable(ns)
        <5>1. tables' = [tables EXCEPT ![TableOf[ns]] =
                           IF tables[TableOf[ns]] = Missing THEN {} ELSE tables[TableOf[ns]]]
            BY <4>1 DEF CreateTable
        <5>2. {} # Missing
            BY <1>0
        <5> QED BY <1>0, <1>w, <5>1, <5>2
      <4>2. CASE IndexTable(ns)
        <5>1. worker[ns].at = "created"
            BY <4>2 DEF IndexTable
        <5>2. tables[TableOf[ns]] # Missing
            BY <2>1, <2>3, <3>1, <5>1 DEF TablesFollow
        <5> QED BY <1>w, <2>2, <5>2
      <4>3. CASE CreateSlot(ns)
        <5>1. Goes(ns, "creating") /\ "creating" \in Labels
            BY <4>3 DEF CreateSlot, Labels
        <5>2. worker'[ns].at = "creating"
            BY <5>1, GoesType
        <5> QED BY <3>1, <5>2
      <4>4. ~CreateFails(ns)
          BY <3>1 DEF CreateFails, Fault
      <4>5. ~(PopulateSlot(ns) \/ PutBatch(ns) \/ PutRest(ns) \/ IndexPopulated(ns))
          BY <2>3 DEF PopulateSlot, PutBatch, PutRest, IndexPopulated
      <4> QED BY <1>6, <4>1, <4>2, <4>3, <4>4, <4>5 DEF Works
    <3>2. ASSUME clean', NEW m \in listed, worker'[m].at \in {"created", "over"}
          PROVE  tables'[TableOf[m]] # Missing
      <4>1. CASE m = ns
          BY <3>1, <3>2, <4>1
      <4>2. CASE m # ns
        <5>1. worker'[m] = worker[m] /\ m \in NameServers
            BY <1>0, <2>1, <4>2
        <5>2. tables[TableOf[m]] # Missing
            BY <2>1, <2>3, <3>2, <5>1 DEF TablesFollow
        <5> QED BY <1>w, <2>2, <5>1, <5>2
      <4> QED BY <4>1, <4>2
    <3> QED BY <2>1, <2>3, <3>2 DEF TablesFollow
  <2>4. CASE stage = "fill"
    <3>1. ASSUME clean', NEW m \in listed PROVE Filled(m)'
      <4>1. Filled(m) /\ m \in NameServers
          BY <1>0, <2>1, <2>4, <3>1 DEF TablesFollow
      <4>2. CASE m = ns
          BY <1>6, <2>4, <3>1, <4>1, <4>2, FilledStep
      <4>3. CASE m # ns
        <5>1. worker'[m] = worker[m] /\ index'[m] = index[m] /\ schemaV2' = schemaV2
            BY <2>1, <4>1, <4>3
        <5> QED BY <2>2, <4>1, <5>1, FilledStays
      <4> QED BY <4>2, <4>3
    <3> QED BY <2>1, <2>4, <3>1 DEF TablesFollow
  <2> QED BY <2>1, <2>3, <2>4
<1>7. CASE UNCHANGED vars
  <2>1. UNCHANGED <<schemaV2, listed, tables, index, stage, mode, dryRun, clean, worker>>
      BY <1>7 DEF vars, schema, database, flags
  <2> QED BY <2>1 DEF TablesFollow, Filled, Does
<1> QED BY <1>1, <1>2, <1>3, <1>4, <1>5, <1>6, <1>7 DEF Next, Step

\* What the goroutines have done by the end of the run.
LEMMA FilledFollows == Typed /\ TablesHold /\ TablesFollow => TablesFilled
<1> SUFFICES ASSUME Typed, TablesHold, TablesFollow, Done("tables") PROVE TablesFilled
    BY DEF TablesFilled
<1>1. ASSUME NEW ns \in listed, HasRest(ns)
      PROVE  /\ tables[TableOf[ns]] # Missing
             /\ Range(DomainsOf[ns]) \subseteq tables[TableOf[ns]]
             /\ schemaV2 => index[ns] = [count |-> Len(DomainsOf[ns]), populated |-> TRUE]
    BY <1>1 DEF Done, TablesFollow, Sure, Indexed
<1>2. ASSUME NEW t \in Range(TableOf), tables[t] # Missing
      PROVE  tables[t] \subseteq UNION {Range(DomainsOf[ns]) : ns \in Sharing(t)}
    BY <1>2 DEF TablesHold
<1> QED BY <1>1, <1>2 DEF TablesFilled

\* A run without an error leaves a table for each nameserver that has a last
\* batch with all of its domains, and an index that says so; no table ever holds
\* a domain of anybody but the nameservers with its name.
THEOREM TablesFilledCorrect == Spec => []TablesFilled
<1>1. Init => Typed /\ TablesHold /\ TablesFollow
    BY TypedInit, TablesHoldInit, TablesFollowInit
<1>2. Typed /\ TablesHold /\ TablesFollow /\ [Next]_vars => (Typed /\ TablesHold /\ TablesFollow)'
    BY TypedStep, TablesHoldStep, TablesFollowStep
<1> QED BY <1>1, <1>2, FilledFollows, PTL DEF Spec
===============================================================================
