---------------------------- MODULE IngesterProofs ----------------------------
(***************************************************************************)
(* What TLAPS proves of the ingester, for every file, number of workers,   *)
(* errors and kills.                                                       *)
(***************************************************************************)
EXTENDS Ingester, FoldLemmas

-----------------------------------------------------------------------------
(* The inductive invariants.                                               *)

Writing(f) == flush[f] \in {"ns_stats", "provider_ns"}

\* A record on its way is of a row of the file.
Rec == {r \in [row : DOMAIN File, ns : NameServers, provider : Providers] : File[r.row] = r.ns}

\* Before the run starts there is nothing; main flushes after the workers, and
\* they stop when the file is read and the channel drained; one flush at a time
\* holds the lock.
Phases ==
    /\ recordCh \in Seq(Rec) /\ batch \in [Workers -> Seq(Rec)]
    /\ main = "clear" => /\ next = 0 /\ recordCh = <<>>
                         /\ \A f \in Flushers : flush[f] = "idle"
    /\ \A w \in Workers : (main = "clear") <=> (worker[w] = "off")
    /\ main \in {"flush", "done"} => \A w \in Workers : worker[w] = "stopped"
    /\ \A w \in Workers : worker[w] = "stopped" => next = Len(File) /\ recordCh = <<>>
    /\ main = "ingest" => flush["main"] = "idle"
    /\ \A f, g \in Flushers : Writing(f) /\ Writing(g) => f = g

Typed == TypeOK /\ Phases

\* Without a fault the tables follow the flush under way: what it has written
\* is of agg, the rest is of the flush before.
TablesFollow ==
    (faults = 0 /\ main # "clear") =>
        /\ \A k \in Pairs : provider_ns[k] <= agg[k]
        /\ \A p \in Providers :
              provider_stats[p] = IF Locked THEN OfProvider(agg, p) ELSE OfProvider(provider_ns, p)
        /\ \A n \in NameServers :
              ns_stats[n] = IF \E f \in Flushers : flush[f] = "provider_ns"
                            THEN OfNS(agg, n) ELSE OfNS(provider_ns, n)

\* Without a fault every row read is stored or waits to be.
Stored(i) ==
    \/ i \in stored
    \/ i \in Rows(recordCh)
    \/ \E w \in Workers : worker[w] \in {"select", "insert"} /\ i \in Rows(batch[w])
RowsStored == faults = 0 => \A i \in 1 .. next : File[i] \in NameServers => Stored(i)

\* Without a fault every record read of a nameserver is aggregated or waits to
\* be.
Of(n) == {r \in Rec : r.ns = n}
Waiting(label, b, n) ==
    [w \in Workers |-> IF label[w] \in {"select", "insert", "aggregate"}
                       THEN CountIn(b[w], Of(n)) ELSE 0]
Unaggregated(n) == Waiting(worker, batch, n)
RowsCounted ==
    faults = 0 => \A n \in NameServers :
        OfNS(agg, n) + SumOf(Unaggregated(n), Workers) + CountIn(recordCh, Of(n))
            = Cardinality({i \in 1 .. next : File[i] = n})

\* Without a fault the last flush leaves the totals of agg in ns_stats.
LastWritten ==
    (faults = 0 /\ (main = "done" \/ (main = "flush" /\ flush["main"] \in {"provider_ns", "idle"})))
        => \A n \in NameServers : ns_stats[n] = OfNS(agg, n)

-----------------------------------------------------------------------------
(* Sums over the pairs.                                                    *)

\* The totals of a provider and of a nameserver are sums of numbers.
LEMMA Totals ==
    ASSUME NEW c \in [Pairs -> Nat]
    PROVE  /\ \A p \in Providers : /\ OfProvider(c, p) \in Nat
                                   /\ OfProvider(c, p) = SumOf([n \in NameServers |-> c[<<p, n>>]], NameServers)
           /\ \A n \in NameServers : /\ OfNS(c, n) \in Nat
                                     /\ OfNS(c, n) = SumOf([p \in Providers |-> c[<<p, n>>]], Providers)
<1>0. IsFiniteSet(Providers) /\ IsFiniteSet(NameServers)
    BY IngesterAssumption
<1>1. ASSUME NEW p \in Providers
      PROVE  /\ OfProvider(c, p) \in Nat
             /\ OfProvider(c, p) = SumOf([n \in NameServers |-> c[<<p, n>>]], NameServers)
  <2> DEFINE f == [n \in NameServers |-> c[<<p, n>>]]
  <2>1. \A n \in NameServers : f[n] \in Nat
      BY DEF Pairs
  <2>2. OfProvider(c, p) = SumFunction(f) /\ DOMAIN f = NameServers
      BY DEF OfProvider
  <2> HIDE DEF f
  <2>3. OfProvider(c, p) = SumOf(f, NameServers)
      BY <2>2, Zenon DEF SumFunction, SumOf
  <2>4. SumOf(f, NameServers) \in Nat
      BY <1>0, <2>1, SumType
  <2> QED BY <2>3, <2>4 DEF f
<1>2. ASSUME NEW n \in NameServers
      PROVE  /\ OfNS(c, n) \in Nat
             /\ OfNS(c, n) = SumOf([p \in Providers |-> c[<<p, n>>]], Providers)
  <2> DEFINE f == [p \in Providers |-> c[<<p, n>>]]
  <2>1. \A p \in Providers : f[p] \in Nat
      BY DEF Pairs
  <2>2. OfNS(c, n) = SumFunction(f) /\ DOMAIN f = Providers
      BY DEF OfNS
  <2> HIDE DEF f
  <2>3. OfNS(c, n) = SumOf(f, Providers)
      BY <2>2, Zenon DEF SumFunction, SumOf
  <2>4. SumOf(f, Providers) \in Nat
      BY <1>0, <2>1, SumType
  <2> QED BY <2>3, <2>4 DEF f
<1> QED BY <1>1, <1>2

\* Smaller counts have smaller totals.
LEMMA TotalsMonotonic ==
    ASSUME NEW c \in [Pairs -> Nat], NEW d \in [Pairs -> Nat], \A k \in Pairs : c[k] <= d[k]
    PROVE  /\ \A p \in Providers : OfProvider(c, p) <= OfProvider(d, p)
           /\ \A n \in NameServers : OfNS(c, n) <= OfNS(d, n)
<1>0. IsFiniteSet(Providers) /\ IsFiniteSet(NameServers)
    BY IngesterAssumption
<1>1. ASSUME NEW p \in Providers PROVE OfProvider(c, p) <= OfProvider(d, p)
  <2> DEFINE f == [n \in NameServers |-> c[<<p, n>>]]
             g == [n \in NameServers |-> d[<<p, n>>]]
  <2>1. \A n \in NameServers : f[n] \in Nat /\ g[n] \in Nat /\ f[n] <= g[n]
      BY DEF Pairs
  <2>2. OfProvider(c, p) = SumOf(f, NameServers) /\ OfProvider(d, p) = SumOf(g, NameServers)
      BY Totals
  <2> HIDE DEF f, g
  <2> QED BY <1>0, <2>1, <2>2, SumMonotonic
<1>2. ASSUME NEW n \in NameServers PROVE OfNS(c, n) <= OfNS(d, n)
  <2> DEFINE f == [p \in Providers |-> c[<<p, n>>]]
             g == [p \in Providers |-> d[<<p, n>>]]
  <2>1. \A p \in Providers : f[p] \in Nat /\ g[p] \in Nat /\ f[p] <= g[p]
      BY DEF Pairs
  <2>2. OfNS(c, n) = SumOf(f, Providers) /\ OfNS(d, n) = SumOf(g, Providers)
      BY Totals
  <2> HIDE DEF f, g
  <2> QED BY <1>0, <2>1, <2>2, SumMonotonic
<1> QED BY <1>1, <1>2

\* A batch of records of the file: what it holds of each pair.
LEMMA BatchCounts ==
    ASSUME NEW b \in Seq(Rec)
    PROVE  /\ \A p \in Providers, n \in NameServers : Occurrences(b, p, n) \in Nat
           /\ Rows(b) \subseteq DOMAIN File /\ Seen(b) \subseteq NameServers
           /\ Len(b) \in Nat /\ DOMAIN b = 1 .. Len(b) /\ IsFiniteSet(DOMAIN b)
           /\ \A i \in DOMAIN b : b[i] \in Rec
<1>1. DOMAIN b = 1 .. Len(b) /\ Len(b) \in Nat /\ \A i \in DOMAIN b : b[i] \in Rec
    BY LenProperties, ElementOfSeq
<1>2. IsFiniteSet(DOMAIN b)
    BY <1>1, OneTo
<1>3. \A p, n : IsFiniteSet({i \in DOMAIN b : b[i].provider = p /\ b[i].ns = n})
    BY <1>2, FS_Subset
<1>4. \A p \in Providers, n \in NameServers : Occurrences(b, p, n) \in Nat
    BY <1>3, FS_CardinalityType DEF Occurrences
<1> QED BY <1>1, <1>2, <1>4 DEF Rec, Rows, Seen

\* Aggregating a batch adds to each total what it holds.
LEMMA AggregatedType ==
    ASSUME Typed, NEW b \in Seq(Rec)
    PROVE  /\ Aggregated(b) \in [Pairs -> Nat]
           /\ \A k \in Pairs : agg[k] <= Aggregated(b)[k]
<1>1. agg \in [Pairs -> Nat]
    BY DEF Typed, TypeOK
<1>2. \A k \in Pairs : Occurrences(b, k[1], k[2]) \in Nat
    BY BatchCounts DEF Pairs
<1> QED BY <1>1, <1>2 DEF Aggregated

\* A flush keeps to the types of the tables and takes one fault at most.
LEMMA FlushType ==
    ASSUME TypeOK, NEW f \in Flushers, FlushProviders(f) \/ FlushNameServers(f) \/ FlushPairs(f)
    PROVE  /\ faults' \in 0 .. MaxFaults /\ crashes' \in 0 .. MaxCrashes
           /\ provider_stats' \in [Providers -> Nat]
           /\ ns_stats' \in [NameServers -> Nat] /\ provider_ns' \in [Pairs -> Nat]
<1>0. /\ agg \in [Pairs -> Nat] /\ provider_stats \in [Providers -> Nat]
      /\ ns_stats \in [NameServers -> Nat] /\ provider_ns \in [Pairs -> Nat]
      /\ faults \in 0 .. MaxFaults /\ crashes \in 0 .. MaxCrashes /\ MaxFaults \in Nat /\ MaxCrashes \in Nat
    BY IngesterAssumption DEF TypeOK
<1>1. CASE FlushProviders(f)
  <2> DEFINE new == [p \in Providers |-> OfProvider(agg, p)]
  <2>1. new \in [Providers -> Nat]
      BY <1>0, Totals
  <2>2. Write(provider_stats, new) /\ UNCHANGED <<ns_stats, provider_ns>>
      BY <1>1 DEF FlushProviders
  <2> HIDE DEF new
  <2> QED BY <1>0, <2>1, <2>2 DEF Write, Fault, bounds
<1>2. CASE FlushNameServers(f)
  <2> DEFINE new == [n \in NameServers |-> OfNS(agg, n)]
  <2>1. new \in [NameServers -> Nat]
      BY <1>0, Totals
  <2>2. Write(ns_stats, new) /\ UNCHANGED <<provider_stats, provider_ns>>
      BY <1>2 DEF FlushNameServers
  <2> HIDE DEF new
  <2> QED BY <1>0, <2>1, <2>2 DEF Write, Fault, bounds
<1>3. CASE FlushPairs(f)
    BY <1>0, <1>3 DEF FlushPairs, Write, Fault, bounds
<1> QED BY <1>1, <1>2, <1>3

-----------------------------------------------------------------------------
(* Types and phases.                                                       *)

\* The state starts in its types and phases...
LEMMA TypedInit == Init => Typed
<1> SUFFICES ASSUME Init PROVE Typed
    OBVIOUS
<1>1. TypeOK
  <2>1. Left \in [Pairs -> Nat] /\ Len(File) \in Nat
      BY IngesterAssumption, LenProperties
  <2>2. provider_stats \in [Providers -> Nat] /\ ns_stats \in [NameServers -> Nat]
      BY <2>1, Totals DEF Init
  <2> QED BY <2>1, <2>2, IngesterAssumption DEF Init, TypeOK, Flushers
<1>2. Phases
    BY DEF Init, Phases, Flushers, Writing
<1> QED BY <1>1, <1>2 DEF Typed

\* ... and every step keeps to them.
LEMMA TypedStep == Typed /\ [Next]_vars => Typed'
<1> SUFFICES ASSUME Typed, [Next]_vars PROVE Typed'
    OBVIOUS
<1>0. /\ TypeOK /\ Phases
      /\ Len(File) \in Nat /\ File \in Seq(NameServers \cup {Bad, Blank}) /\ DOMAIN File = 1 .. Len(File)
      /\ BatchSize \in Nat \ {0} /\ Capacity \in Nat \ {0}
      /\ MaxFaults \in Nat /\ MaxCrashes \in Nat
    BY IngesterAssumption, LenProperties DEF Typed
<1>b. \A w \in Workers : batch[w] \in Seq(Rec) /\ Len(batch[w]) \in Nat /\ Rows(batch[w]) \subseteq DOMAIN File
                         /\ Seen(batch[w]) \subseteq NameServers
    BY <1>0, BatchCounts DEF Phases
<1>1. CASE Clear
    BY <1>0, <1>1 DEF Clear, Typed, TypeOK, Phases, Flushers, Writing, reading, stats, bounds
<1>2. CASE ClearFails
    BY <1>0, <1>2 DEF ClearFails, Fault, Typed, TypeOK, Phases, Flushers, Writing, reading, stats
<1>3. CASE WorkersDone
    BY <1>0, <1>3 DEF WorkersDone, Typed, TypeOK, Phases, Flushers, Writing, reading, working, stats, tables, bounds
<1>4. CASE Finish
    BY <1>0, <1>4 DEF Finish, Typed, TypeOK, Phases, Flushers, Writing, reading, working, stats, tables, bounds
<1>5. CASE Crash
  <2>1. TypeOK'
      BY <1>0, <1>5 DEF Crash, TypeOK, Flushers, tables
  <2>2. Phases'
      BY <1>0, <1>5 DEF Crash, Phases, Flushers, Writing
  <2> QED BY <2>1, <2>2 DEF Typed
<1>6. CASE Send
  <2> DEFINE r(p) == [row |-> next', ns |-> File[next'], provider |-> p]
  <2>1. /\ next \in Nat /\ next' = next + 1 /\ next < Len(File) /\ next' \in 1 .. Len(File)
        /\ File[next'] \in NameServers
      BY <1>0, <1>6 DEF Send, TypeOK
  <2>2. File[next'] \in NameServers
      BY <2>1
  <2>3. PICK p \in ProvidersOf[File[next']] : recordCh' = Append(recordCh, r(p))
      BY <1>6 DEF Send
  <2>4. p \in Providers
      BY <2>2, <2>3, IngesterAssumption
  <2>5. r(p) \in Rec
      BY <1>0, <2>1, <2>2, <2>4 DEF Rec
  <2>6. recordCh' \in Seq(Rec) /\ Len(recordCh') = Len(recordCh) + 1 /\ Len(recordCh) \in Nat
    <3>1. recordCh \in Seq(Rec)
        BY <1>0 DEF Phases
    <3> HIDE DEF r
    <3> QED BY <2>3, <2>5, <3>1, AppendProperties, LenProperties
  <2>7. TypeOK'
      BY <1>0, <1>6, <2>1, <2>6 DEF Send, TypeOK, working, stats, tables, bounds
  <2>8. UNCHANGED <<main, worker, batch, flush>> /\ main = "ingest"
      BY <1>6 DEF Send, working
  <2>9. Phases'
    <3>1. \A w \in Workers : worker[w] # "stopped"
      <4>1. \A w \in Workers : worker[w] = "stopped" => next = Len(File)
          BY <1>0, Zenon DEF Phases
      <4>2. Len(File) \in Nat /\ next \in Nat /\ next < Len(File)
          BY <1>0, <2>1, Zenon
      <4>3. next # Len(File)
          BY <4>2
      <4> QED BY <4>1, <4>3, Zenon
    <3>2. \A g \in Flushers : Writing(g)' <=> Writing(g)
        BY <2>8 DEF Writing
    <3> QED BY <1>0, <2>6, <2>8, <3>1, <3>2 DEF Phases
  <2> QED BY <2>7, <2>9 DEF Typed
<1>7. CASE ReadFails \/ Skip
  <2>1. /\ next \in Nat /\ next' = next + 1 /\ next < Len(File) /\ next' \in 0 .. Len(File)
        /\ main = "ingest" /\ errors \in Nat /\ errors' \in Nat
      BY <1>0, <1>7 DEF ReadFails, Skip, TypeOK, stats
  <2>2. UNCHANGED <<main, recordCh, working, agg, insertions, nsCounts, nameservers, flush, tables,
                    stored, bounds>>
      BY <1>7 DEF ReadFails, Skip, stats
  <2>3. TypeOK'
      BY <1>0, <2>1, <2>2 DEF TypeOK, working, tables, bounds
  <2>4. Phases'
    <3>1. \A w \in Workers : worker[w] # "stopped"
      <4>1. \A w \in Workers : worker[w] = "stopped" => next = Len(File)
          BY <1>0, Zenon DEF Phases
      <4>2. Len(File) \in Nat /\ next \in Nat /\ next < Len(File)
          BY <1>0, <2>1, Zenon
      <4>3. next # Len(File)
          BY <4>2
      <4> QED BY <4>1, <4>3, Zenon
    <3>2. \A g \in Flushers : Writing(g)' <=> Writing(g)
        BY <2>2 DEF Writing
    <3>3. worker' = worker /\ batch' = batch
        BY <2>2 DEF working
    <3> QED BY <1>0, <2>1, <2>2, <3>1, <3>2, <3>3 DEF Phases
  <2> QED BY <2>3, <2>4 DEF Typed
<1>8. CASE Tick
  <2>1. TypeOK'
      BY <1>0, <1>8 DEF Tick, Flush, TypeOK, Flushers, reading, working, stats, tables, bounds
  <2>2. Phases'
      BY <1>0, <1>8 DEF Tick, Flush, TypeOK, Phases, Flushers, Writing, reading, working
  <2> QED BY <2>1, <2>2 DEF Typed
<1>9. ASSUME NEW w \in Workers, Receive(w) PROVE Typed'
  <2>1. /\ Head(recordCh) \in Rec /\ Tail(recordCh) \in Seq(Rec)
        /\ Append(batch[w], Head(recordCh)) \in Seq(Rec)
        /\ Len(Append(batch[w], Head(recordCh))) = Len(batch[w]) + 1
        /\ Len(Tail(recordCh)) = Len(recordCh) - 1 /\ Len(recordCh) \in Nat
      BY <1>0, <1>9, <1>b, HeadTail, HeadTailProperties, AppendProperties, LenProperties DEF Receive, Phases
  <2>2. TypeOK'
      BY SMTT(30), <1>0, <1>9, <1>b, <2>1 DEF Receive, Full, Worker, TypeOK, stats, tables, bounds
  <2>3. Phases'
      BY <1>0, <1>9, <2>1 DEF Receive, Worker, TypeOK, Phases, Writing
  <2> QED BY <2>2, <2>3 DEF Typed
<1>10. ASSUME NEW w \in Workers, FlushTick(w) \/ Stop(w) \/ Aggregate(w) PROVE Typed'
  <2>1. \E from \in {"select", "aggregate"}, to \in {"insert", "stopped", "count"} :
            Worker(w, from, to) /\ (to = "stopped" => next = Len(File) /\ recordCh = <<>> /\ batch[w] = <<>>)
      BY <1>10 DEF FlushTick, Stop, Aggregate
  <2>2. UNCHANGED <<main, reading, batch, stats, flush, tables, stored, bounds>>
      BY <1>10 DEF FlushTick, Stop, Aggregate
  <2>3. agg' \in [Pairs -> Nat]
    <3>1. agg \in [Pairs -> Nat] /\ Aggregated(batch[w]) \in [Pairs -> Nat]
        BY <1>0, <1>b, AggregatedType DEF TypeOK
    <3>2. agg' = agg \/ agg' = Aggregated(batch[w])
        BY <1>10 DEF FlushTick, Stop, Aggregate, tables
    <3> QED BY <3>1, <3>2
  <2>4. TypeOK'
      BY <1>0, <2>1, <2>2, <2>3 DEF Worker, TypeOK, reading, stats, tables, bounds
  <2>5. Phases'
      BY <1>0, <2>1, <2>2 DEF Worker, TypeOK, Phases, Writing, reading
  <2> QED BY <2>4, <2>5 DEF Typed
<1>11. ASSUME NEW w \in Workers, Insert(w) PROVE Typed'
  <2>1. TypeOK'
      BY <1>0, <1>11, <1>b DEF Insert, Worker, TypeOK, reading, stats, tables, bounds
  <2>2. Phases'
      BY <1>0, <1>11 DEF Insert, Worker, TypeOK, Phases, Writing, reading
  <2> QED BY <2>1, <2>2 DEF Typed
<1>12. ASSUME NEW w \in Workers, InsertFails(w) PROVE Typed'
  <2>1. /\ worker' = [worker EXCEPT ![w] = "select"] /\ worker[w] = "insert"
        /\ batch' = [batch EXCEPT ![w] = <<>>]
        /\ errors' = errors + Len(batch[w])
        /\ faults' = faults + 1 /\ faults < MaxFaults /\ crashes' = crashes
      BY <1>12 DEF InsertFails, Worker, Fault
  <2>2. UNCHANGED <<main, reading, agg, insertions, nsCounts, nameservers, flush, tables>>
      BY <1>12 DEF InsertFails
  <2>3. stored' \subseteq DOMAIN File
      BY <1>0, <1>12, <1>b DEF InsertFails, TypeOK
  <2>4. Len(<<>>) = 0 /\ <<>> \in Seq(Rec)
      OBVIOUS
  <2>5. TypeOK'
    <3>1. \A v \in Workers : batch'[v] = (IF v = w THEN <<>> ELSE batch[v])
                             /\ worker'[v] = (IF v = w THEN "select" ELSE worker[v])
        BY <1>0, <2>1 DEF TypeOK, Phases
    <3>2. \A v \in Workers :
             /\ Len(batch'[v]) <= BatchSize
             /\ worker'[v] = "select" => Len(batch'[v]) < BatchSize
             /\ worker'[v] \in {"off", "stopped"} => batch'[v] = <<>>
        BY SMTT(30), <1>0, <2>4, <3>1 DEF TypeOK
    <3>3. worker' \in [Workers -> {"off", "select", "insert", "aggregate", "count", "stopped"}]
        BY <1>0, <2>1 DEF TypeOK
    <3>4. errors' \in Nat /\ faults' \in 0 .. MaxFaults /\ crashes' \in 0 .. MaxCrashes
        BY <1>0, <1>b, <2>1 DEF TypeOK
    <3> QED BY <1>0, <2>2, <2>3, <3>2, <3>3, <3>4 DEF TypeOK, reading, tables
  <2>6. Phases'
      BY <1>0, <2>1, <2>2, <2>4 DEF TypeOK, Phases, Writing, reading
  <2> QED BY <2>5, <2>6 DEF Typed
<1>13. ASSUME NEW w \in Workers, Count(w) PROVE Typed'
  <2>1. nameservers' \in Nat
    <3>1. IsFiniteSet({n \in Seen(batch[w]) : nsCounts[n] = 0})
      <4>1. IsFiniteSet(NameServers) /\ {n \in Seen(batch[w]) : nsCounts[n] = 0} \in SUBSET NameServers
          BY <1>b, IngesterAssumption
      <4> QED BY <4>1, FS_Subset
    <3>2. Cardinality({n \in Seen(batch[w]) : nsCounts[n] = 0}) \in Nat
        BY <3>1, FS_CardinalityType
    <3> QED BY SMTT(30), <1>0, <1>13, <3>2 DEF Count, TypeOK
  <2>2. nsCounts' \in [NameServers -> Nat]
      BY SMTT(30), <1>0, <1>13 DEF Count, TypeOK
  <2>3. /\ worker' = [worker EXCEPT ![w] = "select"] /\ worker[w] = "count"
        /\ batch' = [batch EXCEPT ![w] = <<>>]
        /\ insertions' = insertions + Len(batch[w])
      BY <1>13 DEF Count, Worker
  <2>4. UNCHANGED <<main, reading, agg, errors, flush, tables, stored, bounds>>
      BY <1>13 DEF Count
  <2>5. Len(<<>>) = 0 /\ <<>> \in Seq(Rec)
      OBVIOUS
  <2>6. TypeOK'
    <3>1. \A v \in Workers : batch'[v] = (IF v = w THEN <<>> ELSE batch[v])
                             /\ worker'[v] = (IF v = w THEN "select" ELSE worker[v])
        BY <1>0, <2>3 DEF TypeOK, Phases
    <3>2. \A v \in Workers :
             /\ Len(batch'[v]) <= BatchSize
             /\ worker'[v] = "select" => Len(batch'[v]) < BatchSize
             /\ worker'[v] \in {"off", "stopped"} => batch'[v] = <<>>
        BY SMTT(30), <1>0, <2>5, <3>1 DEF TypeOK
    <3>3. worker' \in [Workers -> {"off", "select", "insert", "aggregate", "count", "stopped"}]
        BY <1>0, <2>3 DEF TypeOK
    <3>4. insertions' \in Nat
        BY <1>0, <1>b, <2>3 DEF TypeOK
    <3> QED BY <1>0, <2>1, <2>2, <2>4, <3>2, <3>3, <3>4 DEF TypeOK, reading, tables, bounds
  <2>7. Phases'
      BY <1>0, <2>3, <2>4, <2>5 DEF TypeOK, Phases, Writing, reading
  <2> QED BY <2>6, <2>7 DEF Typed
<1>14. ASSUME NEW f \in Flushers, FlushProviders(f) \/ FlushNameServers(f) \/ FlushPairs(f) PROVE Typed'
  <2>0. PICK from \in {"due", "ns_stats", "provider_ns"}, to \in {"ns_stats", "provider_ns", "idle"} :
            /\ flush[f] = from /\ flush' = [flush EXCEPT ![f] = to]
            /\ from = "due" => ~Locked
      BY <1>14 DEF FlushProviders, FlushNameServers, FlushPairs, Flush
  <2>1. UNCHANGED <<main, reading, working, agg, stats, stored>>
      BY <1>14 DEF FlushProviders, FlushNameServers, FlushPairs
  <2>2. main # "clear" /\ (main = "ingest" => f # "main")
      BY <1>0, <2>0 DEF Phases
  <2>3. flush' \in [Flushers -> {"idle", "due", "ns_stats", "provider_ns"}]
      BY <1>0, <2>0 DEF TypeOK
  <2>4. TypeOK'
    <3>1. /\ faults' \in 0 .. MaxFaults /\ crashes' \in 0 .. MaxCrashes
          /\ provider_stats' \in [Providers -> Nat]
          /\ ns_stats' \in [NameServers -> Nat] /\ provider_ns' \in [Pairs -> Nat]
        BY <1>0, <1>14, FlushType
    <3> QED BY <1>0, <2>1, <2>3, <3>1 DEF TypeOK, reading, working, stats
  <2>5. Phases'
    <3>1. (main' = "clear" => \A g \in Flushers : flush'[g] = "idle") /\ (main' = "ingest" => flush'["main"] = "idle")
        BY <1>0, <2>0, <2>1, <2>2, <2>3 DEF Phases, TypeOK, Flushers
    <3>2. \A g, h \in Flushers : Writing(g)' /\ Writing(h)' => g = h
      <4>1. \A g \in Flushers \ {f} : flush'[g] = flush[g]
          BY <1>0, <2>0 DEF TypeOK
      <4>2. \A g \in Flushers \ {f} : ~Writing(g)
        <5>1. CASE from = "due"
            BY <2>0, <5>1 DEF Locked, Writing
        <5>2. CASE from # "due"
          <6>1. Writing(f)
              BY <2>0, <5>2 DEF Writing
          <6> QED BY <1>0, <6>1 DEF Phases
        <5> QED BY <5>1, <5>2
      <4> QED BY <4>1, <4>2 DEF Writing
    <3> QED BY <1>0, <2>1, <3>1, <3>2 DEF Phases, reading, working
  <2> QED BY <2>4, <2>5 DEF Typed
<1>15. CASE UNCHANGED vars
    BY <1>0, <1>15 DEF vars, reading, working, stats, tables, bounds, Typed, TypeOK, Phases, Writing
<1> QED BY <1>1, <1>2, <1>3, <1>4, <1>5, <1>6, <1>7, <1>8, <1>9, <1>10, <1>11, <1>12, <1>13,
           <1>14, <1>15 DEF Next, Read, Work, Write3

\* The types of the state and the phases of the run, for every instance:
\* a worker that is stopped holds no records, nor does one before the run.
THEOREM TypesCorrect == Spec => []TypeOK
<1>1. Typed => TypeOK
    BY DEF Typed
<1> QED BY <1>1, TypedInit, TypedStep, PTL DEF Spec

-----------------------------------------------------------------------------
(* RowsAccounted. *)

\* The rows of a nameserver among those read.
Numbered(k, n) == Cardinality({i \in 1 .. k : File[i] = n})

\* The next row counts when it is of the nameserver.
LEMMA NextRow ==
    ASSUME NEW k \in Nat, NEW n
    PROVE  /\ Numbered(k, n) \in Nat /\ Numbered(0, n) = 0
           /\ Numbered(k + 1, n) = Numbered(k, n) + (IF File[k + 1] = n THEN 1 ELSE 0)
<1> DEFINE S == {i \in 1 .. k : File[i] = n}
           T == {i \in 1 .. (k + 1) : File[i] = n}
<1>1. IsFiniteSet(S) /\ Cardinality(S) \in Nat
  <2>1. IsFiniteSet(1 .. k) /\ S \subseteq 1 .. k
      BY FS_Interval
  <2> QED BY <2>1, FS_Subset, FS_CardinalityType
<1>2. {i \in 1 .. 0 : File[i] = n} = {}
    OBVIOUS
<1>3. CASE File[k + 1] = n
  <2>1. T = S \cup {k + 1} /\ k + 1 \notin S
      BY <1>3
  <2>2. Cardinality(S \cup {k + 1}) = Cardinality(S) + 1
    <3> HIDE DEF S
    <3> QED BY <1>1, <2>1, FS_AddElement
  <2> QED BY <1>1, <1>2, <1>3, <2>1, <2>2, FS_EmptySet DEF Numbered
<1>4. CASE File[k + 1] # n
  <2>1. T = S
      BY <1>4
  <2> QED BY <1>1, <1>2, <1>4, <2>1, FS_EmptySet DEF Numbered
<1> QED BY <1>3, <1>4

\* The rows skipped change with the row read next only.
LEMMA SkippedNext ==
    ASSUME next \in Nat
    PROVE  /\ Skipped \in Nat
           /\ next = 0 => Skipped = 0
           /\ next' = next => Skipped' = Skipped
           /\ next' = 0 => Skipped' = 0
           /\ next' = next + 1 =>
                 Skipped' = Skipped + (IF File[next + 1] = Blank THEN 1 ELSE 0)
<1>1. \A k \in Nat : /\ Numbered(k, Blank) \in Nat /\ Numbered(0, Blank) = 0
                     /\ Numbered(k + 1, Blank)
                           = Numbered(k, Blank) + (IF File[k + 1] = Blank THEN 1 ELSE 0)
    BY NextRow
<1>2. Skipped = Numbered(next, Blank) /\ Skipped' = Numbered(next', Blank)
    BY DEF Skipped, Numbered
<1> QED BY <1>1, <1>2

\* What the batches of the workers in the labels S hold, worker by worker.
Lengths(label, b, S) == [w \in Workers |-> IF label[w] \in S THEN Len(b[w]) ELSE 0]
Held(S) == Lengths(worker, batch, S)

Carried == {"select", "insert", "aggregate", "count"}

\* The lengths of the batches are a sum of numbers.
LEMMA HeldType ==
    ASSUME Typed, NEW S
    PROVE  /\ \A w \in Workers : Len(batch[w]) \in Nat /\ Held(S)[w] \in Nat
           /\ InBatches(S) = SumOf(Held(S), Workers) /\ InBatches(S) \in Nat
<1>1. \A w \in Workers : Len(batch[w]) \in Nat /\ Held(S)[w] \in Nat
    BY LenProperties DEF Typed, Phases, Held, Lengths
<1>2. InBatches(S) = SumFunction(Held(S)) /\ DOMAIN Held(S) = Workers
    BY DEF InBatches, Held, Lengths
<1>3. InBatches(S) = SumOf(Held(S), Workers)
    BY <1>2, Zenon DEF SumFunction, SumOf
<1>4. SumOf(Held(S), Workers) \in Nat
    BY <1>1, SumType, IngesterAssumption
<1> QED BY <1>1, <1>3, <1>4

\* When one worker changes, the records in batches change by its own.
LEMMA HeldChange ==
    ASSUME Typed, Typed', NEW S, NEW w \in Workers,
           \A v \in Workers \ {w} : worker'[v] = worker[v] /\ batch'[v] = batch[v]
    PROVE  InBatches(S)' = InBatches(S) - Held(S)[w] + Held(S)'[w]
<1>1. /\ InBatches(S) = SumOf(Held(S), Workers)
      /\ \A v \in Workers : Held(S)[v] \in Nat
    BY HeldType
<1>2. /\ InBatches(S)' = SumOf(Held(S)', Workers)
      /\ \A v \in Workers : Held(S)'[v] \in Nat
  <2>1. \A v \in Workers : Len(batch'[v]) \in Nat /\ Held(S)'[v] \in Nat
      BY LenProperties DEF Typed, Phases, Held, Lengths
  <2>2. InBatches(S)' = SumFunction(Held(S)') /\ DOMAIN Held(S)' = Workers
      BY DEF InBatches, Held, Lengths
  <2>3. InBatches(S)' = SumOf(Held(S)', Workers)
      BY <2>2, Zenon DEF SumFunction, SumOf
  <2> QED BY <2>1, <2>3
<1>3. \A v \in Workers \ {w} : Held(S)[v] = Held(S)'[v]
    BY DEF Held, Lengths
<1>4. SumOf(Held(S)', Workers) = SumOf(Held(S), Workers) - Held(S)[w] + Held(S)'[w]
  <2> DEFINE f == Held(S)
             g == Held(S)'
  <2>1. /\ \A v \in Workers : f[v] \in Int /\ g[v] \in Int
        /\ \A v \in Workers \ {w} : f[v] = g[v]
      BY <1>1, <1>2, <1>3
  <2>2. IsFiniteSet(Workers)
      BY IngesterAssumption
  <2> HIDE DEF f, g
  <2>3. SumOf(g, Workers) = SumOf(f, Workers) - f[w] + g[w]
      BY <2>1, <2>2, SumChange
  <2> QED BY <2>3 DEF f, g
<1>5. InBatches(S)' = SumOf(Held(S)', Workers) /\ InBatches(S) = SumOf(Held(S), Workers)
    BY <1>1, <1>2
<1> QED BY <1>4, <1>5, Zenon

\* When no worker changes, neither does what the batches hold.
LEMMA HeldSame ==
    ASSUME NEW S, worker' = worker, batch' = batch
    PROVE  InBatches(S)' = InBatches(S)
BY DEF InBatches

\* Without records there is nothing in the batches.
LEMMA HeldNone ==
    ASSUME NEW label, NEW b, NEW S, \A w \in Workers : label[w] \in S => b[w] = <<>>
    PROVE  SumFunction(Lengths(label, b, S)) = 0
<1> DEFINE f == Lengths(label, b, S)
<1>1. \A w \in Workers : f[w] = 0
    BY LenProperties DEF Lengths
<1>2. DOMAIN f = Workers /\ IsFiniteSet(Workers)
    BY IngesterAssumption DEF Lengths
<1> HIDE DEF f
<1>3. SumOf(f, Workers) = 0
    BY <1>1, <1>2, SumZero
<1>4. SumFunction(f) = 0
    BY <1>2, <1>3, Zenon DEF SumFunction, SumOf
<1> QED BY <1>4 DEF f

\* What the batches hold, as a function of the labels and batches.
LEMMA HeldSum ==
    ASSUME NEW S
    PROVE  /\ InBatches(S)  = SumFunction(Lengths(worker, batch, S))
           /\ InBatches(S)' = SumFunction(Lengths(worker', batch', S))
BY DEF InBatches, Lengths

\* What the actions of a worker leave to the others.
LEMMA OneWorker ==
    ASSUME Typed, NEW w \in Workers, Work(w)
    PROVE  /\ \A v \in Workers \ {w} : worker'[v] = worker[v] /\ batch'[v] = batch[v]
           /\ UNCHANGED <<main, next, flush, tables>>
           /\ worker[w] \notin {"off", "stopped"} /\ main \in {"ingest"}
<1>0. worker \in [Workers -> {"off", "select", "insert", "aggregate", "count", "stopped"}]
      /\ batch \in [Workers -> Seq(Rec)]
    BY DEF Typed, TypeOK, Phases
<1>1. /\ \E to : worker' = [worker EXCEPT ![w] = to]
      /\ worker[w] \in Carried
      /\ batch' = batch \/ \E b : batch' = [batch EXCEPT ![w] = b]
      /\ UNCHANGED <<main, next, flush, tables>>
    BY DEF Work, Receive, FlushTick, Stop, Insert, InsertFails, Aggregate, Count, Worker, Carried, reading
<1>2. \A v \in Workers \ {w} : worker'[v] = worker[v] /\ batch'[v] = batch[v]
    BY <1>0, <1>1
<1>3. main \in {"clear", "ingest", "flush", "done"} /\ worker[w] \notin {"off", "stopped"}
    BY <1>1 DEF Typed, TypeOK, Carried
<1>4. main \notin {"clear", "flush", "done"}
    BY <1>3 DEF Typed, Phases
<1> QED BY <1>1, <1>2, <1>3, <1>4

\* The nameservers counted are those with a count.
NamesCounted == nameservers = Cardinality({n \in NameServers : nsCounts[n] > 0})

\* Nothing is counted at first.
LEMMA NamesCountedInit == Init => NamesCounted
<1> SUFFICES ASSUME Init PROVE NamesCounted
    OBVIOUS
<1>1. {n \in NameServers : nsCounts[n] > 0} = {}
    BY DEF Init
<1> QED BY <1>1, FS_EmptySet DEF Init, NamesCounted

\* Only Count counts, and a nameserver the first time only.
LEMMA NamesCountedStep ==
    ASSUME Typed, NamesCounted, [Next]_vars
    PROVE  NamesCounted'
<1>1. CASE UNCHANGED <<nsCounts, nameservers>>
    BY <1>1 DEF NamesCounted
<1>2. ASSUME NEW w \in Workers, Count(w) PROVE NamesCounted'
  <2> DEFINE Old == {n \in NameServers : nsCounts[n] > 0}
             New == {n \in Seen(batch[w]) : nsCounts[n] = 0}
  <2>1. /\ nameservers' = nameservers + Cardinality(New)
        /\ nsCounts' = [n \in NameServers |-> IF n \in Seen(batch[w]) THEN nsCounts[n] + 1 ELSE nsCounts[n]]
      BY <1>2 DEF Count
  <2>2. Seen(batch[w]) \subseteq NameServers /\ \A n \in NameServers : nsCounts[n] \in Nat
      BY BatchCounts DEF Typed, TypeOK, Phases
  <2>3. {n \in NameServers : nsCounts'[n] > 0} = Old \cup New
      BY <2>1, <2>2
  <2>4. IsFiniteSet(Old) /\ IsFiniteSet(New) /\ Old \cap New = {}
    <3>1. IsFiniteSet(NameServers) /\ Old \subseteq NameServers /\ New \subseteq NameServers
        BY <2>2, IngesterAssumption
    <3>2. Old \cap New = {}
        BY <2>2
    <3> QED BY <3>1, <3>2, FS_Subset
  <2>5. Cardinality(Old \cup New) = Cardinality(Old) + Cardinality(New)
    <3> HIDE DEF Old, New
    <3>1. /\ Cardinality(Old \cup New) = Cardinality(Old) + Cardinality(New) - Cardinality(Old \cap New)
          /\ Cardinality(Old) \in Nat /\ Cardinality(New) \in Nat
        BY <2>4, FS_Union, FS_CardinalityType
    <3>2. Cardinality(Old \cap New) = 0
        BY <2>4, FS_EmptySet
    <3> QED BY <3>1, <3>2
  <2> QED BY <2>1, <2>3, <2>5 DEF NamesCounted
<1>3. CASE Crash
  <2>1. nsCounts' = [n \in NameServers |-> 0] /\ nameservers' = 0
      BY <1>3 DEF Crash
  <2>2. {n \in NameServers : nsCounts'[n] > 0} = {}
      BY <2>1
  <2> QED BY <2>1, <2>2, FS_EmptySet DEF NamesCounted
<1>4. ASSUME NEW w \in Workers, Work(w), ~Count(w) PROVE UNCHANGED <<nsCounts, nameservers>>
    BY <1>4 DEF Work, Receive, FlushTick, Stop, Insert, InsertFails, Aggregate, stats
<1>5. CASE Clear \/ ClearFails \/ WorkersDone \/ Finish \/ Read \/ Tick \/ \E f \in Flushers : Write3(f)
    BY <1>5, <1>1 DEF Clear, ClearFails, WorkersDone, Finish, Read, Send, ReadFails, Skip, Tick, Write3,
       FlushProviders, FlushNameServers, FlushPairs, stats
<1>6. CASE UNCHANGED vars
    BY <1>6, <1>1 DEF vars, stats
<1> QED BY <1>1, <1>2, <1>3, <1>4, <1>5, <1>6 DEF Next

\* The rows read are inserted, errors, or on their way.
RowsBalanced == next = insertions + errors + Skipped + Len(recordCh) + InBatches(Carried)

\* Nothing is read at first.
LEMMA RowsBalancedInit == Init => RowsBalanced
<1> SUFFICES ASSUME Init PROVE RowsBalanced
    OBVIOUS
<1>1. next = 0 /\ insertions = 0 /\ errors = 0 /\ Len(recordCh) = 0
      /\ \A w \in Workers : batch[w] = <<>>
    BY DEF Init
<1>2. SumFunction(Lengths(worker, batch, Carried)) = 0
    BY <1>1, HeldNone
<1>3. InBatches(Carried) = 0
    BY <1>2, HeldSum
<1>4. Skipped = 0
    BY <1>1, SkippedNext
<1> QED BY <1>1, <1>3, <1>4 DEF RowsBalanced

\* A worker's step moves records from the channel to its batch and from there
\* to the numbers of stats.
LEMMA RowsMove ==
    ASSUME Typed, Typed', RowsBalanced, NEW w \in Workers, Work(w)
    PROVE  RowsBalanced'
<1>i. InBatches(Carried) \in Nat
    BY HeldType
<1>t. TypeOK /\ Phases
    BY DEF Typed
<1>0. /\ next \in Nat /\ insertions \in Nat /\ errors \in Nat /\ Len(recordCh) \in Nat
      /\ InBatches(Carried) \in Nat /\ batch \in [Workers -> Seq(Rec)] /\ Len(batch[w]) \in Nat
      /\ worker \in [Workers -> {"off", "select", "insert", "aggregate", "count", "stopped"}]
      /\ recordCh \in Seq(Rec) /\ batch[w] \in Seq(Rec)
    BY <1>i, <1>t, LenProperties DEF TypeOK, Phases
<1>1. /\ InBatches(Carried)' = InBatches(Carried) - Held(Carried)[w] + Held(Carried)'[w]
      /\ Held(Carried)[w] = (IF worker[w] \in Carried THEN Len(batch[w]) ELSE 0)
      /\ Held(Carried)'[w] = (IF worker'[w] \in Carried THEN Len(batch'[w]) ELSE 0)
      /\ next' = next /\ Skipped' = Skipped /\ Skipped \in Nat
    BY <1>0, OneWorker, HeldChange, SkippedNext DEF Held, Lengths
<1>2. CASE Receive(w)
  <2>1. /\ worker[w] \in Carried /\ worker'[w] \in Carried
        /\ batch'[w] = Append(batch[w], Head(recordCh)) /\ recordCh' = Tail(recordCh)
        /\ recordCh # <<>> /\ insertions' = insertions /\ errors' = errors
      BY <1>0, <1>2 DEF Receive, Worker, Carried, stats
  <2>2. Len(batch'[w]) = Len(batch[w]) + 1 /\ Len(recordCh') = Len(recordCh) - 1
      BY <1>0, <2>1, HeadTailProperties, AppendProperties
  <2> QED BY <1>0, <1>1, <2>1, <2>2 DEF RowsBalanced
<1>3. CASE FlushTick(w) \/ Insert(w) \/ Aggregate(w)
  <2>1. /\ worker[w] \in Carried /\ worker'[w] \in Carried
        /\ batch' = batch /\ recordCh' = recordCh /\ insertions' = insertions /\ errors' = errors
      BY <1>0, <1>3 DEF FlushTick, Insert, Aggregate, Worker, Carried, stats, reading
  <2> QED BY <1>0, <1>1, <2>1 DEF RowsBalanced
<1>4. CASE Stop(w)
  <2>1. /\ worker[w] \in Carried /\ worker'[w] \notin Carried
        /\ batch[w] = <<>> /\ recordCh' = recordCh /\ insertions' = insertions /\ errors' = errors
      BY <1>0, <1>4 DEF Stop, Worker, Carried, stats, reading
  <2>2. Len(batch[w]) = 0
      BY <2>1
  <2> QED BY <1>0, <1>1, <2>1, <2>2 DEF RowsBalanced
<1>5. CASE InsertFails(w) \/ Count(w)
  <2>1. /\ worker[w] \in Carried /\ worker'[w] \in Carried /\ batch'[w] = <<>> /\ recordCh' = recordCh
        /\ \/ errors' = errors + Len(batch[w]) /\ insertions' = insertions
           \/ insertions' = insertions + Len(batch[w]) /\ errors' = errors
      BY <1>0, <1>5 DEF InsertFails, Count, Worker, Carried, reading
  <2>2. Len(batch'[w]) = 0
      BY <2>1
  <2> QED BY SMTT(30), <1>0, <1>1, <2>1, <2>2 DEF RowsBalanced
<1> QED BY <1>2, <1>3, <1>4, <1>5 DEF Work

\* Every step keeps the balance of the rows read.
LEMMA RowsBalancedStep ==
    ASSUME Typed, Typed', RowsBalanced, [Next]_vars
    PROVE  RowsBalanced'
<1>i. InBatches(Carried) \in Nat
    BY HeldType
<1>t. TypeOK /\ Phases
    BY DEF Typed
<1>0. /\ next \in Nat /\ insertions \in Nat /\ errors \in Nat /\ Len(recordCh) \in Nat
      /\ InBatches(Carried) \in Nat /\ recordCh \in Seq(Rec) /\ Skipped \in Nat
    BY <1>i, <1>t, LenProperties, SkippedNext DEF TypeOK, Phases
<1>1. CASE UNCHANGED <<next, recordCh, worker, batch, insertions, errors>>
    BY <1>0, <1>1, HeldSame, SkippedNext DEF RowsBalanced
<1>2. CASE Clear \/ ClearFails
  <2>1. /\ UNCHANGED <<next, recordCh, batch, insertions, errors>> /\ main = "clear"
      BY <1>2 DEF Clear, ClearFails, reading, stats
  <2>2. \A w \in Workers : batch[w] = <<>>
      BY <2>1 DEF Typed, TypeOK, Phases
  <2>3. InBatches(Carried) = 0
    <3>1. SumFunction(Lengths(worker, batch, Carried)) = 0
        BY <2>2, HeldNone
    <3> QED BY <3>1, HeldSum
  <2>4. InBatches(Carried)' = 0
    <3>1. SumFunction(Lengths(worker', batch', Carried)) = 0
        BY <2>1, <2>2, HeldNone
    <3> QED BY <3>1, HeldSum
  <2> QED BY <1>0, <2>1, <2>3, <2>4, SkippedNext DEF RowsBalanced
<1>3. CASE Crash
  <2>1. /\ next' = 0 /\ recordCh' = <<>> /\ insertions' = 0 /\ errors' = 0
        /\ \A w \in Workers : batch'[w] = <<>>
      BY <1>3 DEF Crash
  <2>2. InBatches(Carried)' = 0
    <3>1. SumFunction(Lengths(worker', batch', Carried)) = 0
        BY <2>1, HeldNone
    <3> QED BY <3>1, HeldSum
  <2>3. Skipped' = 0
      BY <1>0, <2>1, SkippedNext
  <2> QED BY <2>1, <2>2, <2>3 DEF RowsBalanced
<1>4. CASE Send
  <2>1. PICK r : recordCh' = Append(recordCh, r)
      BY <1>4 DEF Send
  <2>2. next' = next + 1 /\ UNCHANGED <<worker, batch, insertions, errors>>
      BY <1>4 DEF Send, working, stats
  <2>3. Len(recordCh') = Len(recordCh) + 1
      BY <1>0, <2>1
  <2>4. InBatches(Carried)' = InBatches(Carried)
      BY <2>2, HeldSame
  <2>5. Skipped' = Skipped
    <3>1. File[next + 1] # Blank
        BY <1>4, IngesterAssumption DEF Send
    <3> QED BY <1>0, <2>2, <3>1, SkippedNext
  <2> QED BY <1>0, <2>2, <2>3, <2>4, <2>5 DEF RowsBalanced
<1>5. CASE ReadFails
  <2>1. /\ next' = next + 1 /\ errors' = errors + 1 /\ File[next + 1] # Blank
        /\ UNCHANGED <<recordCh, worker, batch, insertions>>
      BY <1>5, IngesterAssumption DEF ReadFails, working
  <2>2. InBatches(Carried)' = InBatches(Carried)
      BY <2>1, HeldSame
  <2>3. Skipped' = Skipped
      BY <1>0, <2>1, SkippedNext
  <2> QED BY <1>0, <2>1, <2>2, <2>3 DEF RowsBalanced
<1>8. CASE Skip
  <2>1. /\ next' = next + 1 /\ File[next + 1] = Blank
        /\ UNCHANGED <<recordCh, worker, batch, insertions, errors>>
      BY <1>8 DEF Skip, working, stats
  <2>2. InBatches(Carried)' = InBatches(Carried)
      BY <2>1, HeldSame
  <2>3. Skipped' = Skipped + 1
      BY <1>0, <2>1, SkippedNext
  <2> QED BY <1>0, <2>1, <2>2, <2>3 DEF RowsBalanced
<1>6. CASE WorkersDone \/ Finish \/ Tick \/ \E f \in Flushers : Write3(f)
    BY <1>6, <1>1 DEF WorkersDone, Finish, Tick, Write3, FlushProviders, FlushNameServers, FlushPairs,
       reading, working, stats
<1>7. CASE UNCHANGED vars
    BY <1>7, <1>1 DEF vars, reading, working, stats
<1> QED BY <1>2, <1>3, <1>4, <1>5, <1>6, <1>7, <1>8, RowsMove DEF Next, Read

\* Every record of the file that was read is inserted, an error or on its way,
\* the rows with nothing to insert are the only ones not counted, and the nameservers counted are those seen, whatever failed or was killed.
THEOREM RowsAccountedCorrect == Spec => []RowsAccounted
<1> DEFINE I == Typed /\ NamesCounted /\ RowsBalanced
<1>1. Init => I
    BY TypedInit, NamesCountedInit, RowsBalancedInit
<1>2. I /\ [Next]_vars => I'
    BY TypedStep, NamesCountedStep, RowsBalancedStep
<1>3. I => RowsAccounted
    BY DEF Typed, NamesCounted, RowsBalanced, RowsAccounted, Carried
<1> QED BY <1>1, <1>2, <1>3, PTL DEF Spec

-----------------------------------------------------------------------------
(* AggregatesAccounted. *)

\* Aggregating a batch adds to each nameserver its records in the batch.
LEMMA AggregatedOfNS ==
    ASSUME agg \in [Pairs -> Nat], NEW b \in Seq(Rec), NEW n \in NameServers
    PROVE  /\ CountIn(b, Of(n)) \in Nat /\ OfNS(agg, n) \in Nat
           /\ OfNS(Aggregated(b), n) = OfNS(agg, n) + CountIn(b, Of(n))
<1> DEFINE old == [p \in Providers |-> agg[<<p, n>>]]
           occ == [p \in Providers |-> Occurrences(b, p, n)]
           new == [p \in Providers |-> Aggregated(b)[<<p, n>>]]
           I == {i \in DOMAIN b : b[i].ns = n}
           key == [i \in I |-> b[i].provider]
           perProvider == [p \in Providers |-> Cardinality({i \in I : key[i] = p})]
<1>0. IsFiniteSet(Providers) /\ agg \in [Pairs -> Nat] /\ Aggregated(b) \in [Pairs -> Nat]
      /\ \A p \in Providers : Occurrences(b, p, n) \in Nat
  <2>1. \A k \in Pairs : Occurrences(b, k[1], k[2]) \in Nat
      BY BatchCounts DEF Pairs
  <2> QED BY <2>1, BatchCounts, IngesterAssumption DEF Aggregated
<1>1. \A p \in Providers : old[p] \in Int /\ occ[p] \in Int /\ new[p] = old[p] + occ[p]
    BY <1>0 DEF Pairs, Aggregated
<1>2. OfNS(agg, n) = SumOf(old, Providers) /\ OfNS(Aggregated(b), n) = SumOf(new, Providers)
      /\ OfNS(agg, n) \in Nat
    BY <1>0, Totals
<1>3. SumOf(new, Providers) = SumOf(old, Providers) + SumOf(occ, Providers)
  <2> HIDE DEF old, occ, new
  <2> QED BY <1>0, <1>1, SumPlus
<1>4. SumOf(perProvider, Providers) = Cardinality(I)
  <2>1. IsFiniteSet(I)
    <3>1. IsFiniteSet(DOMAIN b) /\ I \subseteq DOMAIN b
        BY BatchCounts
    <3> QED BY <3>1, FS_Subset
  <2>2. \A i \in I : key[i] \in Providers
      BY BatchCounts DEF Rec
  <2> HIDE DEF I, key
  <2> QED BY <1>0, <2>1, <2>2, SumOfCounts
<1>5. occ = perProvider
  <2>1. ASSUME NEW p \in Providers PROVE occ[p] = perProvider[p]
    <3>1. {i \in I : key[i] = p} = {i \in DOMAIN b : b[i].provider = p /\ b[i].ns = n}
        OBVIOUS
    <3> QED BY <3>1 DEF Occurrences
  <2> QED BY <2>1
<1>6. Cardinality(I) = CountIn(b, Of(n)) /\ CountIn(b, Of(n)) \in Nat
  <2>1. I = {i \in DOMAIN b : b[i] \in Of(n)}
      BY BatchCounts DEF Of
  <2> QED BY <2>1, CountType DEF CountIn
<1> QED BY <1>2, <1>3, <1>4, <1>5, <1>6

\* The records of a batch are those of the nameservers.
LEMMA CountOfAll ==
    ASSUME NEW b \in Seq(Rec)
    PROVE  SumOf([n \in NameServers |-> CountIn(b, Of(n))], NameServers) = Len(b)
<1> DEFINE I == DOMAIN b
           key == [i \in I |-> b[i].ns]
           perNS == [n \in NameServers |-> Cardinality({i \in I : key[i] = n})]
<1>1. IsFiniteSet(NameServers) /\ IsFiniteSet(I) /\ \A i \in I : key[i] \in NameServers
    BY BatchCounts, IngesterAssumption DEF Rec
<1>2. SumOf(perNS, NameServers) = Cardinality(I)
  <2> HIDE DEF I, key
  <2> QED BY <1>1, SumOfCounts
<1>3. Cardinality(I) = Len(b)
  <2>1. I = 1 .. Len(b) /\ Len(b) \in Nat
      BY LenProperties
  <2> QED BY <2>1, OneTo
<1>4. perNS = [n \in NameServers |-> CountIn(b, Of(n))]
  <2>1. ASSUME NEW n \in NameServers PROVE perNS[n] = CountIn(b, Of(n))
    <3>1. {i \in I : key[i] = n} = {i \in DOMAIN b : b[i] \in Of(n)}
        BY BatchCounts DEF Of
    <3> QED BY <3>1 DEF CountIn
  <2> QED BY <2>1
<1> QED BY <1>2, <1>3, <1>4

\* The total of counts.
Total(c) == SumFunction([n \in NameServers |-> OfNS(c, n)])

\* The total is a sum over the nameservers.
LEMMA TotalIsSum ==
    ASSUME NEW c
    PROVE  Total(c) = SumOf([n \in NameServers |-> OfNS(c, n)], NameServers)
<1> DEFINE f == [n \in NameServers |-> OfNS(c, n)]
<1>1. Total(c) = SumFunction(f) /\ DOMAIN f = NameServers
    BY DEF Total
<1> HIDE DEF f
<1>2. Total(c) = SumOf(f, NameServers)
    BY <1>1, Zenon DEF SumFunction, SumOf
<1> QED BY <1>2 DEF f

\* Aggregating a batch adds all its records to the total.
LEMMA AggregatedTotal ==
    ASSUME agg \in [Pairs -> Nat], NEW b \in Seq(Rec)
    PROVE  Total(agg) \in Nat /\ Total(Aggregated(b)) = Total(agg) + Len(b)
<1> DEFINE old == [n \in NameServers |-> OfNS(agg, n)]
           cnt == [n \in NameServers |-> CountIn(b, Of(n))]
           new == [n \in NameServers |-> OfNS(Aggregated(b), n)]
<1>0. IsFiniteSet(NameServers)
    BY IngesterAssumption
<1>1. \A n \in NameServers : old[n] \in Nat /\ cnt[n] \in Nat /\ new[n] = old[n] + cnt[n]
    BY AggregatedOfNS
<1>2. Total(agg) = SumOf(old, NameServers) /\ Total(Aggregated(b)) = SumOf(new, NameServers)
    BY TotalIsSum
<1>3. SumOf(cnt, NameServers) = Len(b)
    BY CountOfAll
<1> HIDE DEF old, cnt, new
<1>4. \A n \in NameServers : old[n] \in Int /\ cnt[n] \in Int /\ new[n] = old[n] + cnt[n]
    BY <1>1
<1>5. SumOf(new, NameServers) = SumOf(old, NameServers) + SumOf(cnt, NameServers)
    BY <1>0, <1>4, SumPlus
<1>6. SumOf(old, NameServers) \in Nat
    BY <1>0, <1>1, SumType
<1> QED BY <1>2, <1>3, <1>5, <1>6

\* Nothing aggregated has a total of zero.
LEMMA NothingAggregated ==
    ASSUME NEW c, c = [k \in Pairs |-> 0]
    PROVE  /\ \A p \in Providers : OfProvider(c, p) = 0
           /\ \A n \in NameServers : OfNS(c, n) = 0
           /\ Total(c) = 0
<1>0. c \in [Pairs -> Nat] /\ IsFiniteSet(NameServers) /\ IsFiniteSet(Providers)
    BY IngesterAssumption
<1>1. ASSUME NEW p \in Providers PROVE OfProvider(c, p) = 0
  <2> DEFINE f == [n \in NameServers |-> c[<<p, n>>]]
  <2>1. OfProvider(c, p) = SumOf(f, NameServers) /\ \A n \in NameServers : f[n] = 0
      BY <1>0, Totals DEF Pairs
  <2> HIDE DEF f
  <2> QED BY <1>0, <2>1, SumZero
<1>2. ASSUME NEW n \in NameServers PROVE OfNS(c, n) = 0
  <2> DEFINE f == [p \in Providers |-> c[<<p, n>>]]
  <2>1. OfNS(c, n) = SumOf(f, Providers) /\ \A p \in Providers : f[p] = 0
      BY <1>0, Totals DEF Pairs
  <2> HIDE DEF f
  <2> QED BY <1>0, <2>1, SumZero
<1>3. Total(c) = 0
  <2> DEFINE f == [n \in NameServers |-> OfNS(c, n)]
  <2>1. Total(c) = SumOf(f, NameServers) /\ \A n \in NameServers : f[n] = 0
      BY <1>2, TotalIsSum
  <2> HIDE DEF f
  <2> QED BY <1>0, <2>1, SumZero
<1> QED BY <1>1, <1>2, <1>3

\* Nothing is aggregated at first.
LEMMA AggregatesInit == Init => AggregatesAccounted
<1> SUFFICES ASSUME Init PROVE AggregatesAccounted
    OBVIOUS
<1>1. agg = [k \in Pairs |-> 0] /\ insertions = 0 /\ \A w \in Workers : batch[w] = <<>>
    BY DEF Init
<1>2. SumFunction(Lengths(worker, batch, {"count"})) = 0
    BY <1>1, HeldNone
<1>3. Total(agg) = 0
    BY <1>1, NothingAggregated
<1> QED BY <1>1, <1>2, <1>3, HeldSum DEF AggregatesAccounted, Total

\* A worker's step keeps the aggregates those of the records inserted.
LEMMA AggregatesMove ==
    ASSUME Typed, Typed', AggregatesAccounted, NEW w \in Workers, Work(w)
    PROVE  AggregatesAccounted'
<1>t. TypeOK /\ Phases
    BY DEF Typed
<1>0. /\ insertions \in Nat /\ agg \in [Pairs -> Nat] /\ batch[w] \in Seq(Rec) /\ Len(batch[w]) \in Nat
      /\ worker \in [Workers -> {"off", "select", "insert", "aggregate", "count", "stopped"}]
      /\ batch \in [Workers -> Seq(Rec)]
    BY <1>t, LenProperties DEF TypeOK, Phases
<1>1. /\ InBatches({"count"})' = InBatches({"count"}) - Held({"count"})[w] + Held({"count"})'[w]
      /\ Held({"count"})[w] = (IF worker[w] = "count" THEN Len(batch[w]) ELSE 0)
      /\ Held({"count"})'[w] = (IF worker'[w] = "count" THEN Len(batch'[w]) ELSE 0)
    BY OneWorker, HeldChange DEF Held, Lengths
<1>2. InBatches({"count"}) \in Nat
    BY HeldType
<1>3. Total(agg) = insertions + InBatches({"count"}) /\ Total(agg) \in Nat
    BY <1>0, AggregatedTotal DEF AggregatesAccounted, Total
<1>g. AggregatesAccounted' <=> Total(agg)' = insertions' + InBatches({"count"})'
    BY DEF AggregatesAccounted, Total
<1>4. CASE Aggregate(w)
  <2>1. /\ worker[w] = "aggregate" /\ worker'[w] = "count" /\ batch' = batch
        /\ insertions' = insertions /\ agg' = Aggregated(batch[w])
      BY <1>0, <1>4 DEF Aggregate, Worker, stats
  <2>2. Total(agg') = Total(agg) + Len(batch[w])
      BY <1>0, <2>1, AggregatedTotal
  <2>3. Total(agg)' = Total(agg')
      BY DEF Total
  <2> QED BY <1>0, <1>1, <1>2, <1>3, <1>g, <2>1, <2>2, <2>3
<1>5. CASE Count(w)
  <2>1. /\ worker[w] = "count" /\ worker'[w] = "select"
        /\ insertions' = insertions + Len(batch[w]) /\ agg' = agg
      BY <1>0, <1>5 DEF Count, Worker
  <2>2. Total(agg)' = Total(agg)
      BY <2>1 DEF Total
  <2>3. InBatches({"count"})' = InBatches({"count"}) - Len(batch[w]) + 0
      BY <1>1, <2>1
  <2> QED BY <1>0, <1>2, <1>3, <1>g, <2>1, <2>2, <2>3
<1>6. CASE Receive(w) \/ FlushTick(w) \/ Stop(w) \/ Insert(w) \/ InsertFails(w)
  <2>1. /\ worker[w] # "count" /\ worker'[w] # "count"
        /\ insertions' = insertions /\ agg' = agg
      BY <1>0, <1>6 DEF Receive, FlushTick, Stop, Insert, InsertFails, Worker, stats
  <2>2. Total(agg)' = Total(agg)
      BY <2>1 DEF Total
  <2> QED BY <1>0, <1>1, <1>2, <1>3, <1>g, <2>1, <2>2
<1> QED BY <1>4, <1>5, <1>6 DEF Work

\* Every step keeps the aggregates those of the records inserted.
LEMMA AggregatesStep ==
    ASSUME Typed, Typed', AggregatesAccounted, [Next]_vars
    PROVE  AggregatesAccounted'
<1>1. CASE UNCHANGED <<agg, worker, batch, insertions>>
    BY <1>1, HeldSame DEF AggregatesAccounted
<1>2. CASE Clear \/ ClearFails
  <2>1. /\ UNCHANGED <<agg, batch, insertions>> /\ main = "clear"
      BY <1>2 DEF Clear, ClearFails, stats
  <2>2. \A w \in Workers : batch[w] = <<>>
      BY <2>1 DEF Typed, TypeOK, Phases
  <2>3. SumFunction(Lengths(worker, batch, {"count"})) = 0
      BY <2>2, HeldNone
  <2>4. SumFunction(Lengths(worker', batch', {"count"})) = 0
      BY <2>1, <2>2, HeldNone
  <2> QED BY <2>1, <2>3, <2>4, HeldSum DEF AggregatesAccounted
<1>3. CASE Crash
  <2>1. /\ agg' = [k \in Pairs |-> 0] /\ insertions' = 0 /\ \A w \in Workers : batch'[w] = <<>>
      BY <1>3 DEF Crash
  <2>2. SumFunction(Lengths(worker', batch', {"count"})) = 0
      BY <2>1, HeldNone
  <2>3. Total(agg') = 0
      BY <2>1, NothingAggregated
  <2> QED BY <2>1, <2>2, <2>3, HeldSum DEF AggregatesAccounted, Total
<1>4. CASE Read \/ WorkersDone \/ Finish \/ Tick \/ \E f \in Flushers : Write3(f)
    BY <1>4, <1>1 DEF Read, Send, ReadFails, Skip, WorkersDone, Finish, Tick, Write3, FlushProviders, FlushNameServers,
       FlushPairs, working, stats
<1>5. CASE UNCHANGED vars
    BY <1>5, <1>1 DEF vars, working, stats
<1> QED BY <1>2, <1>3, <1>4, <1>5, AggregatesMove DEF Next, Read

\* The aggregates are those of the records inserted, neither more nor fewer,
\* but for the batches just between the two locks.
THEOREM AggregatesAccountedCorrect == Spec => []AggregatesAccounted
<1> DEFINE I == Typed /\ AggregatesAccounted
<1>1. Init => I
    BY TypedInit, AggregatesInit
<1>2. I /\ [Next]_vars => I'
    BY TypedStep, AggregatesStep
<1>3. I => AggregatesAccounted
    OBVIOUS
<1> QED BY <1>1, <1>2, <1>3, PTL DEF Spec

-----------------------------------------------------------------------------
(* TablesAgree. *)

\* Before the run the tables need not follow.
LEMMA TablesFollowInit == Init => TablesFollow
BY DEF Init, TablesFollow

\* Two flushes never write at once: where one writes, no other is.
LEMMA OneWrites ==
    ASSUME Typed, NEW f \in Flushers, NEW to \in {"idle", "due", "ns_stats", "provider_ns"},
           flush' = [flush EXCEPT ![f] = to], Writing(f) \/ ~Locked
    PROVE  /\ Locked' <=> to \in {"ns_stats", "provider_ns"}
           /\ (\E g \in Flushers : flush'[g] = "provider_ns") <=> to = "provider_ns"
           /\ (\E g \in Flushers : flush[g] = "provider_ns") <=> flush[f] = "provider_ns"
           /\ Locked <=> Writing(f)
<1>0. flush \in [Flushers -> {"idle", "due", "ns_stats", "provider_ns"}]
      /\ \A g, h \in Flushers : Writing(g) /\ Writing(h) => g = h
    BY DEF Typed, TypeOK, Phases
<1>1. flush'[f] = to /\ \A g \in Flushers \ {f} : flush'[g] = flush[g]
    BY <1>0
<1>2. \A g \in Flushers \ {f} : ~Writing(g)
    BY <1>0 DEF Locked, Writing
<1>3. Locked <=> Writing(f)
    BY <1>2 DEF Locked, Writing
<1>4. Locked' <=> to \in {"ns_stats", "provider_ns"}
    BY <1>1, <1>2 DEF Locked, Writing
<1>5. (\E g \in Flushers : flush'[g] = "provider_ns") <=> to = "provider_ns"
    BY <1>1, <1>2 DEF Writing
<1>6. (\E g \in Flushers : flush[g] = "provider_ns") <=> flush[f] = "provider_ns"
    BY <1>2 DEF Writing
<1> QED BY <1>3, <1>4, <1>5, <1>6

\* A table written without a fault: rows of zero keep what they had, which
\* makes no difference when that was zero too.
LEMMA Written ==
    ASSUME NEW S, NEW table \in [S -> Nat], NEW new \in [S -> Nat], \A k \in S : table[k] <= new[k]
    PROVE  [k \in DOMAIN table |-> IF new[k] > 0 THEN new[k] ELSE table[k]] = new
OBVIOUS

\* Every step of a run without a fault lets the tables follow the flush.
LEMMA TablesFollowStep ==
    ASSUME Typed, Typed', TablesFollow, [Next]_vars
    PROVE  TablesFollow'
<1> SUFFICES ASSUME faults' = 0, main' # "clear" PROVE TablesFollow'
    BY DEF TablesFollow
<1>t. TypeOK /\ Phases /\ MaxFaults \in Nat
    BY IngesterAssumption DEF Typed
<1>0. /\ agg \in [Pairs -> Nat] /\ provider_ns \in [Pairs -> Nat] /\ provider_stats \in [Providers -> Nat]
      /\ ns_stats \in [NameServers -> Nat] /\ faults \in Nat
      /\ flush \in [Flushers -> {"idle", "due", "ns_stats", "provider_ns"}]
    BY <1>t DEF TypeOK
<1>n. ~Fault
    BY <1>0 DEF Fault
<1>1. CASE UNCHANGED <<faults, main, agg, flush, tables>>
    BY <1>1 DEF TablesFollow, tables, Locked
<1>2. CASE Clear
  <2>1. /\ provider_stats' = [p \in Providers |-> 0] /\ ns_stats' = [n \in NameServers |-> 0]
        /\ provider_ns' = [k \in Pairs |-> 0] /\ agg' = agg /\ flush' = flush
        /\ \A f \in Flushers : flush[f] = "idle"
      BY <1>t, <1>2 DEF Clear, Phases
  <2>2. \A p \in Providers : OfProvider(provider_ns', p) = 0
      BY <2>1, NothingAggregated
  <2>3. \A n \in NameServers : OfNS(provider_ns', n) = 0
      BY <2>1, NothingAggregated
  <2>4. ~Locked' /\ ~\E f \in Flushers : flush'[f] = "provider_ns"
      BY <2>1 DEF Locked
  <2>5. \A k \in Pairs : provider_ns'[k] <= agg'[k]
      BY <1>0, <2>1
  <2>6. \A p \in Providers : provider_stats'[p] = OfProvider(provider_ns', p)
      BY <2>1, <2>2
  <2>7. \A n \in NameServers : ns_stats'[n] = OfNS(provider_ns', n)
      BY <2>1, <2>3
  <2> QED BY <2>4, <2>5, <2>6, <2>7 DEF TablesFollow
<1>3. CASE Crash
    BY <1>3 DEF Crash
<1>4. CASE ClearFails
    BY <1>4, <1>n DEF ClearFails
<1> SUFFICES ASSUME ~Clear, ~Crash, ~ClearFails PROVE TablesFollow'
    BY <1>2, <1>3, <1>4
<1>5. CASE WorkersDone \/ Tick
  <2>1. PICK f \in Flushers : flush' = [flush EXCEPT ![f] = "due"] /\ flush[f] = "idle"
    <3>1. CASE WorkersDone
        BY <1>t, <3>1 DEF WorkersDone, Phases, Flushers
    <3>2. CASE Tick
        BY <3>2 DEF Tick, Flush, Flushers
    <3> QED BY <1>5, <3>1, <3>2
  <2>2. UNCHANGED <<faults, agg, tables>> /\ main = "ingest"
      BY <1>5 DEF WorkersDone, Tick, bounds
  <2>3. \A g \in Flushers : Writing(g)' <=> Writing(g)
      BY <1>0, <2>1 DEF Writing
  <2>4. \A g \in Flushers : flush'[g] = "provider_ns" <=> flush[g] = "provider_ns"
      BY <1>0, <2>1
  <2>5. Locked' <=> Locked
      BY <2>3 DEF Locked, Writing
  <2> QED BY <2>2, <2>4, <2>5 DEF TablesFollow, tables
<1>6. CASE Send \/ ReadFails \/ Skip
    BY <1>6, <1>1 DEF Send, ReadFails, Skip, bounds
<1>7. CASE Finish
  <2>1. UNCHANGED <<faults, agg, flush, tables>> /\ main # "clear"
      BY <1>7 DEF Finish, bounds
  <2> QED BY <2>1 DEF TablesFollow, tables, Locked
<1>8. ASSUME NEW w \in Workers, Work(w) PROVE TablesFollow'
  <2>1. CASE Aggregate(w)
    <3>1. agg' = Aggregated(batch[w]) /\ ~Locked /\ UNCHANGED <<faults, main, flush, tables>>
        BY <2>1 DEF Aggregate, bounds
    <3>2. batch[w] \in Seq(Rec)
        BY <1>t DEF Phases
    <3>3. \A k \in Pairs : agg[k] <= agg'[k] /\ agg'[k] \in Nat
        BY <3>1, <3>2, AggregatedType
    <3>4. ~Locked' /\ ~\E f \in Flushers : flush'[f] = "provider_ns"
        BY <3>1 DEF Locked
    <3>5. \A k \in Pairs : provider_ns'[k] <= agg'[k]
      <4>1. \A k \in Pairs : provider_ns[k] <= agg[k]
          BY <3>1 DEF TablesFollow
      <4> QED BY <1>0, <3>1, <3>3, <4>1 DEF tables
    <3>6. /\ \A p \in Providers : provider_stats'[p] = OfProvider(provider_ns', p)
          /\ \A n \in NameServers : ns_stats'[n] = OfNS(provider_ns', n)
      <4>1. ~\E f \in Flushers : flush[f] = "provider_ns"
          BY <3>1 DEF Locked
      <4> QED BY <3>1, <4>1 DEF TablesFollow, tables
    <3> QED BY <3>4, <3>5, <3>6 DEF TablesFollow
  <2>2. CASE InsertFails(w)
      BY <2>2, <1>n DEF InsertFails
  <2>3. CASE Receive(w) \/ FlushTick(w) \/ Stop(w) \/ Insert(w) \/ Count(w)
      BY <2>3, <1>1 DEF Receive, FlushTick, Stop, Insert, Count, bounds
  <2> QED BY <1>8, <2>1, <2>2, <2>3 DEF Work
<1>9. ASSUME NEW f \in Flushers, FlushProviders(f) PROVE TablesFollow'
  <2> DEFINE new == [p \in Providers |-> OfProvider(agg, p)]
  <2>1. /\ ~Locked /\ flush' = [flush EXCEPT ![f] = "ns_stats"]
        /\ provider_stats' = [k \in DOMAIN provider_stats |-> IF new[k] > 0 THEN new[k] ELSE provider_stats[k]]
        /\ UNCHANGED <<faults, main, agg, ns_stats, provider_ns>>
      BY <1>9, <1>n DEF FlushProviders, Write, Flush, bounds
  <2>2. Locked' /\ ~(\E g \in Flushers : flush'[g] = "provider_ns")
        /\ ~(\E g \in Flushers : flush[g] = "provider_ns")
      BY <2>1, OneWrites DEF Locked
  <2>3. /\ \A k \in Pairs : provider_ns[k] <= agg[k]
        /\ \A p \in Providers : provider_stats[p] = OfProvider(provider_ns, p)
        /\ \A n \in NameServers : ns_stats[n] = OfNS(provider_ns, n)
      BY <2>1, <2>2 DEF TablesFollow
  <2>4. \A p \in Providers : provider_stats[p] <= new[p]
      BY <1>0, <2>3, TotalsMonotonic
  <2>5. new \in [Providers -> Nat]
      BY <1>0, Totals
  <2>6. provider_stats' = new
    <3> HIDE DEF new
    <3> QED BY <1>0, <2>1, <2>4, <2>5, Written
  <2>7. \A p \in Providers : provider_stats'[p] = OfProvider(agg', p)
      BY <2>1, <2>6
  <2>8. \A n \in NameServers : ns_stats'[n] = OfNS(provider_ns', n)
      BY <2>1, <2>3
  <2> QED BY <2>1, <2>2, <2>3, <2>7, <2>8 DEF TablesFollow
<1>10. ASSUME NEW f \in Flushers, FlushNameServers(f) PROVE TablesFollow'
  <2> DEFINE new == [n \in NameServers |-> OfNS(agg, n)]
  <2>1. /\ flush[f] = "ns_stats" /\ flush' = [flush EXCEPT ![f] = "provider_ns"]
        /\ ns_stats' = [k \in DOMAIN ns_stats |-> IF new[k] > 0 THEN new[k] ELSE ns_stats[k]]
        /\ UNCHANGED <<faults, main, agg, provider_stats, provider_ns>>
      BY <1>10, <1>n DEF FlushNameServers, Write, Flush, bounds
  <2>2. Locked /\ Locked' /\ (\E g \in Flushers : flush'[g] = "provider_ns")
        /\ ~(\E g \in Flushers : flush[g] = "provider_ns")
      BY <2>1, OneWrites DEF Writing
  <2>3. /\ \A k \in Pairs : provider_ns[k] <= agg[k]
        /\ \A p \in Providers : provider_stats[p] = OfProvider(agg, p)
        /\ \A n \in NameServers : ns_stats[n] = OfNS(provider_ns, n)
      BY <2>1, <2>2 DEF TablesFollow
  <2>4. \A n \in NameServers : ns_stats[n] <= new[n]
      BY <1>0, <2>3, TotalsMonotonic
  <2>5. new \in [NameServers -> Nat]
      BY <1>0, Totals
  <2>6. ns_stats' = new
    <3> HIDE DEF new
    <3> QED BY <1>0, <2>1, <2>4, <2>5, Written
  <2>7. \A n \in NameServers : ns_stats'[n] = OfNS(agg', n)
      BY <2>1, <2>6
  <2>8. \A p \in Providers : provider_stats'[p] = OfProvider(agg', p)
      BY <2>1, <2>3
  <2> QED BY <2>1, <2>2, <2>3, <2>7, <2>8 DEF TablesFollow
<1>11. ASSUME NEW f \in Flushers, FlushPairs(f) PROVE TablesFollow'
  <2>1. /\ flush[f] = "provider_ns" /\ flush' = [flush EXCEPT ![f] = "idle"]
        /\ provider_ns' = [k \in DOMAIN provider_ns |-> IF agg[k] > 0 THEN agg[k] ELSE provider_ns[k]]
        /\ UNCHANGED <<faults, main, agg, provider_stats, ns_stats>>
      BY <1>11, <1>n DEF FlushPairs, Write, Flush, bounds
  <2>2. Locked /\ ~Locked' /\ ~(\E g \in Flushers : flush'[g] = "provider_ns")
        /\ (\E g \in Flushers : flush[g] = "provider_ns")
      BY <2>1, OneWrites DEF Writing
  <2>3. /\ \A k \in Pairs : provider_ns[k] <= agg[k]
        /\ \A p \in Providers : provider_stats[p] = OfProvider(agg, p)
        /\ \A n \in NameServers : ns_stats[n] = OfNS(agg, n)
      BY <2>1, <2>2 DEF TablesFollow
  <2>4. provider_ns' = agg
      BY <1>0, <2>1, <2>3, Written
  <2>5. \A k \in Pairs : provider_ns'[k] <= agg'[k]
      BY <1>0, <2>1, <2>4
  <2>6. /\ \A p \in Providers : provider_stats'[p] = OfProvider(provider_ns', p)
        /\ \A n \in NameServers : ns_stats'[n] = OfNS(provider_ns', n)
      BY <2>1, <2>3, <2>4
  <2> QED BY <2>2, <2>5, <2>6 DEF TablesFollow
<1>12. CASE UNCHANGED vars
    BY <1>12, <1>1 DEF vars, bounds
<1> QED BY <1>5, <1>6, <1>7, <1>8, <1>9, <1>10, <1>11, <1>12 DEF Next, Read, Write3

\* Whenever no flush is under way the three tables of aggregates agree, also
\* after a run that was killed half-way through a flush, and however the
\* flushes of main and of the ticker goroutine come.
THEOREM TablesAgreeCorrect == Spec => []TablesAgree
<1> DEFINE I == Typed /\ TablesFollow
<1>1. Init => I
    BY TypedInit, TablesFollowInit
<1>2. I /\ [Next]_vars => I'
    BY TypedStep, TablesFollowStep
<1>3. I => TablesAgree
  <2> SUFFICES ASSUME TablesFollow, faults = 0, main # "clear", ~Locked PROVE TablesAgree
      BY DEF TablesAgree
  <2>1. ~\E f \in Flushers : flush[f] = "provider_ns"
      BY DEF Locked
  <2> QED BY <2>1 DEF TablesFollow, TablesAgree
<1> QED BY <1>1, <1>2, <1>3, PTL DEF Spec

-----------------------------------------------------------------------------
(* RunComplete. *)

\* The rows of a batch with one more record.
LEMMA RowsAppend ==
    ASSUME NEW s \in Seq(Rec), NEW r \in Rec
    PROVE  Rows(Append(s, r)) = Rows(s) \cup {r.row}
<1> DEFINE a == Append(s, r)
<1>1. /\ Len(s) \in Nat /\ DOMAIN s = 1 .. Len(s) /\ DOMAIN a = 1 .. (Len(s) + 1)
      /\ \A i \in 1 .. Len(s) : a[i] = s[i]
      /\ a[Len(s) + 1] = r
    BY AppendProperties, LenProperties
<1> HIDE DEF a
<1>2. Rows(a) \subseteq Rows(s) \cup {r.row}
  <2>1. ASSUME NEW i \in DOMAIN a PROVE a[i].row \in Rows(s) \cup {r.row}
    <3>1. CASE i \in 1 .. Len(s)
        BY <1>1, <3>1 DEF Rows
    <3>2. CASE i = Len(s) + 1
        BY <1>1, <3>2
    <3> QED BY <1>1, <3>1, <3>2
  <2> QED BY <2>1 DEF Rows
<1>3. Rows(s) \subseteq Rows(a)
  <2>1. ASSUME NEW i \in DOMAIN s PROVE s[i].row \in Rows(a)
    <3>1. i \in DOMAIN a /\ a[i] = s[i]
        BY <1>1
    <3> QED BY <3>1 DEF Rows
  <2> QED BY <2>1 DEF Rows
<1>4. r.row \in Rows(a)
  <2>1. Len(s) + 1 \in DOMAIN a
      BY <1>1
  <2> QED BY <1>1, <2>1 DEF Rows
<1> QED BY <1>2, <1>3, <1>4 DEF a

\* The rows of a channel are that of the first record and the others.
LEMMA RowsHead ==
    ASSUME NEW s \in Seq(Rec), s # <<>>
    PROVE  Rows(s) = {Head(s).row} \cup Rows(Tail(s)) /\ Head(s) \in Rec
<1>1. /\ Len(s) \in Nat \ {0} /\ DOMAIN s = 1 .. Len(s)
      /\ DOMAIN Tail(s) = 1 .. (Len(s) - 1)
      /\ \A i \in 1 .. (Len(s) - 1) : Tail(s)[i] = s[i + 1]
      /\ Head(s) = s[1] /\ Head(s) \in Rec
    BY HeadTailProperties, LenProperties, EmptySeq
<1>2. Rows(s) \subseteq {Head(s).row} \cup Rows(Tail(s))
  <2>1. ASSUME NEW i \in DOMAIN s PROVE s[i].row \in {Head(s).row} \cup Rows(Tail(s))
    <3>1. CASE i = 1
        BY <1>1, <3>1
    <3>2. CASE i # 1
      <4>1. i - 1 \in DOMAIN Tail(s) /\ Tail(s)[i - 1] = s[i]
          BY <1>1, <3>2
      <4> QED BY <4>1 DEF Rows
    <3> QED BY <3>1, <3>2
  <2> QED BY <2>1 DEF Rows
<1>3. Rows(Tail(s)) \subseteq Rows(s)
  <2>1. ASSUME NEW i \in DOMAIN Tail(s) PROVE Tail(s)[i].row \in Rows(s)
    <3>1. i + 1 \in DOMAIN s /\ Tail(s)[i] = s[i + 1]
        BY <1>1
    <3> QED BY <3>1 DEF Rows
  <2> QED BY <2>1 DEF Rows
<1>4. Head(s).row \in Rows(s)
  <2>1. 1 \in DOMAIN s
      BY <1>1
  <2> QED BY <1>1, <2>1 DEF Rows
<1> QED BY <1>1, <1>2, <1>3, <1>4

\* What the reader sends is of the next row.
LEMMA Sent ==
    ASSUME Typed, Send
    PROVE  \E r \in Rec : recordCh' = Append(recordCh, r) /\ r.row = next + 1 /\ r.ns = File[next + 1]
<1>1. /\ next \in Nat /\ next' = next + 1 /\ next < Len(File) /\ Len(File) \in Nat
      /\ DOMAIN File = 1 .. Len(File) /\ File[next + 1] \in NameServers
    BY IngesterAssumption, LenProperties DEF Send, Typed, TypeOK
<1>2. next + 1 \in DOMAIN File /\ File[next + 1] \in NameServers
    BY <1>1
<1>3. PICK p \in ProvidersOf[File[next + 1]] :
          recordCh' = Append(recordCh, [row |-> next + 1, ns |-> File[next + 1], provider |-> p])
    BY <1>1 DEF Send
<1>4. p \in Providers
    BY <1>2, <1>3, IngesterAssumption
<1> DEFINE r == [row |-> next + 1, ns |-> File[next + 1], provider |-> p]
<1>5. r \in Rec /\ r.row = next + 1 /\ r.ns = File[next + 1]
    BY <1>2, <1>4 DEF Rec
<1> QED BY <1>3, <1>5

\* No step of a run without a fault loses a row.
LEMMA RowsStoredStep ==
    ASSUME Typed, RowsStored, [Next]_vars
    PROVE  RowsStored'
<1> SUFFICES ASSUME faults' = 0, NEW i \in 1 .. next', File[i] \in NameServers PROVE Stored(i)'
    BY DEF RowsStored
<1>t. TypeOK /\ Phases /\ MaxFaults \in Nat
    BY IngesterAssumption DEF Typed
<1>0. /\ faults \in Nat /\ next \in Nat
      /\ recordCh \in Seq(Rec) /\ batch \in [Workers -> Seq(Rec)]
      /\ worker \in [Workers -> {"off", "select", "insert", "aggregate", "count", "stopped"}]
    BY <1>t DEF TypeOK, Phases
<1>n. ~Fault
    BY <1>0 DEF Fault
<1>k. ASSUME faults' = faults, next' = next PROVE Stored(i)
    BY <1>k DEF RowsStored
<1>1. CASE UNCHANGED <<next, recordCh, worker, batch, stored, faults>>
    BY <1>1, <1>k DEF Stored
<1>2. CASE Clear
  <2>1. /\ UNCHANGED <<next, faults, recordCh, batch, stored>>
        /\ worker' = [w \in Workers |-> "select"]
      BY <1>2 DEF Clear, reading, bounds
  <2> QED BY <2>1, <1>k DEF Stored
<1>3. CASE ClearFails \/ \E w \in Workers : InsertFails(w)
    BY <1>3, <1>n DEF ClearFails, InsertFails
<1>4. CASE Crash
  <2>1. next' = 0
      BY <1>4 DEF Crash
  <2> QED BY <2>1
<1>5. CASE Send
  <2>1. PICK r \in Rec : recordCh' = Append(recordCh, r) /\ r.row = next + 1
      BY <1>5, Sent
  <2>2. next' = next + 1 /\ UNCHANGED <<faults, worker, batch, stored>>
      BY <1>5 DEF Send, working, bounds
  <2>3. Rows(recordCh') = Rows(recordCh) \cup {next + 1}
      BY <1>0, <2>1, RowsAppend
  <2>4. CASE i = next + 1
      BY <2>3, <2>4 DEF Stored
  <2>5. CASE i # next + 1
    <3>1. i \in 1 .. next
        BY <1>0, <2>2, <2>5
    <3>2. Stored(i)
        BY <2>2, <3>1 DEF RowsStored
    <3> QED BY <2>2, <2>3, <3>2 DEF Stored
  <2> QED BY <2>4, <2>5
<1>6. CASE ReadFails \/ Skip
  <2>1. /\ next' = next + 1 /\ File[next + 1] \notin NameServers
        /\ UNCHANGED <<faults, recordCh, worker, batch, stored>>
      BY <1>6, IngesterAssumption DEF ReadFails, Skip, working, bounds
  <2>2. i \in 1 .. next
      BY <1>0, <2>1
  <2>3. Stored(i)
      BY <2>1, <2>2 DEF RowsStored
  <2> QED BY <2>1, <2>3 DEF Stored
<1>7. ASSUME NEW w \in Workers, Receive(w) PROVE Stored(i)'
  <2>1. /\ recordCh # <<>> /\ recordCh' = Tail(recordCh)
        /\ batch' = [batch EXCEPT ![w] = Append(batch[w], Head(recordCh))]
        /\ worker[w] = "select" /\ worker'[w] \in {"select", "insert"}
        /\ \A v \in Workers \ {w} : worker'[v] = worker[v]
        /\ UNCHANGED <<next, stored, faults>>
      BY <1>0, <1>7 DEF Receive, Worker, bounds
  <2>2. Rows(recordCh) = {Head(recordCh).row} \cup Rows(recordCh') /\ Head(recordCh) \in Rec
      BY <1>0, <2>1, RowsHead
  <2>3. batch'[w] = Append(batch[w], Head(recordCh)) /\ \A v \in Workers \ {w} : batch'[v] = batch[v]
      BY <1>0, <2>1
  <2>4. Rows(batch'[w]) = Rows(batch[w]) \cup {Head(recordCh).row}
      BY <1>0, <2>2, <2>3, RowsAppend
  <2>5. Stored(i)
      BY <1>k, <2>1
  <2>6. CASE i \in stored
      BY <2>1, <2>6 DEF Stored
  <2>7. CASE i \in Rows(recordCh)
      BY <2>1, <2>2, <2>4, <2>7 DEF Stored
  <2>8. ASSUME NEW v \in Workers, worker[v] \in {"select", "insert"}, i \in Rows(batch[v]) PROVE Stored(i)'
    <3>1. CASE v = w
        BY <2>1, <2>4, <2>8, <3>1 DEF Stored
    <3>2. CASE v # w
        BY <2>1, <2>3, <2>8, <3>2 DEF Stored
    <3> QED BY <3>1, <3>2
  <2> QED BY <2>5, <2>6, <2>7, <2>8 DEF Stored
<1>8. ASSUME NEW w \in Workers, FlushTick(w) PROVE Stored(i)'
  <2>1. /\ worker[w] = "select" /\ worker' = [worker EXCEPT ![w] = "insert"]
        /\ UNCHANGED <<next, recordCh, batch, stored, faults>>
      BY <1>8 DEF FlushTick, Worker, reading, bounds
  <2>2. \A v \in Workers : worker[v] \in {"select", "insert"} => worker'[v] \in {"select", "insert"}
      BY <1>0, <2>1
  <2> QED BY <1>k, <2>1, <2>2 DEF Stored
<1>9. ASSUME NEW w \in Workers, Stop(w) PROVE Stored(i)'
  <2>1. /\ batch[w] = <<>> /\ worker' = [worker EXCEPT ![w] = "stopped"]
        /\ UNCHANGED <<next, recordCh, batch, stored, faults>>
      BY <1>9 DEF Stop, Worker, reading, bounds
  <2>2. Rows(batch[w]) = {}
      BY <2>1 DEF Rows
  <2>3. \A v \in Workers \ {w} : worker'[v] = worker[v]
      BY <1>0, <2>1
  <2> QED BY <1>k, <2>1, <2>2, <2>3 DEF Stored
<1>10. ASSUME NEW w \in Workers, Insert(w) PROVE Stored(i)'
  <2>1. /\ stored' = stored \cup Rows(batch[w]) /\ worker' = [worker EXCEPT ![w] = "aggregate"]
        /\ UNCHANGED <<next, recordCh, batch, faults>>
      BY <1>10 DEF Insert, Worker, reading, bounds
  <2>2. \A v \in Workers \ {w} : worker'[v] = worker[v]
      BY <1>0, <2>1
  <2> QED BY <1>k, <2>1, <2>2 DEF Stored
<1>11. ASSUME NEW w \in Workers, Aggregate(w) \/ Count(w) PROVE Stored(i)'
  <2>1. /\ worker[w] \notin {"select", "insert"}
        /\ \A v \in Workers \ {w} : worker'[v] = worker[v] /\ batch'[v] = batch[v]
        /\ UNCHANGED <<next, recordCh, stored, faults>>
      BY <1>0, <1>11 DEF Aggregate, Count, Worker, reading, bounds
  <2> QED BY <1>k, <2>1 DEF Stored
<1>12. CASE WorkersDone \/ Finish \/ Tick \/ \E f \in Flushers : Write3(f)
  <2>1. UNCHANGED <<next, recordCh, worker, batch, stored>>
      BY <1>12 DEF WorkersDone, Finish, Tick, Write3, FlushProviders, FlushNameServers, FlushPairs,
         reading, working
  <2>2. faults' = faults
      BY <1>12, <1>n DEF WorkersDone, Finish, Tick, Write3, FlushProviders, FlushNameServers, FlushPairs,
         Write, bounds
  <2> QED BY <2>1, <2>2, <1>1
<1>13. CASE UNCHANGED vars
    BY <1>13, <1>1 DEF vars, reading, working, bounds
<1> QED BY <1>2, <1>3, <1>4, <1>5, <1>6, <1>7, <1>8, <1>9, <1>10, <1>11, <1>12, <1>13 DEF Next, Read, Work

\* One more record counts when it is of the nameserver.
LEMMA CountAppend ==
    ASSUME NEW s \in Seq(Rec), NEW r \in Rec, NEW n
    PROVE  CountIn(Append(s, r), Of(n)) = CountIn(s, Of(n)) + (IF r.ns = n THEN 1 ELSE 0)
<1> DEFINE A == Of(n)
<1>1. Append(s, r) = s \o <<r>> /\ <<r>> \in Seq(Rec)
    BY AppendIsConcat
<1>2. CountIn(s \o <<r>>, A) = CountIn(s, A) + CountIn(<<r>>, A)
    BY <1>1, CountConcat
<1>3. CountIn(<<r>>, A) = IF r.ns = n THEN 1 ELSE 0
  <2>1. CASE r.ns = n
    <3>1. {i \in DOMAIN <<r>> : <<r>>[i] \in A} = {1}
        BY <2>1 DEF Of
    <3> QED BY <2>1, <3>1, FS_Singleton DEF CountIn
  <2>2. CASE r.ns # n
    <3>1. {i \in DOMAIN <<r>> : <<r>>[i] \in A} = {}
        BY <2>2 DEF Of
    <3> QED BY <2>2, <3>1, FS_EmptySet DEF CountIn
  <2> QED BY <2>1, <2>2
<1> QED BY <1>1, <1>2, <1>3

\* The first record counts when it is of the nameserver.
LEMMA CountHead ==
    ASSUME NEW s \in Seq(Rec), s # <<>>, NEW n
    PROVE  /\ CountIn(s, Of(n)) = (IF Head(s).ns = n THEN 1 ELSE 0) + CountIn(Tail(s), Of(n))
           /\ Head(s) \in Rec /\ Tail(s) \in Seq(Rec)
<1>1. s = <<Head(s)>> \o Tail(s) /\ Head(s) \in Rec /\ Tail(s) \in Seq(Rec) /\ <<Head(s)>> \in Seq(Rec)
    BY HeadTail
<1>2. CountIn(<<Head(s)>> \o Tail(s), Of(n)) = CountIn(<<Head(s)>>, Of(n)) + CountIn(Tail(s), Of(n))
    BY <1>1, CountConcat
<1>3. CountIn(<<Head(s)>>, Of(n)) = IF Head(s).ns = n THEN 1 ELSE 0
  <2>1. <<>> \in Seq(Rec) /\ Append(<<>>, Head(s)) = <<Head(s)>>
      OBVIOUS
  <2>2. CountIn(Append(<<>>, Head(s)), Of(n)) = CountIn(<<>>, Of(n)) + (IF Head(s).ns = n THEN 1 ELSE 0)
      BY <1>1, <2>1, CountAppend
  <2>3. CountIn(<<>>, Of(n)) = 0
      BY CountEmpty
  <2> QED BY <2>1, <2>2, <2>3
<1> QED BY <1>1, <1>2, <1>3, Zenon

\* What waits of a nameserver is a sum of numbers.
LEMMA WaitingType ==
    ASSUME NEW label, NEW b \in [Workers -> Seq(Rec)], NEW n
    PROVE  /\ \A w \in Workers : CountIn(b[w], Of(n)) \in Nat /\ Waiting(label, b, n)[w] \in Nat
           /\ SumOf(Waiting(label, b, n), Workers) \in Nat
<1>1. \A w \in Workers : b[w] \in Seq(Rec)
    OBVIOUS
<1>2. \A w \in Workers : CountIn(b[w], Of(n)) \in Nat
    BY <1>1, CountType
<1>3. \A w \in Workers : Waiting(label, b, n)[w] \in Nat
    BY <1>2 DEF Waiting
<1>4. SumOf(Waiting(label, b, n), Workers) \in Nat
  <2> DEFINE f == Waiting(label, b, n)
  <2>1. \A w \in Workers : f[w] \in Nat
      BY <1>3
  <2> HIDE DEF f
  <2>2. SumOf(f, Workers) \in Nat
      BY <2>1, SumType, IngesterAssumption
  <2> QED BY <2>2 DEF f
<1> QED BY <1>2, <1>3, <1>4

\* Without records nothing waits.
LEMMA NothingWaits ==
    ASSUME NEW label, NEW b, NEW n,
           \A w \in Workers : label[w] \in {"select", "insert", "aggregate"} => b[w] = <<>>
    PROVE  SumOf(Waiting(label, b, n), Workers) = 0
<1> DEFINE f == Waiting(label, b, n)
<1>1. \A w \in Workers : f[w] = 0
    BY CountEmpty DEF Waiting
<1> HIDE DEF f
<1>2. SumOf(f, Workers) = 0
    BY <1>1, SumZero, IngesterAssumption
<1> QED BY <1>2 DEF f

\* When one worker changes, what waits changes by its own.
LEMMA WaitingChange ==
    ASSUME batch \in [Workers -> Seq(Rec)], batch' \in [Workers -> Seq(Rec)],
           NEW n, NEW w \in Workers,
           \A v \in Workers \ {w} : worker'[v] = worker[v] /\ batch'[v] = batch[v]
    PROVE  SumOf(Waiting(worker', batch', n), Workers)
             = SumOf(Waiting(worker, batch, n), Workers) - Waiting(worker, batch, n)[w]
                 + Waiting(worker', batch', n)[w]
<1> DEFINE f == Waiting(worker, batch, n)
           g == Waiting(worker', batch', n)
<1>1. \A v \in Workers : f[v] \in Int /\ g[v] \in Int
    BY WaitingType
<1>2. \A v \in Workers \ {w} : f[v] = g[v]
    BY DEF Waiting
<1>f. IsFiniteSet(Workers)
    BY IngesterAssumption
<1> HIDE DEF f, g
<1>3. SumOf(g, Workers) = SumOf(f, Workers) - f[w] + g[w]
    BY <1>1, <1>2, <1>f, SumChange
<1> QED BY <1>3 DEF f, g

\* The balance of a nameserver: what is aggregated, what waits in batches, what
\* is in the channel, and what was read.
Balanced(n) ==
    OfNS(agg, n) + SumOf(Waiting(worker, batch, n), Workers) + CountIn(recordCh, Of(n))
        = Numbered(next, n)

\* RowsCounted is the balance of each nameserver.
LEMMA RowsCountedIsBalanced == RowsCounted <=> (faults = 0 => \A n \in NameServers : Balanced(n))
BY DEF RowsCounted, Balanced, Numbered, Unaggregated

\* A worker's step keeps the balance.
LEMMA BalancedMove ==
    ASSUME Typed, Typed', NEW n \in NameServers, Balanced(n), NEW w \in Workers, Work(w), ~InsertFails(w)
    PROVE  Balanced(n)'
<1>t. TypeOK /\ Phases /\ Phases'
    BY DEF Typed
<1>0. /\ recordCh \in Seq(Rec) /\ batch \in [Workers -> Seq(Rec)] /\ batch[w] \in Seq(Rec)
      /\ batch' \in [Workers -> Seq(Rec)] /\ agg \in [Pairs -> Nat]
      /\ worker \in [Workers -> {"off", "select", "insert", "aggregate", "count", "stopped"}]
    BY <1>t DEF TypeOK, Phases
<1> DEFINE old == SumOf(Waiting(worker, batch, n), Workers)
           new == SumOf(Waiting(worker', batch', n), Workers)
           mine == Waiting(worker, batch, n)[w]
           mine2 == Waiting(worker', batch', n)[w]
<1>1. new = old - mine + mine2
  <2>1. \A v \in Workers \ {w} : worker'[v] = worker[v] /\ batch'[v] = batch[v]
      BY OneWorker
  <2>2. SumOf(Waiting(worker', batch', n), Workers)
          = SumOf(Waiting(worker, batch, n), Workers) - Waiting(worker, batch, n)[w]
              + Waiting(worker', batch', n)[w]
    <3>1. batch \in [Workers -> Seq(Rec)] /\ batch' \in [Workers -> Seq(Rec)]
        BY <1>0
    <3> QED BY <2>1, <3>1, WaitingChange
  <2> QED BY <2>2
<1>2. /\ old \in Nat /\ mine \in Nat /\ mine2 \in Nat
      /\ OfNS(agg, n) \in Nat /\ CountIn(recordCh, Of(n)) \in Nat /\ CountIn(batch[w], Of(n)) \in Nat
  <2>1. old \in Nat /\ mine \in Nat /\ CountIn(batch[w], Of(n)) \in Nat
      BY <1>0, WaitingType
  <2>2. mine2 \in Nat
      BY <1>0, WaitingType
  <2>3. CountIn(recordCh, Of(n)) \in Nat
      BY <1>0, CountType
  <2> QED BY <1>0, <2>1, <2>2, <2>3, Totals
<1>3. /\ mine  = (IF worker[w] \in {"select", "insert", "aggregate"} THEN CountIn(batch[w], Of(n)) ELSE 0)
      /\ mine2 = (IF worker'[w] \in {"select", "insert", "aggregate"} THEN CountIn(batch'[w], Of(n)) ELSE 0)
    BY DEF Waiting
<1>4. OfNS(agg, n) + old + CountIn(recordCh, Of(n)) = Numbered(next, n) /\ next' = next
    BY OneWorker DEF Balanced
<1>g. (OfNS(agg', n) + new + CountIn(recordCh', Of(n)) = Numbered(next, n)) => Balanced(n)'
  <2>1. Balanced(n)' <=> OfNS(agg', n) + new + CountIn(recordCh', Of(n)) = Numbered(next', n)
      BY DEF Balanced, OfNS
  <2> QED BY <1>4, <2>1
<1> HIDE DEF old, new, mine, mine2
<1>5. CASE Receive(w)
  <2>1. /\ recordCh # <<>> /\ recordCh' = Tail(recordCh) /\ agg' = agg
        /\ worker[w] = "select" /\ worker'[w] \in {"select", "insert"}
        /\ batch'[w] = Append(batch[w], Head(recordCh))
      BY <1>0, <1>5 DEF Receive, Worker
  <2> DEFINE one == IF Head(recordCh).ns = n THEN 1 ELSE 0
  <2>2. CountIn(recordCh, Of(n)) = one + CountIn(recordCh', Of(n)) /\ Head(recordCh) \in Rec
        /\ recordCh' \in Seq(Rec)
      BY <1>0, <2>1, CountHead
  <2>3. CountIn(batch'[w], Of(n)) = CountIn(batch[w], Of(n)) + one
      BY <1>0, <2>1, <2>2, CountAppend
  <2>4. one \in Nat /\ CountIn(recordCh', Of(n)) \in Nat
      BY <2>2, CountType
  <2> HIDE DEF one
  <2>5. mine = CountIn(batch[w], Of(n)) /\ mine2 = CountIn(batch[w], Of(n)) + one
      BY <1>3, <2>1, <2>3
  <2>6. new + CountIn(recordCh', Of(n)) = old + CountIn(recordCh, Of(n))
      BY <1>1, <1>2, <2>2, <2>4, <2>5
  <2>7. new \in Int /\ CountIn(recordCh', Of(n)) \in Nat
      BY <1>1, <1>2, <2>4
  <2>8. OfNS(agg, n) + new + CountIn(recordCh', Of(n)) = OfNS(agg, n) + old + CountIn(recordCh, Of(n))
      BY <1>2, <2>6, <2>7
  <2> QED BY <1>4, <1>g, <2>1, <2>8
<1>6. CASE FlushTick(w) \/ Insert(w)
  <2>1. /\ UNCHANGED <<agg, recordCh, batch>>
        /\ worker[w] \in {"select", "insert", "aggregate"} /\ worker'[w] \in {"select", "insert", "aggregate"}
      BY <1>0, <1>6 DEF FlushTick, Insert, Worker, reading
  <2>2. new = old
      BY <1>1, <1>2, <1>3, <2>1
  <2> QED BY <1>4, <1>g, <2>1, <2>2
<1>7. CASE Stop(w)
  <2>1. /\ UNCHANGED <<agg, recordCh, batch>> /\ batch[w] = <<>>
      BY <1>7 DEF Stop, reading
  <2>2. mine = 0 /\ mine2 = 0
      BY <1>3, <2>1, CountEmpty
  <2> QED BY <1>1, <1>2, <1>4, <1>g, <2>1, <2>2
<1>8. CASE Aggregate(w)
  <2>1. /\ UNCHANGED <<recordCh, batch>> /\ agg' = Aggregated(batch[w])
        /\ worker[w] = "aggregate" /\ worker'[w] = "count"
      BY <1>0, <1>8 DEF Aggregate, Worker, reading
  <2>2. OfNS(agg', n) = OfNS(agg, n) + CountIn(batch[w], Of(n))
      BY <1>0, <2>1, AggregatedOfNS
  <2>3. mine = CountIn(batch[w], Of(n)) /\ mine2 = 0
      BY <1>3, <2>1
  <2> QED BY <1>1, <1>2, <1>4, <1>g, <2>1, <2>2, <2>3
<1>9. CASE Count(w)
  <2>1. /\ UNCHANGED <<recordCh, agg>> /\ batch'[w] = <<>>
        /\ worker[w] = "count" /\ worker'[w] = "select"
      BY <1>0, <1>9 DEF Count, Worker, reading
  <2>2. mine = 0 /\ mine2 = 0
      BY <1>3, <2>1, CountEmpty
  <2> QED BY <1>1, <1>2, <1>4, <1>g, <2>1, <2>2
<1> QED BY <1>5, <1>6, <1>7, <1>8, <1>9 DEF Work

\* At first every nameserver is balanced.
LEMMA RowsCountedInit == Init => RowsCounted
<1> SUFFICES ASSUME Init, NEW n \in NameServers PROVE Balanced(n)
    BY RowsCountedIsBalanced
<1>1. /\ agg = [k \in Pairs |-> 0] /\ next = 0 /\ recordCh = <<>> /\ \A w \in Workers : batch[w] = <<>>
    BY DEF Init
<1>2. OfNS(agg, n) = 0
    BY <1>1, NothingAggregated
<1>3. SumOf(Waiting(worker, batch, n), Workers) = 0
    BY <1>1, NothingWaits
<1>4. CountIn(recordCh, Of(n)) = 0
    BY <1>1, CountEmpty
<1>5. Numbered(next, n) = 0
    BY <1>1, NextRow
<1> QED BY <1>2, <1>3, <1>4, <1>5 DEF Balanced

\* Every step of a run without a fault keeps the balance.
LEMMA RowsCountedStep ==
    ASSUME Typed, Typed', RowsCounted, [Next]_vars
    PROVE  RowsCounted'
<1> SUFFICES ASSUME faults' = 0, NEW n \in NameServers PROVE Balanced(n)'
  <2>1. RowsCounted' <=> (faults' = 0 => \A n \in NameServers : Balanced(n)')
      BY DEF RowsCounted, Balanced, Numbered, Unaggregated
  <2> QED BY <2>1
<1>t. TypeOK /\ Phases /\ Phases' /\ MaxFaults \in Nat
    BY IngesterAssumption DEF Typed
<1>0. /\ faults \in Nat /\ next \in Nat /\ agg \in [Pairs -> Nat]
      /\ recordCh \in Seq(Rec) /\ batch \in [Workers -> Seq(Rec)]
    BY <1>t DEF TypeOK, Phases
<1>n. ~Fault
    BY <1>0 DEF Fault
<1>k. faults = 0 => Balanced(n)
    BY RowsCountedIsBalanced
<1>1. CASE UNCHANGED <<next, recordCh, worker, batch, agg, faults>>
    BY <1>1, <1>k DEF Balanced, OfNS
<1>2. CASE Clear
  <2>1. /\ UNCHANGED <<next, faults, recordCh, batch, agg>> /\ main = "clear"
      BY <1>2 DEF Clear, reading, bounds
  <2>2. \A w \in Workers : batch[w] = <<>>
      BY <1>t, <2>1 DEF TypeOK, Phases
  <2>3. SumOf(Waiting(worker, batch, n), Workers) = 0
      BY <2>2, NothingWaits
  <2>4. SumOf(Waiting(worker', batch', n), Workers) = 0
      BY <2>1, <2>2, NothingWaits
  <2> QED BY <1>k, <2>1, <2>3, <2>4 DEF Balanced, OfNS
<1>3. CASE ClearFails \/ \E w \in Workers : InsertFails(w)
    BY <1>3, <1>n DEF ClearFails, InsertFails
<1>4. CASE Crash
  <2>1. /\ agg' = [k \in Pairs |-> 0] /\ next' = 0 /\ recordCh' = <<>>
        /\ \A w \in Workers : batch'[w] = <<>>
      BY <1>4 DEF Crash
  <2>2. OfNS(agg', n) = 0
      BY <2>1, NothingAggregated
  <2>3. SumOf(Waiting(worker', batch', n), Workers) = 0
      BY <2>1, NothingWaits
  <2>4. CountIn(recordCh', Of(n)) = 0 /\ Numbered(next', n) = 0
      BY <2>1, CountEmpty, NextRow
  <2> QED BY <2>2, <2>3, <2>4 DEF Balanced, OfNS
<1>5. CASE Send
  <2>1. PICK r \in Rec : recordCh' = Append(recordCh, r) /\ r.ns = File[next + 1]
      BY <1>5, Sent
  <2>2. next' = next + 1 /\ UNCHANGED <<faults, worker, batch, agg>>
      BY <1>5 DEF Send, working, bounds
  <2> DEFINE one == IF File[next + 1] = n THEN 1 ELSE 0
  <2>3. CountIn(recordCh', Of(n)) = CountIn(recordCh, Of(n)) + one
      BY <1>0, <2>1, CountAppend
  <2>4. Numbered(next', n) = Numbered(next, n) + one /\ Numbered(next, n) \in Nat
      BY <1>0, <2>2, NextRow
  <2>5. /\ CountIn(recordCh, Of(n)) \in Nat /\ OfNS(agg, n) \in Nat /\ one \in Nat
        /\ SumOf(Waiting(worker, batch, n), Workers) \in Nat
    <3>1. CountIn(recordCh, Of(n)) \in Nat
        BY <1>0, CountType
    <3>2. SumOf(Waiting(worker, batch, n), Workers) \in Nat
        BY <1>0, WaitingType
    <3> QED BY <1>0, <3>1, <3>2, Totals
  <2> HIDE DEF one
  <2>6. OfNS(agg, n) + SumOf(Waiting(worker, batch, n), Workers) + CountIn(recordCh, Of(n)) = Numbered(next, n)
      BY <1>k, <2>2 DEF Balanced
  <2>7. OfNS(agg, n) + SumOf(Waiting(worker, batch, n), Workers) + CountIn(recordCh', Of(n)) = Numbered(next', n)
      BY <2>3, <2>4, <2>5, <2>6
  <2> QED BY <2>2, <2>7 DEF Balanced, OfNS
<1>6. CASE ReadFails \/ Skip
  <2>1. /\ next' = next + 1 /\ File[next + 1] \in {Bad, Blank}
        /\ UNCHANGED <<faults, recordCh, worker, batch, agg>>
      BY <1>6 DEF ReadFails, Skip, working, bounds
  <2>2. File[next + 1] # n
      BY <2>1, IngesterAssumption
  <2>3. Numbered(next', n) = Numbered(next, n)
    <3>1. Numbered(next + 1, n) = Numbered(next, n) + (IF File[next + 1] = n THEN 1 ELSE 0)
          /\ Numbered(next, n) \in Nat
        BY <1>0, NextRow
    <3> QED BY <2>1, <2>2, <3>1
  <2> QED BY <1>k, <2>1, <2>3 DEF Balanced, OfNS
<1>7. ASSUME NEW w \in Workers, Work(w), ~InsertFails(w) PROVE Balanced(n)'
  <2>1. faults' = faults
      BY <1>7 DEF Work, Receive, FlushTick, Stop, Insert, Aggregate, Count, bounds
  <2> QED BY <1>7, <1>k, <2>1, BalancedMove
<1>8. CASE WorkersDone \/ Finish \/ Tick \/ \E f \in Flushers : Write3(f)
  <2>1. UNCHANGED <<next, recordCh, worker, batch, agg>>
      BY <1>8 DEF WorkersDone, Finish, Tick, Write3, FlushProviders, FlushNameServers, FlushPairs,
         reading, working
  <2>2. faults' = faults
      BY <1>8, <1>n DEF WorkersDone, Finish, Tick, Write3, FlushProviders, FlushNameServers, FlushPairs,
         Write, bounds
  <2> QED BY <2>1, <2>2, <1>1
<1>9. CASE UNCHANGED vars
    BY <1>9, <1>1 DEF vars, reading, working, bounds
<1> QED BY <1>2, <1>3, <1>4, <1>5, <1>6, <1>7, <1>8, <1>9 DEF Next, Read

\* After the last flush nothing changes agg, and nothing but agg is written.
LEMMA LastWrittenStep ==
    ASSUME Typed, Typed', TablesFollow, LastWritten, [Next]_vars
    PROVE  LastWritten'
<1> DEFINE AtEnd == main = "done" \/ (main = "flush" /\ flush["main"] \in {"provider_ns", "idle"})
<1> SUFFICES ASSUME faults' = 0, AtEnd', NEW n \in NameServers PROVE ns_stats'[n] = OfNS(agg', n)
    BY DEF LastWritten, OfNS
<1>t. TypeOK /\ Phases /\ MaxFaults \in Nat
    BY IngesterAssumption DEF Typed
<1>0. /\ faults \in Nat /\ agg \in [Pairs -> Nat] /\ ns_stats \in [NameServers -> Nat]
      /\ provider_ns \in [Pairs -> Nat]
      /\ flush \in [Flushers -> {"idle", "due", "ns_stats", "provider_ns"}]
    BY <1>t DEF TypeOK
<1>n. ~Fault
    BY <1>0 DEF Fault
<1>k. faults = 0 /\ AtEnd => ns_stats[n] = OfNS(agg, n)
    BY DEF LastWritten
<1>1. CASE UNCHANGED <<faults, main, flush, agg, ns_stats>>
    BY <1>1, <1>k
<1>2. CASE Clear \/ ClearFails \/ Crash \/ Read \/ Tick
  <2>1. main' \in {"clear", "ingest"}
      BY <1>2 DEF Clear, ClearFails, Crash, Read, Send, ReadFails, Skip, Tick
  <2> QED BY <2>1
<1>3. CASE WorkersDone
  <2>1. main' = "flush" /\ flush'["main"] = "due"
      BY <1>0, <1>3 DEF WorkersDone, Flushers
  <2> QED BY <2>1
<1>4. CASE Finish
  <2>1. main = "flush" /\ flush["main"] = "idle" /\ UNCHANGED <<faults, agg, ns_stats>>
      BY <1>4 DEF Finish, tables, bounds
  <2> QED BY <1>k, <2>1
<1>5. ASSUME NEW w \in Workers, Work(w) PROVE FALSE
  <2>1. main = "ingest" /\ main' = main
      BY <1>5, OneWorker
  <2> QED BY <2>1
<1>6. ASSUME NEW f \in Flushers, FlushProviders(f) \/ FlushPairs(f)
      PROVE  ns_stats'[n] = OfNS(agg', n)
  <2>1. /\ UNCHANGED <<faults, main, agg, ns_stats>>
        /\ \/ flush' = [flush EXCEPT ![f] = "ns_stats"]
           \/ flush[f] = "provider_ns" /\ flush' = [flush EXCEPT ![f] = "idle"]
      BY <1>6, <1>n DEF FlushProviders, FlushPairs, Flush, Write, bounds
  <2>2. AtEnd
      BY <1>0, <2>1 DEF Flushers
  <2> QED BY <1>k, <2>1, <2>2
<1>7. ASSUME NEW f \in Flushers, FlushNameServers(f)
      PROVE  ns_stats'[n] = OfNS(agg', n)
  <2> DEFINE new == [m \in NameServers |-> OfNS(agg, m)]
  <2>1. /\ flush[f] = "ns_stats" /\ flush' = [flush EXCEPT ![f] = "provider_ns"]
        /\ ns_stats' = [k \in DOMAIN ns_stats |-> IF new[k] > 0 THEN new[k] ELSE ns_stats[k]]
        /\ UNCHANGED <<faults, main, agg>>
      BY <1>7, <1>n DEF FlushNameServers, Write, Flush, bounds
  <2>2. main # "clear" /\ ~(\E g \in Flushers : flush[g] = "provider_ns")
      BY <2>1, OneWrites DEF Writing
  <2>3. /\ \A k \in Pairs : provider_ns[k] <= agg[k]
        /\ \A m \in NameServers : ns_stats[m] = OfNS(provider_ns, m)
      BY <2>1, <2>2 DEF TablesFollow
  <2>4. \A m \in NameServers : ns_stats[m] <= new[m]
      BY <1>0, <2>3, TotalsMonotonic
  <2>5. new \in [NameServers -> Nat]
      BY <1>0, Totals
  <2>6. ns_stats' = new
    <3> HIDE DEF new
    <3> QED BY <1>0, <2>1, <2>4, <2>5, Written
  <2> QED BY <2>1, <2>6
<1>8. CASE UNCHANGED vars
    BY <1>8, <1>1 DEF vars, tables, bounds
<1> QED BY <1>2, <1>3, <1>4, <1>5, <1>6, <1>7, <1>8 DEF Next, Read, Write3

\* At the end, with nothing on its way, what was balanced is complete.
LEMMA Complete ==
    ASSUME Typed, RowsStored, RowsCounted, LastWritten
    PROVE  RunComplete
<1> SUFFICES ASSUME faults = 0, main = "done" PROVE RunComplete
    BY DEF RunComplete
<1>1. /\ \A w \in Workers : worker[w] = "stopped" /\ batch[w] = <<>>
      /\ next = Len(File) /\ recordCh = <<>>
  <2>1. \A w \in Workers : worker[w] = "stopped" /\ batch[w] = <<>>
      BY DEF Typed, TypeOK, Phases
  <2>2. PICK w \in Workers : TRUE
      BY IngesterAssumption
  <2> QED BY <2>1, <2>2 DEF Typed, Phases
<1>2. DOMAIN File = 1 .. next /\ next \in Nat
    BY <1>1, IngesterAssumption, LenProperties
<1>3. {i \in DOMAIN File : File[i] \in NameServers} \subseteq stored
  <2> SUFFICES ASSUME NEW i \in 1 .. next, File[i] \in NameServers PROVE i \in stored
      BY <1>2
  <2>1. Stored(i)
      BY DEF RowsStored
  <2>2. i \notin Rows(recordCh)
      BY <1>1 DEF Rows
  <2> QED BY <1>1, <2>1, <2>2 DEF Stored
<1>4. ASSUME NEW n \in NameServers PROVE ns_stats[n] = Cardinality({i \in DOMAIN File : File[i] = n})
  <2>1. ns_stats[n] = OfNS(agg, n)
      BY DEF LastWritten
  <2>2. OfNS(agg, n) + SumOf(Waiting(worker, batch, n), Workers) + CountIn(recordCh, Of(n)) = Numbered(next, n)
      BY RowsCountedIsBalanced DEF Balanced
  <2>3. SumOf(Waiting(worker, batch, n), Workers) = 0
      BY <1>1, NothingWaits
  <2>4. CountIn(recordCh, Of(n)) = 0
      BY <1>1, CountEmpty
  <2>5. OfNS(agg, n) \in Nat
      BY Totals DEF Typed, TypeOK
  <2>6. OfNS(agg, n) = Numbered(next, n)
      BY <2>2, <2>3, <2>4, <2>5
  <2> QED BY <1>2, <2>1, <2>6 DEF Numbered
<1> QED BY <1>3, <1>4 DEF RunComplete

\* When a run without a fault is done, all records of the file are stored and
\* the counts are those of the file, although the ticker may still have been
\* writing when main finished.
THEOREM RunCompleteCorrect == Spec => []RunComplete
<1> DEFINE I == Typed /\ TablesFollow /\ RowsStored /\ RowsCounted /\ LastWritten
<1>1. Init => I
  <2>1. Init => RowsStored /\ LastWritten
      BY DEF Init, RowsStored, LastWritten
  <2> QED BY <2>1, TypedInit, TablesFollowInit, RowsCountedInit
<1>2. I /\ [Next]_vars => I'
    BY TypedStep, TablesFollowStep, RowsStoredStep, RowsCountedStep, LastWrittenStep
<1>3. I => RunComplete
    BY Complete
<1> QED BY <1>1, <1>2, <1>3, PTL DEF Spec
===============================================================================
