---------------------------- MODULE ProviderProofs ----------------------------
(***************************************************************************)
(* What TLAPS proves of the aggregate tables under backfill, handlers and  *)
(* deduplication, for any rows, providers and batches, and of the search   *)
(* for the domains of a provider, for any tables, requests and limits.     *)
(***************************************************************************)
EXTENDS ProviderTables, ProviderSearch, FoldLemmas

Providers == L!Providers

\* The parts count and add as everybody does.
LEMMA SameBackfill ==
    /\ \A S : B!Cardinality(S) = Cardinality(S) /\ (B!IsFiniteSet(S) <=> IsFiniteSet(S))
    /\ \A f : B!SumFunction(f) = SumOf(f, DOMAIN f)
<1>1. \A S : B!Cardinality(S) = Cardinality(S) /\ (B!IsFiniteSet(S) <=> IsFiniteSet(S))
    BY DEF B!Cardinality, Cardinality, B!IsFiniteSet, IsFiniteSet
<1>2. \A f : B!SumFunction(f) = SumOf(f, DOMAIN f)
    BY DEF B!SumFunction, B!SumFunctionOnSet, B!FoldFunctionOnSet, B!MapThenFoldSet,
           SumOf, SumFunctionOnSet, FoldFunctionOnSet, MapThenFoldSet
<1> QED BY <1>1, <1>2

LEMMA ProvidersFinite == IsFiniteSet(Providers)
<1>1. Order \in Seq(Providers) /\ Providers = {Order[i] : i \in DOMAIN Order}
    BY ProviderTablesAssumption DEF Providers, L!Providers
<1> HIDE DEF Providers
<1>2. Len(Order) \in Nat /\ DOMAIN Order = 1 .. Len(Order)
    BY <1>1, LenProperties
<1>3. Order \in [DOMAIN Order -> Providers]
    BY <1>1, <1>2, ElementOfSeq
<1>4. IsFiniteSet(DOMAIN Order)
    BY <1>2, FS_Interval
<1>5. Order \in Surjection(DOMAIN Order, Providers)
    BY <1>1, <1>3 DEF Surjection
<1> QED BY <1>4, <1>5, FS_Surjection

-----------------------------------------------------------------------------
(* Of the rows that share a key deduplication leaves one.                  *)

\* Among some numbers there is a smallest.
LEMMA SmallestNumber ==
    ASSUME NEW T \in SUBSET Nat, T # {}
    PROVE  \E n \in T : \A m \in T : n <= m
<1> DEFINE less == {pair \in Nat \X Nat : pair[1] < pair[2]}
<1>1. IsWellFoundedOn(less, Nat)
    BY NatLessThanWellFounded, Zenon DEF OpToRel
<1>2. PICK n \in T : \A m \in T : <<m, n>> \notin less
  <2> HIDE DEF less
  <2> QED BY <1>1, WFMin
<1>3. \A m \in T : ~ (m < n)
    BY <1>2
<1> QED BY <1>3

\* Among some rows there is one that a scan meets first.
LEMMA FirstRow ==
    ASSUME NEW S \in SUBSET Rows, S # {}
    PROVE  \E first \in S : \A row \in S : Place[first] <= Place[row]
<1> DEFINE places == {Place[row] : row \in S}
<1>1. places \in SUBSET Nat /\ places # {}
  <2>1. \A row \in S : Place[row] \in Nat
      BY ProviderTablesAssumption
  <2>2. PICK row \in S : TRUE
      OBVIOUS
  <2>3. Place[row] \in places
      BY <2>2
  <2>4. places \subseteq Nat
      BY <2>1
  <2> QED BY <2>3, <2>4
<1>2. PICK n \in places : \A m \in places : n <= m
  <2> HIDE DEF places
  <2> QED BY <1>1, SmallestNumber
<1> QED BY <1>2

\* A row that a scan takes for a repetition has one with its key that it does
\* not take for one.
LEMMA RepeatedHasFirst ==
    ASSUME NEW read \in SUBSET Rows, NEW row \in D!Repeated(read)
    PROVE  \E first \in read \ D!Repeated(read) : KeyOf[first] = KeyOf[row]
<1> DEFINE same == {other \in read : KeyOf[other] = KeyOf[row]}
<1>1. row \in same /\ same \in SUBSET Rows
    BY DEF D!Repeated
<1>2. PICK first \in same : \A other \in same : Place[first] <= Place[other]
  <2> HIDE DEF same
  <2> QED BY <1>1, FirstRow
<1>3. \A other \in Rows : Place[other] \in Nat
    BY ProviderTablesAssumption
<1>4. \A other \in read : KeyOf[other] = KeyOf[first] => ~ (Place[other] < Place[first])
    BY <1>2, <1>3
<1>5. first \notin D!Repeated(read)
    BY <1>4 DEF D!Repeated
<1> QED BY <1>2, <1>5

\* What is to be deleted leaves of each key a row.
Spares(table, doomed) ==
    /\ table \subseteq Rows /\ doomed \subseteq table
    /\ \A row \in doomed : \E kept \in table \ doomed : KeyOf[kept] = KeyOf[row]

DedupInv == Spares(legacy, toDelete)

LEMMA ScanSpares ==
    ASSUME NEW table \in SUBSET Rows, NEW read \in SUBSET table
    PROVE  Spares(table, D!Repeated(read))
<1>1. \A row \in D!Repeated(read) : \E first \in read \ D!Repeated(read) : KeyOf[first] = KeyOf[row]
    BY RepeatedHasFirst
<1> QED BY <1>1 DEF Spares, D!Repeated

\* A deletion that is done or fails.
LEMMA DeleteSpares ==
    ASSUME NEW table, NEW doomed, Spares(table, doomed), NEW row \in doomed
    PROVE  /\ Spares(table \ {row}, doomed \ {row}) /\ Spares(table, doomed \ {row})
           /\ D!KeysIn(table \ {row}) = D!KeysIn(table)
<1>1. PICK kept \in table \ doomed : KeyOf[kept] = KeyOf[row]
    BY DEF Spares
<1>2. D!KeysIn(table \ {row}) = D!KeysIn(table)
    BY <1>1 DEF D!KeysIn
<1> QED BY <1>2 DEF Spares

\* Rows only get fewer, of each key one stays, and what is to be deleted can be.
LEMMA DedupStepInv ==
    DedupInv /\ [Next]_vars =>
        DedupInv' /\ legacy' \subseteq legacy /\ D!KeysIn(legacy') = D!KeysIn(legacy)
<1> SUFFICES ASSUME DedupInv, [Next]_vars
             PROVE  DedupInv' /\ legacy' \subseteq legacy /\ D!KeysIn(legacy') = D!KeysIn(legacy)
    OBVIOUS
<1>1. ASSUME legacy' = legacy, toDelete' = toDelete
      PROVE  DedupInv' /\ legacy' \subseteq legacy /\ D!KeysIn(legacy') = D!KeysIn(legacy)
    BY <1>1 DEF DedupInv
<1>2. CASE BackfillMoves
    BY <1>1, <1>2 DEF BackfillMoves, B!BackfillStep, request
<1>3. CASE ListsMove
    BY <1>1, <1>3 DEF ListsMove, request
<1>4. CASE DedupMoves
  <2>1. CASE D!ScanLegacy
    <3>1. legacy' = legacy /\ \E read \in SUBSET legacy : toDelete' = D!Repeated(read)
        BY <2>1 DEF D!ScanLegacy
    <3>2. legacy \in SUBSET Rows
        BY DEF DedupInv, Spares
    <3>3. \A read \in SUBSET legacy : Spares(legacy, D!Repeated(read))
        BY <3>2, ScanSpares
    <3> QED BY <3>1, <3>3 DEF DedupInv
  <2>2. ASSUME NEW row \in toDelete, D!Delete(row)
        PROVE  DedupInv' /\ legacy' \subseteq legacy /\ D!KeysIn(legacy') = D!KeysIn(legacy)
    <3>1. toDelete' = toDelete \ {row} /\ legacy' \in {legacy, legacy \ {row}}
        BY <2>2 DEF D!Delete
    <3>2. /\ Spares(legacy \ {row}, toDelete \ {row}) /\ Spares(legacy, toDelete \ {row})
          /\ D!KeysIn(legacy \ {row}) = D!KeysIn(legacy)
        BY <2>2, DeleteSpares DEF DedupInv
    <3> QED BY <3>1, <3>2 DEF DedupInv
  <2>3. CASE D!CleanSharded
      BY <1>1, <2>3 DEF D!CleanSharded
  <2>4. CASE D!Respond
      BY <1>1, <2>4 DEF D!Respond
  <2>5. ASSUME NEW k \in ListKeys, D!Invalidate(k)
        PROVE  DedupInv' /\ legacy' \subseteq legacy /\ D!KeysIn(legacy') = D!KeysIn(legacy)
      BY <1>1, <2>5 DEF D!Invalidate
  <2> QED BY <1>4, <2>1, <2>2, <2>3, <2>4, <2>5 DEF DedupMoves, D!DedupStep
<1>5. CASE UNCHANGED vars
    BY <1>1, <1>5 DEF vars, request
<1> QED BY <1>2, <1>3, <1>4, <1>5 DEF Next

\* Of the rows that share a key deduplication leaves one, whichever they are
\* and whichever scans and deletions fail, and nobody else deletes any: what is
\* to be deleted always has a row of its key that is not.
THEOREM KeysKeptCorrect == Spec => KeysKept
<1>1. Init => DedupInv
    BY DEF Init, D!InitDedup, DedupInv, Spares
<1>2. DedupInv /\ [Next]_vars => DedupInv' /\ [D!KeysIn(legacy') = D!KeysIn(legacy)]_legacy
    BY DedupStepInv
<1> QED BY <1>1, <1>2, PTL DEF Spec, KeysKept, D!KeysKept

-----------------------------------------------------------------------------
(* What a backfill counts.                                                 *)

\* The rows a scan found to be of provider p, and the counts of them.
RowsBy(f, p) == {row \in DOMAIN f : f[row] = p}
Scanned(f) ==
    f \in [Rows -> Providers] /\ \A row \in Rows : f[row] \in ProvidersOf[row[1]]
StatsOf(f, p)    == Cardinality(RowsBy(f, p))
NSCountOf(f, p)  == Cardinality({row[1] : row \in RowsBy(f, p)})
PairsOf(f, p, n) == Cardinality({row \in RowsBy(f, p) : row[1] = n})

\* A row is one of a nameserver.
LEMMA NamesOfRows == \A row \in Rows : row[1] \in NameServers
<1>1. \A row \in Rows : row \in NameServers \X {other[2] : other \in Rows}
    BY ProviderTablesAssumption
<1> QED BY <1>1

\* They can be counted, and are nothing where there is no row.
LEMMA CountTypes ==
    ASSUME NEW f, Scanned(f), NEW p
    PROVE  /\ RowsBy(f, p) \subseteq Rows /\ IsFiniteSet(RowsBy(f, p))
           /\ StatsOf(f, p) \in Nat /\ NSCountOf(f, p) \in Nat
           /\ RowsBy(f, p) = {} => StatsOf(f, p) = 0 /\ NSCountOf(f, p) = 0
           /\ \A n : /\ PairsOf(f, p, n) \in Nat
                     /\ PairsOf(f, p, n) = 0 <=> {row \in RowsBy(f, p) : row[1] = n} = {}
<1>1. RowsBy(f, p) \subseteq Rows
    BY DEF RowsBy, Scanned
<1>2. IsFiniteSet(RowsBy(f, p))
    BY <1>1, ProviderTablesAssumption, FS_Subset
<1>3. IsFiniteSet({row[1] : row \in RowsBy(f, p)})
  <2>1. {row[1] : row \in RowsBy(f, p)} \subseteq NameServers
      BY <1>1, NamesOfRows
  <2> QED BY <2>1, ProviderTablesAssumption, FS_Subset
<1>4. \A n : IsFiniteSet({row \in RowsBy(f, p) : row[1] = n})
    BY <1>2, FS_Subset
<1>5. StatsOf(f, p) \in Nat /\ NSCountOf(f, p) \in Nat
    BY <1>2, <1>3, FS_CardinalityType DEF StatsOf, NSCountOf
<1>6. RowsBy(f, p) = {} => StatsOf(f, p) = 0 /\ NSCountOf(f, p) = 0
  <2>1. RowsBy(f, p) = {} => {row[1] : row \in RowsBy(f, p)} = {}
      OBVIOUS
  <2> QED BY <2>1, FS_EmptySet DEF StatsOf, NSCountOf
<1>7. \A n : /\ PairsOf(f, p, n) \in Nat
             /\ PairsOf(f, p, n) = 0 <=> {row \in RowsBy(f, p) : row[1] = n} = {}
    BY <1>4, FS_CardinalityType, FS_EmptySet DEF PairsOf
<1> QED BY <1>1, <1>2, <1>5, <1>6, <1>7

\* Summed up over the providers the pairs are the rows of a nameserver...
LEMMA PairsByNameserver ==
    ASSUME NEW f, Scanned(f), NEW n \in NameServers
    PROVE  SumOf([p \in Providers |-> PairsOf(f, p, n)], Providers)
             = Cardinality({row \in Rows : row[1] = n})
<1> DEFINE I == {row \in Rows : row[1] = n}
           byProvider == [p \in Providers |-> Cardinality({row \in I : f[row] = p})]
<1>1. IsFiniteSet(I) /\ IsFiniteSet(Providers) /\ \A row \in I : f[row] \in Providers
    BY ProviderTablesAssumption, FS_Subset, ProvidersFinite DEF Scanned
<1>2. \A p : {row \in I : f[row] = p} = {row \in RowsBy(f, p) : row[1] = n}
    BY DEF RowsBy, Scanned
<1>3. byProvider = [p \in Providers |-> PairsOf(f, p, n)]
    BY <1>2 DEF PairsOf
<1> HIDE DEF I
<1>4. SumOf(byProvider, Providers) = Cardinality(I)
    BY <1>1, SumOfCounts
<1> HIDE DEF byProvider
<1> QED BY <1>3, <1>4 DEF I

\* ... and over the nameservers those of a provider.
LEMMA PairsByProvider ==
    ASSUME NEW f, Scanned(f), NEW p \in Providers
    PROVE  SumOf([n \in NameServers |-> PairsOf(f, p, n)], NameServers) = StatsOf(f, p)
<1> DEFINE I == RowsBy(f, p)
           key == [row \in I |-> row[1]]
           byName == [n \in NameServers |-> Cardinality({row \in I : key[row] = n})]
<1>1. IsFiniteSet(I) /\ IsFiniteSet(NameServers) /\ \A row \in I : key[row] \in NameServers
    BY CountTypes, NamesOfRows, ProviderTablesAssumption
<1>2. \A n : {row \in I : key[row] = n} = {row \in I : row[1] = n}
    OBVIOUS
<1>3. byName = [n \in NameServers |-> PairsOf(f, p, n)]
    BY <1>2 DEF PairsOf
<1> HIDE DEF I, key
<1>4. SumOf(byName, NameServers) = Cardinality(I)
    BY <1>1, SumOfCounts
<1> HIDE DEF byName
<1> QED BY <1>3, <1>4 DEF I, StatsOf

\* A provider has as many nameservers as it has pairs with rows, and is one of
\* those its nameservers may belong to.
LEMMA PairsAndNames ==
    ASSUME NEW f, Scanned(f), NEW p
    PROVE  /\ NSCountOf(f, p) = Cardinality({n \in NameServers : PairsOf(f, p, n) > 0})
           /\ \A n : PairsOf(f, p, n) > 0 => p \in ProvidersOf[n]
<1>1. \A n : PairsOf(f, p, n) > 0 <=> \E row \in RowsBy(f, p) : row[1] = n
    BY CountTypes
<1>2. {row[1] : row \in RowsBy(f, p)} \subseteq NameServers
    BY CountTypes, NamesOfRows
<1>3. {row[1] : row \in RowsBy(f, p)} = {n \in NameServers : PairsOf(f, p, n) > 0}
    BY <1>1, <1>2
<1>4. \A n : PairsOf(f, p, n) > 0 => p \in ProvidersOf[n]
    BY <1>1, CountTypes DEF RowsBy, Scanned
<1> QED BY <1>3, <1>4 DEF NSCountOf

-----------------------------------------------------------------------------
(* A backfill that completes.                                              *)

\* What the model counts is what is counted here.
LEMMA SameCounts ==
    /\ \A p : B!RowsOf(p) = RowsBy(providerOf, p)
    /\ \A p : B!Cardinality(B!RowsOf(p)) = StatsOf(providerOf, p)
    /\ \A p : B!Cardinality({row[1] : row \in B!RowsOf(p)}) = NSCountOf(providerOf, p)
    /\ \A p, n : B!Cardinality(B!PairRows(p, n)) = PairsOf(providerOf, p, n)
BY SameBackfill DEF B!RowsOf, B!PairRows, RowsBy, StatsOf, NSCountOf, PairsOf

\* What is written, of both columns of provider_stats and of provider_ns: all
\* but the rows that are left, which are not there.
StatsBut(left) ==
    \A p \in Providers :
        /\ stats[p] = IF p \in left THEN 0 ELSE StatsOf(providerOf, p)
        /\ nsCounts[p] = IF p \in left THEN 0 ELSE NSCountOf(providerOf, p)
PairsBut(left) ==
    \A p \in Providers, n \in NameServers :
        perNS[p][n] = IF <<p, n>> \in left THEN 0 ELSE PairsOf(providerOf, p, n)

NoStats == \A p \in Providers : stats[p] = 0 /\ nsCounts[p] = 0
NoPairs == \A p \in Providers, n \in NameServers : perNS[p][n] = 0

TablesTyped ==
    /\ stats \in [Providers -> Nat] /\ nsCounts \in [Providers -> Nat]
    /\ perNS \in [Providers -> [NameServers -> Nat]]
    /\ backfill \in {"off", "statsCleared", "cleared", "stats", "pairs", "done"}

\* Nothing was deleted of the rows.
Untouched == legacy = Rows

\* Between its steps a backfill has cleared what it did not write yet, and has
\* written what its scan counted: nobody else writes these tables.
Progress ==
    /\ backfill \in {"statsCleared", "cleared"} => NoStats
    /\ backfill \in {"cleared", "stats"} => NoPairs
    /\ backfill \in {"stats", "pairs"} => Scanned(providerOf)
    /\ backfill = "stats" => StatsBut(rowsLeft)
    /\ backfill = "pairs" => StatsBut({}) /\ PairsBut(rowsLeft)
    /\ BackfillComplete

BackfillInv == Untouched /\ TablesTyped /\ Progress

LEMMA BackfillInit == Init => BackfillInv
<1> SUFFICES ASSUME Init PROVE BackfillInv
    OBVIOUS
<1>1. \A p \in Providers : B!Cardinality({n \in NameServers : LeftNS[p][n] > 0}) \in Nat
    BY ProviderTablesAssumption, SameBackfill, FS_Subset, FS_CardinalityType
<1>2. TablesTyped
    BY <1>1, ProviderTablesAssumption DEF Init, B!InitBackfill, TablesTyped, Providers
<1>3. Progress
    BY DEF Init, B!InitBackfill, Progress, BackfillComplete, B!BackfillComplete
<1> QED BY <1>2, <1>3 DEF BackfillInv, Untouched, Init

\* A batch writes what was counted of its rows, and counts are numbers.
LEMMA PutEffect ==
    ASSUME BackfillInv, backfill \in {"stats", "pairs"}, NEW batch, B!Put(batch)
    PROVE  /\ stats' \in [Providers -> Nat] /\ nsCounts' \in [Providers -> Nat]
           /\ perNS' \in [Providers -> [NameServers -> Nat]]
           /\ backfill = "stats" =>
                /\ \A p \in Providers :
                     /\ stats'[p] = IF p \in batch THEN StatsOf(providerOf, p) ELSE stats[p]
                     /\ nsCounts'[p] = IF p \in batch THEN NSCountOf(providerOf, p) ELSE nsCounts[p]
                /\ perNS' = perNS
           /\ backfill = "pairs" =>
                /\ \A p \in Providers, n \in NameServers :
                     perNS'[p][n] = IF <<p, n>> \in batch THEN PairsOf(providerOf, p, n)
                                                           ELSE perNS[p][n]
                /\ stats' = stats /\ nsCounts' = nsCounts
<1>1. /\ \A p : StatsOf(providerOf, p) \in Nat /\ NSCountOf(providerOf, p) \in Nat
      /\ \A p, n : PairsOf(providerOf, p, n) \in Nat
    BY CountTypes DEF BackfillInv, Progress
<1>2. CASE backfill = "stats"
  <2>1. /\ stats' = [p \in Providers |-> IF p \in batch THEN StatsOf(providerOf, p) ELSE stats[p]]
        /\ nsCounts' = [p \in Providers |-> IF p \in batch THEN NSCountOf(providerOf, p) ELSE nsCounts[p]]
        /\ perNS' = perNS
      BY <1>2, SameCounts DEF B!Put, Providers
  <2> QED BY <1>1, <1>2, <2>1 DEF BackfillInv, TablesTyped
<1>3. CASE backfill = "pairs"
  <2>1. /\ perNS' = [p \in Providers |-> [n \in NameServers |->
                        IF <<p, n>> \in batch THEN PairsOf(providerOf, p, n) ELSE perNS[p][n]]]
        /\ stats' = stats /\ nsCounts' = nsCounts
      BY <1>3, SameCounts DEF B!Put, Providers
  <2> QED BY <1>1, <1>3, <2>1 DEF BackfillInv, TablesTyped
<1> QED BY <1>2, <1>3

\* Then the tables say what reverse_ns says.
Agree ==
    /\ \A n \in NameServers :
          B!SumFunction([p \in Providers |-> perNS[p][n]])
            = B!Cardinality({row \in legacy : row[1] = n})
    /\ \A p \in Providers, n \in NameServers : perNS[p][n] > 0 => p \in ProvidersOf[n]
    /\ \A p \in Providers :
          /\ stats[p] = B!SumFunction(perNS[p])
          /\ nsCounts[p] = B!Cardinality({n \in NameServers : perNS[p][n] > 0})

LEMMA CompleteIsAgree == Untouched => (BackfillComplete <=> (backfill = "done" => Agree))
BY DEF Untouched, BackfillComplete, B!BackfillComplete, Agree, Providers

LEMMA WrittenAgree ==
    ASSUME Untouched, TablesTyped, Scanned(providerOf), StatsBut({}), PairsBut({})
    PROVE  Agree
<1>1. \A p \in Providers : stats[p] = StatsOf(providerOf, p) /\ nsCounts[p] = NSCountOf(providerOf, p)
    BY DEF StatsBut
<1>2. \A p \in Providers, n \in NameServers : perNS[p][n] = PairsOf(providerOf, p, n)
    BY DEF PairsBut
<1>3. ASSUME NEW n \in NameServers
      PROVE  B!SumFunction([p \in Providers |-> perNS[p][n]])
               = B!Cardinality({row \in legacy : row[1] = n})
  <2> DEFINE column == [p \in Providers |-> PairsOf(providerOf, p, n)]
  <2>1. [p \in Providers |-> perNS[p][n]] = column
      BY <1>2
  <2>2. DOMAIN column = Providers /\ SumOf(column, Providers) = Cardinality({row \in Rows : row[1] = n})
      BY PairsByNameserver
  <2> HIDE DEF column
  <2>3. B!SumFunction(column) = SumOf(column, DOMAIN column)
      BY SameBackfill
  <2>4. B!Cardinality({row \in legacy : row[1] = n}) = Cardinality({row \in Rows : row[1] = n})
      BY SameBackfill DEF Untouched
  <2> QED BY <2>1, <2>2, <2>3, <2>4
<1>4. ASSUME NEW p \in Providers
      PROVE  /\ stats[p] = B!SumFunction(perNS[p])
             /\ nsCounts[p] = B!Cardinality({n \in NameServers : perNS[p][n] > 0})
  <2> DEFINE row == [n \in NameServers |-> PairsOf(providerOf, p, n)]
  <2>1. perNS[p] = row
      BY <1>2 DEF TablesTyped
  <2>2. DOMAIN row = NameServers /\ SumOf(row, NameServers) = StatsOf(providerOf, p)
      BY PairsByProvider
  <2>3. {n \in NameServers : perNS[p][n] > 0} = {n \in NameServers : PairsOf(providerOf, p, n) > 0}
      BY <1>2
  <2> HIDE DEF row
  <2>4. B!SumFunction(row) = SumOf(row, DOMAIN row)
      BY SameBackfill
  <2>5. nsCounts[p] = B!Cardinality({n \in NameServers : perNS[p][n] > 0})
      BY <1>1, <2>3, PairsAndNames, SameBackfill
  <2> QED BY <1>1, <2>1, <2>2, <2>4, <2>5
<1>5. \A p \in Providers, n \in NameServers : perNS[p][n] > 0 => p \in ProvidersOf[n]
    BY <1>2, PairsAndNames
<1> QED BY <1>3, <1>4, <1>5 DEF Agree

LEMMA BackfillStepInv == BackfillInv /\ [Next]_vars /\ Untouched' => BackfillInv'
<1> SUFFICES ASSUME BackfillInv, [Next]_vars, Untouched' PROVE BackfillInv'
    OBVIOUS
<1>1. Untouched'
    OBVIOUS
<1>2. SUFFICES TablesTyped' /\ Progress'
    BY <1>1 DEF BackfillInv
<1>3. ASSUME UNCHANGED <<stats, nsCounts, perNS, backfill, providerOf, rowsLeft>>
      PROVE  TablesTyped' /\ Progress'
  <2>1. TablesTyped'
      BY <1>3 DEF BackfillInv, TablesTyped
  <2>2. BackfillComplete'
      BY <1>1, <1>3, CompleteIsAgree DEF BackfillInv, Progress, Untouched, BackfillComplete,
                                         B!BackfillComplete
  <2>3. /\ NoStats => NoStats'
        /\ NoPairs => NoPairs'
        /\ StatsBut(rowsLeft) => StatsBut(rowsLeft)'
        /\ StatsBut({}) /\ PairsBut(rowsLeft) => StatsBut({})' /\ PairsBut(rowsLeft)'
      BY <1>3 DEF NoStats, NoPairs, StatsBut, PairsBut
  <2> QED BY <1>3, <2>1, <2>2, <2>3 DEF BackfillInv, Progress
<1>4. CASE B!TruncateStats /\ UNCHANGED legacy
  <2>1. /\ backfill = "off" /\ backfill' = "statsCleared" /\ perNS' = perNS
        /\ stats' = [p \in Providers |-> 0] /\ nsCounts' = [p \in Providers |-> 0]
      BY <1>4 DEF B!TruncateStats, Providers
  <2>2. TablesTyped' /\ NoStats'
      BY <2>1 DEF BackfillInv, TablesTyped, NoStats
  <2> QED BY <2>1, <2>2 DEF Progress, BackfillComplete, B!BackfillComplete
<1>5. CASE B!TruncateNS /\ UNCHANGED legacy
  <2>1. /\ backfill = "statsCleared" /\ backfill' = "cleared"
        /\ stats' = stats /\ nsCounts' = nsCounts
        /\ perNS' = [p \in Providers |-> [n \in NameServers |-> 0]]
      BY <1>5 DEF B!TruncateNS, Providers
  <2>2. TablesTyped' /\ NoStats' /\ NoPairs'
      BY <2>1 DEF BackfillInv, TablesTyped, NoStats, NoPairs, Progress
  <2> QED BY <2>1, <2>2 DEF Progress, BackfillComplete, B!BackfillComplete
<1>6. CASE B!Scan /\ UNCHANGED legacy
  <2>1. /\ backfill = "cleared" /\ backfill' = "stats"
        /\ stats' = stats /\ nsCounts' = nsCounts /\ perNS' = perNS
        /\ providerOf' \in [Rows -> Providers]
        /\ \A row \in Rows : providerOf'[row] \in ProvidersOf[row[1]]
        /\ rowsLeft' = (B!Found)'
      BY <1>6 DEF B!Scan, B!aggregates, Providers, BackfillInv, Untouched
  <2>2. Scanned(providerOf')
      BY <2>1 DEF Scanned
  <2>3. rowsLeft' = {p \in Providers : RowsBy(providerOf', p) # {}}
      BY <2>1 DEF B!Found, B!RowsOf, RowsBy, Providers
  <2>4. NoStats /\ NoPairs
      BY <2>1 DEF BackfillInv, Progress
  <2>5. \A p \in Providers :
            RowsBy(providerOf', p) = {} => StatsOf(providerOf', p) = 0 /\ NSCountOf(providerOf', p) = 0
      BY <2>2, CountTypes
  <2>6. StatsBut(rowsLeft)'
      BY <2>1, <2>3, <2>4, <2>5 DEF StatsBut, NoStats
  <2>7. TablesTyped' /\ NoPairs'
      BY <2>1, <2>4 DEF BackfillInv, TablesTyped, NoPairs
  <2> QED BY <2>1, <2>2, <2>6, <2>7 DEF Progress, BackfillComplete, B!BackfillComplete
<1>7. CASE B!Write /\ UNCHANGED legacy
  <2>1. /\ backfill \in {"stats", "pairs"} /\ backfill' = backfill
        /\ providerOf' = providerOf
      BY <1>7 DEF B!Write, B!Writing
  <2>2. PICK batch \in SUBSET rowsLeft : B!Put(batch) /\ rowsLeft' = rowsLeft \ batch
      BY <1>7 DEF B!Write
  <2>3. TablesTyped'
      BY <2>1, <2>2, PutEffect DEF BackfillInv, TablesTyped
  <2>4. CASE backfill = "stats"
    <3>1. /\ \A p \in Providers :
               /\ stats'[p] = IF p \in batch THEN StatsOf(providerOf, p) ELSE stats[p]
               /\ nsCounts'[p] = IF p \in batch THEN NSCountOf(providerOf, p) ELSE nsCounts[p]
          /\ perNS' = perNS
        BY <2>1, <2>2, <2>4, PutEffect
    <3>2. StatsBut(rowsLeft) /\ NoPairs /\ Scanned(providerOf)
        BY <2>4 DEF BackfillInv, Progress
    <3>3. StatsBut(rowsLeft)'
        BY <2>1, <2>2, <3>1, <3>2 DEF StatsBut
    <3>4. NoPairs'
        BY <3>1, <3>2 DEF NoPairs
    <3> QED BY <2>1, <2>3, <2>4, <3>2, <3>3, <3>4 DEF Progress, BackfillComplete, B!BackfillComplete
  <2>5. CASE backfill = "pairs"
    <3>1. /\ \A p \in Providers, n \in NameServers :
               perNS'[p][n] = IF <<p, n>> \in batch THEN PairsOf(providerOf, p, n) ELSE perNS[p][n]
          /\ stats' = stats /\ nsCounts' = nsCounts
        BY <2>1, <2>2, <2>5, PutEffect
    <3>2. StatsBut({}) /\ PairsBut(rowsLeft) /\ Scanned(providerOf)
        BY <2>5 DEF BackfillInv, Progress
    <3>3. StatsBut({})'
        BY <2>1, <3>1, <3>2 DEF StatsBut
    <3>4. PairsBut(rowsLeft)'
        BY <2>1, <2>2, <3>1, <3>2 DEF PairsBut
    <3> QED BY <2>1, <2>3, <2>5, <3>2, <3>3, <3>4 DEF Progress, BackfillComplete, B!BackfillComplete
  <2> QED BY <2>1, <2>4, <2>5
<1>8. CASE B!NextTable /\ UNCHANGED legacy
  <2>1. /\ backfill = "stats" /\ rowsLeft = {} /\ backfill' = "pairs"
        /\ providerOf' = providerOf
        /\ stats' = stats /\ nsCounts' = nsCounts /\ perNS' = perNS
        /\ rowsLeft' = B!FoundPairs
      BY <1>8 DEF B!NextTable, B!aggregates
  <2>2. StatsBut({}) /\ NoPairs /\ Scanned(providerOf)
      BY <2>1 DEF BackfillInv, Progress
  <2>3. \A p \in Providers, n \in NameServers :
            <<p, n>> \notin rowsLeft' => PairsOf(providerOf, p, n) = 0
    <3>1. rowsLeft' = {pair \in Providers \X NameServers :
                          {row \in RowsBy(providerOf, pair[1]) : row[1] = pair[2]} # {}}
        BY <2>1 DEF B!FoundPairs, B!PairRows, B!RowsOf, RowsBy, Providers
    <3>2. \A p \in Providers, n \in NameServers :
              <<p, n>> \notin rowsLeft' => {row \in RowsBy(providerOf, p) : row[1] = n} = {}
        BY <3>1
    <3> QED BY <2>2, <3>2, CountTypes
  <2>4. StatsBut({})' /\ PairsBut(rowsLeft)'
      BY <2>1, <2>2, <2>3 DEF StatsBut, PairsBut, NoPairs
  <2>5. TablesTyped'
      BY <2>1 DEF BackfillInv, TablesTyped
  <2> QED BY <2>1, <2>2, <2>4, <2>5 DEF Progress, BackfillComplete, B!BackfillComplete
<1>9. CASE B!Complete /\ UNCHANGED legacy
  <2>1. /\ backfill = "pairs" /\ rowsLeft = {} /\ backfill' = "done"
        /\ stats' = stats /\ nsCounts' = nsCounts /\ perNS' = perNS
      BY <1>9 DEF B!Complete, B!aggregates
  <2>2. Scanned(providerOf) /\ StatsBut({}) /\ PairsBut({})
      BY <2>1 DEF BackfillInv, Progress
  <2>3. Agree
      BY <2>2, WrittenAgree DEF BackfillInv
  <2>4. Agree'
      BY <1>9, <2>1, <2>3 DEF Agree
  <2>5. BackfillComplete'
      BY <2>4 DEF BackfillComplete, B!BackfillComplete, Agree, Providers
  <2>6. TablesTyped'
      BY <2>1 DEF BackfillInv, TablesTyped
  <2> QED BY <2>1, <2>5, <2>6 DEF Progress
<1>10. CASE B!Dies /\ UNCHANGED legacy
  <2>1. backfill' = "off"
      BY <1>10 DEF B!Dies
  <2>2. TablesTyped'
    <3>1. CASE backfill \in {"stats", "pairs"} /\ rowsLeft # {}
      <4>1. PICK batch \in SUBSET rowsLeft : B!Put(batch)
          BY <1>10, <3>1 DEF B!Dies, B!Writing
      <4> QED BY <2>1, <3>1, <4>1, PutEffect DEF TablesTyped
    <3>2. CASE ~(backfill \in {"stats", "pairs"} /\ rowsLeft # {})
      <4>1. stats' = stats /\ nsCounts' = nsCounts /\ perNS' = perNS
          BY <1>10, <3>2 DEF B!Dies, B!Writing, B!aggregates
      <4> QED BY <2>1, <4>1 DEF BackfillInv, TablesTyped
    <3> QED BY <3>1, <3>2
  <2> QED BY <2>1, <2>2 DEF Progress, BackfillComplete, B!BackfillComplete
<1>11. CASE BackfillMoves
    BY <1>4, <1>5, <1>6, <1>7, <1>8, <1>9, <1>10, <1>11 DEF BackfillMoves, B!BackfillStep
<1>12. CASE ListsMove
    BY <1>3, <1>12 DEF ListsMove, L!ListsStep, process
<1>13. CASE DedupMoves
    BY <1>3, <1>13 DEF DedupMoves, process
<1>14. CASE UNCHANGED vars
    BY <1>3, <1>14 DEF vars, process
<1> QED BY <1>11, <1>12, <1>13, <1>14 DEF Next

\* A backfill that completes leaves in both tables what reverse_ns says,
\* whatever runs died half-way before it, however its rows fell into batches,
\* and while handlers read the tables and scans for duplicates run, as long as
\* no row was deleted.  A row that was is never put back, so that the rows were
\* all there at each step before, if they are now.
THEOREM BackfillCorrect == Spec => []BackfillComplete
<1> DEFINE Inv == DedupInv /\ (Untouched => BackfillInv)
<1>1. Init => Inv
    BY BackfillInit DEF Init, D!InitDedup, DedupInv, Spares
<1>2. Inv /\ [Next]_vars => Inv'
  <2> SUFFICES ASSUME Inv, [Next]_vars PROVE Inv'
      OBVIOUS
  <2>1. DedupInv' /\ legacy' \subseteq legacy /\ legacy \subseteq Rows
      BY DedupStepInv DEF DedupInv, Spares
  <2>2. Untouched' => Untouched
      BY <2>1 DEF Untouched
  <2> QED BY <2>1, <2>2, BackfillStepInv
<1>3. Inv => BackfillComplete
    BY DEF BackfillInv, Progress, Untouched, BackfillComplete
<1> QED BY <1>1, <1>2, <1>3, PTL DEF Spec

-----------------------------------------------------------------------------
(* The search for the domains of a provider, which asks reverse_ns_sharded *)
(* too and caches its answer in the same Redis.                            *)

\* The rows of nameservers, in given contents of the sharded table.
RowsIn(table, n) == IF Old[n] # {} THEN Old[n] ELSE table[n]
Unread(table, ns) == UNION {RowsIn(table, n) : n \in ns}
NamesIn(pairs) == {p[1] : p \in pairs}

Answers == [domains : SUBSET (Domains \X Servers), total : Nat,
            limit : Limits \cup {0}, had : SUBSET Domains]

\* What is assumed of the constants.
LEMMA SearchConstants ==
    /\ IsFiniteSet(Servers) /\ IsFiniteSet(Domains)
    /\ Old \in [Servers -> SUBSET Domains] /\ First \in [Servers -> SUBSET Domains]
    /\ Known \subseteq Servers /\ Limits \subseteq Nat \ {0}
    /\ TTL \in Nat \ {0} /\ MaxErrors \in Nat /\ NoAnswer \notin Answers
    /\ IsFiniteSet(Domains \X Servers)
<1>1. IsFiniteSet(Servers) /\ IsFiniteSet(Domains)
    BY SearchAssumption
<1>2. IsFiniteSet(Domains \X Servers)
    BY <1>1, FS_Product
<1> QED BY <1>1, <1>2, SearchAssumption DEF Answers

\* Rows are domains, and only get more.
LEMMA RowsFacts ==
    ASSUME NEW table \in [Servers -> SUBSET Domains],
           NEW ns \in SUBSET Servers
    PROVE  /\ \A n \in ns : RowsIn(table, n) \subseteq Domains /\ IsFiniteSet(RowsIn(table, n))
           /\ Unread(table, ns) \subseteq Domains /\ IsFiniteSet(Unread(table, ns))
           /\ \A more : (\A n \in Servers : table[n] \subseteq more[n])
                           => Unread(table, ns) \subseteq Unread(more, ns)
<1>1. \A n \in ns : RowsIn(table, n) \subseteq Domains
    BY SearchConstants DEF RowsIn
<1>2. Unread(table, ns) \subseteq Domains
    BY <1>1 DEF Unread
<1>3. IsFiniteSet(Unread(table, ns)) /\ \A n \in ns : IsFiniteSet(RowsIn(table, n))
    BY <1>1, <1>2, SearchConstants, FS_Subset
<1>4. ASSUME NEW more, \A n \in Servers : table[n] \subseteq more[n]
      PROVE  Unread(table, ns) \subseteq Unread(more, ns)
  <2>1. \A n \in ns : RowsIn(table, n) \subseteq RowsIn(more, n)
      BY <1>4 DEF RowsIn
  <2> QED BY <2>1 DEF Unread
<1> QED BY <1>1, <1>2, <1>3, <1>4

\* A count of the domains of some nameservers, each for itself, is a number and
\* no less than there are, and so is what an error may leave of it.
LEMMA CountFacts ==
    ASSUME shardedRows \in [Servers -> SUBSET Domains],
           NEW ns \in SUBSET Servers
    PROVE  /\ Count(ns) \in Nat /\ Most(ns) \in Nat
           /\ Cardinality(Unread(shardedRows, ns)) <= Count(ns)
<1> DEFINE c == [n \in Servers |-> Cardinality(RowsIn(shardedRows, n))]
           m == [n \in Servers |-> Cardinality(Old[n] \cup shardedRows[n])]
           F == [n \in ns |-> RowsIn(shardedRows, n)]
<1>1. /\ \A n \in Servers : Cardinality(RowsOf(n)) = Cardinality(RowsIn(shardedRows, n))
      /\ \A n \in Servers : Cardinality(Either(n)) = Cardinality(Old[n] \cup shardedRows[n])
    BY DEF RowsOf, RowsIn, Either
<1>2. Count(ns) = SumOf(c, ns) /\ Most(ns) = SumOf(m, ns)
    BY <1>1 DEF Count, Most, SumOf
<1>3. \A n \in ns : IsFiniteSet(F[n]) /\ c[n] = Cardinality(F[n]) /\ c[n] \in Nat
    BY RowsFacts, FS_CardinalityType
<1>4. \A n \in ns : m[n] \in Nat
  <2>1. \A n \in Servers : Old[n] \cup shardedRows[n] \subseteq Domains
      BY SearchConstants
  <2> QED BY <2>1, SearchConstants, FS_Subset, FS_CardinalityType
<1>5. IsFiniteSet(ns) /\ Nat \in {Nat, Int}
    BY SearchConstants, FS_Subset
<1>6. {F[n] : n \in ns} = {RowsIn(shardedRows, n) : n \in ns}
    OBVIOUS
<1> HIDE DEF c, m, F
<1>7. SumOf(c, ns) \in Nat /\ SumOf(m, ns) \in Nat
    BY <1>3, <1>4, <1>5, SumType
<1>8. Cardinality(UNION {F[n] : n \in ns}) <= SumOf(c, ns)
    BY <1>3, <1>5, UnionCount
<1> QED BY <1>2, <1>6, <1>7, <1>8 DEF Unread

\* What was found: every domain once, and no more than asked for.
Fits(pairs, most) ==
    /\ pairs \subseteq Domains \X Servers
    /\ Cardinality(pairs) = Cardinality(NamesIn(pairs))
    /\ Cardinality(pairs) <= most

\* New domains of one nameserver add as many pairs as names.
LEMMA AddDomains ==
    ASSUME NEW pairs, NEW most \in Nat, Fits(pairs, most),
           NEW n \in Servers, NEW ds \in SUBSET Domains, ds \cap NamesIn(pairs) = {},
           Cardinality(ds) <= most - Cardinality(pairs)
    PROVE  /\ Fits(pairs \cup (ds \X {n}), most)
           /\ NamesIn(pairs \cup (ds \X {n})) = NamesIn(pairs) \cup ds
           /\ Cardinality(pairs \cup (ds \X {n})) = Cardinality(pairs) + Cardinality(ds)
<1> DEFINE added == ds \X {n}
<1>1. IsFiniteSet(pairs) /\ IsFiniteSet(ds) /\ IsFiniteSet(NamesIn(pairs))
  <2>1. NamesIn(pairs) \subseteq Domains
      BY DEF NamesIn, Fits
  <2> QED BY <2>1, SearchConstants, FS_Subset DEF Fits
<1>2. IsFiniteSet(added) /\ Cardinality(added) = Cardinality(ds)
  <2>1. IsFiniteSet({n}) /\ Cardinality({n}) = 1
      BY FS_Singleton
  <2>2. IsFiniteSet(added) /\ Cardinality(added) = Cardinality(ds) * Cardinality({n})
      BY <1>1, <2>1, FS_Product
  <2> QED BY <1>1, <2>1, <2>2, FS_CardinalityType
<1>3. pairs \cap added = {}
    BY DEF NamesIn
<1>4. NamesIn(pairs \cup added) = NamesIn(pairs) \cup ds
  <2>1. NamesIn(added) = ds
    <3>1. ASSUME NEW d \in ds PROVE \E p \in added : p[1] = d
      <4>1. <<d, n>> \in added /\ <<d, n>>[1] = d
          OBVIOUS
      <4> QED BY <4>1
    <3>2. \A p \in added : p[1] \in ds
        OBVIOUS
    <3> HIDE DEF added
    <3>3. \A d \in ds : d \in NamesIn(added)
        BY <3>1 DEF NamesIn
    <3>4. \A d \in NamesIn(added) : d \in ds
        BY <3>2 DEF NamesIn
    <3> QED BY <3>3, <3>4
  <2> HIDE DEF added
  <2> QED BY <2>1 DEF NamesIn
<1> HIDE DEF added
<1>5. Cardinality(pairs \cup added) = Cardinality(pairs) + Cardinality(ds)
  <2>1. Cardinality(pairs \cup added)
            = Cardinality(pairs) + Cardinality(added) - Cardinality(pairs \cap added)
      BY <1>1, <1>2, FS_Union
  <2>2. Cardinality(pairs \cap added) = 0
      BY <1>3, FS_EmptySet, Zenon
  <2>3. Cardinality(pairs) \in Nat /\ Cardinality(added) \in Nat
      BY <1>1, <1>2, FS_CardinalityType
  <2> QED BY <1>2, <2>1, <2>2, <2>3
<1>6. Cardinality(NamesIn(pairs) \cup ds) = Cardinality(NamesIn(pairs)) + Cardinality(ds)
  <2>1. Cardinality(NamesIn(pairs) \cup ds)
            = Cardinality(NamesIn(pairs)) + Cardinality(ds) - Cardinality(NamesIn(pairs) \cap ds)
      BY <1>1, FS_Union
  <2>2. Cardinality(NamesIn(pairs) \cap ds) = 0
    <3>1. NamesIn(pairs) \cap ds = {}
        OBVIOUS
    <3> QED BY <3>1, FS_EmptySet, Zenon
  <2>3. Cardinality(NamesIn(pairs)) \in Nat /\ Cardinality(ds) \in Nat
      BY <1>1, FS_CardinalityType
  <2> QED BY <2>1, <2>2, <2>3
<1>7. pairs \cup added \subseteq Domains \X Servers
    BY DEF Fits, added
<1>8. Cardinality(pairs) \in Nat /\ Cardinality(ds) \in Nat
    BY <1>1, FS_CardinalityType
<1>9. Fits(pairs \cup added, most)
  <2>1. Cardinality(pairs \cup added) = Cardinality(NamesIn(pairs \cup added))
      BY <1>4, <1>5, <1>6 DEF Fits
  <2>2. Cardinality(pairs \cup added) <= most
      BY <1>5, <1>8
  <2> QED BY <1>7, <2>1, <2>2 DEF Fits
<1> QED BY <1>4, <1>5, <1>9 DEF added

-----------------------------------------------------------------------------
(* The state of a search.                                                  *)

\* Types of what belongs to the requests; nothing is found before "fetch".
Requests ==
    /\ pc \in [Reqs -> {"get", "list", "count", "fetch", "save", "idle", "waiting"}]
    /\ limit \in [Reqs -> Limits \cup {0}]
    /\ todo \in [Reqs -> SUBSET Servers]
    /\ found \in [Reqs -> SUBSET (Domains \X Servers)]
    /\ total \in [Reqs -> Nat] /\ had \in [Reqs -> SUBSET Domains]
    /\ \A r \in Reqs : Fits(found[r], limit[r])
    /\ \A r \in Reqs : pc[r] \notin {"fetch", "save"} => found[r] = {}
    /\ gone \subseteq {r \in Reqs : pc[r] # "idle"}

SearchTypes ==
    /\ shardedRows \in [Servers -> SUBSET Domains] /\ listed \subseteq Servers
    /\ life \in 0 .. TTL /\ (life = 0 <=> cached = NoAnswer)
    /\ Requests
    /\ errors \in 0 .. MaxErrors

LEMMA SearchTypeOK == SearchTypes => TypeOK
<1> SUFFICES ASSUME SearchTypes PROVE TypeOK
    OBVIOUS
<1>1. \A r \in Reqs : /\ found[r] \subseteq Domains \X Servers
                      /\ Cardinality(found[r]) = Cardinality(Names(found[r]))
                      /\ Cardinality(found[r]) <= limit[r]
    BY DEF SearchTypes, Requests, Fits, Names, NamesIn
<1> QED BY <1>1 DEF SearchTypes, Requests, TypeOK, Searching

\* A limit is a number, and nothing found fits every limit.
LEMMA LimitsFacts ==
    ASSUME NEW l \in Limits \cup {0}
    PROVE  l \in Nat /\ Fits({}, l)
<1>1. l \in Nat
    BY SearchConstants
<1>2. NamesIn({}) = {}
    BY DEF NamesIn
<1>3. Cardinality({}) = 0
    BY FS_EmptySet
<1> QED BY <1>1, <1>2, <1>3 DEF Fits

\* Of a search that was not cut short so far: what the answer will count and
\* hold is all of what there was, unless its limit is reached.
Whole(r) ==
    /\ pc[r] = "count" => had[r] \subseteq Unread(shardedRows, todo[r])
    /\ pc[r] = "fetch" => had[r] \subseteq NamesIn(found[r]) \cup Unread(shardedRows, todo[r])
    /\ pc[r] = "save" => \/ Cardinality(found[r]) >= limit[r]
                         \/ had[r] \subseteq NamesIn(found[r])
    /\ pc[r] \in {"fetch", "save"} => total[r] >= Cardinality(had[r])

WholeAnswer(answer) ==
    /\ Cardinality(answer.domains) >= Least(answer.limit, Cardinality(answer.had))
    /\ answer.total >= Cardinality(answer.had)

NoneCutShort == \A r \in Reqs \ gone : Whole(r)

SearchInv ==
    /\ SearchTypes
    /\ errors = 0 => NoneCutShort /\ (cached # NoAnswer => WholeAnswer(cached))

-----------------------------------------------------------------------------
(* Steps of a search.                                                      *)

LEMMA SearchInit == InitSearch => SearchInv
<1> SUFFICES ASSUME InitSearch PROVE SearchInv
    OBVIOUS
<1>1. /\ shardedRows = First /\ listed = Known /\ cached = NoAnswer /\ life = 0 /\ errors = 0
      /\ pc = [r \in Reqs |-> "idle"] /\ limit = [r \in Reqs |-> 0]
      /\ todo = [r \in Reqs |-> {}] /\ found = [r \in Reqs |-> {}]
      /\ total = [r \in Reqs |-> 0] /\ had = [r \in Reqs |-> {}] /\ gone = {}
    BY DEF InitSearch
<1>2. Requests
  <2>1. \A r \in Reqs : Fits(found[r], limit[r])
      BY <1>1, LimitsFacts
  <2> QED BY <1>1, <2>1 DEF Requests
<1>3. SearchTypes
    BY <1>1, <1>2, SearchConstants DEF SearchTypes
<1>4. NoneCutShort
    BY <1>1 DEF NoneCutShort, Whole
<1> QED BY <1>1, <1>3, <1>4 DEF SearchInv

\* Who is not answered at the end of a search is where he was.
LEMMA FinishEffect ==
    ASSUME Requests, NEW r \in Reqs, Finish(r)
    PROVE  /\ Requests'
           /\ \A q \in Reqs \ gone' :
                 \/ pc'[q] = "idle"
                 \/ /\ q \notin gone /\ pc'[q] = pc[q] /\ limit'[q] = limit[q]
                    /\ todo'[q] = todo[q] /\ found'[q] = found[q]
                    /\ total'[q] = total[q] /\ had'[q] = had[q]
<1> DEFINE all == {q \in Reqs : q = r \/ pc[q] = "waiting"}
<1>1. /\ pc' = [q \in Reqs |-> IF q \in all THEN "idle" ELSE pc[q]]
      /\ limit' = [q \in Reqs |-> IF q \in all THEN 0 ELSE limit[q]]
      /\ gone' = gone \ all
      /\ todo' = [todo EXCEPT ![r] = {}] /\ found' = [found EXCEPT ![r] = {}]
      /\ total' = [total EXCEPT ![r] = 0] /\ had' = [had EXCEPT ![r] = {}]
    BY DEF Finish
<1>2. r \in all /\ all \subseteq Reqs /\ \A q \in all : q # r => found[q] = {}
    BY DEF Requests
<1> HIDE DEF all
<1>3. /\ pc' \in [Reqs -> {"get", "list", "count", "fetch", "save", "idle", "waiting"}]
      /\ limit' \in [Reqs -> Limits \cup {0}]
      /\ todo' \in [Reqs -> SUBSET Servers]
      /\ found' \in [Reqs -> SUBSET (Domains \X Servers)]
      /\ total' \in [Reqs -> Nat] /\ had' \in [Reqs -> SUBSET Domains]
    BY <1>1 DEF Requests
<1>4. \A q \in Reqs : q \in all => pc'[q] = "idle" /\ limit'[q] = 0 /\ found'[q] = {}
    BY <1>1, <1>2 DEF Requests
<1>5. \A q \in Reqs : q \notin all =>
          /\ pc'[q] = pc[q] /\ limit'[q] = limit[q] /\ todo'[q] = todo[q] /\ found'[q] = found[q]
          /\ total'[q] = total[q] /\ had'[q] = had[q]
    BY <1>1, <1>2 DEF Requests
<1>6. Fits({}, 0)
    BY LimitsFacts
<1>7. \A q \in Reqs : Fits(found'[q], limit'[q])
    BY <1>4, <1>5, <1>6 DEF Requests
<1>8. \A q \in Reqs : pc'[q] \notin {"fetch", "save"} => found'[q] = {}
    BY <1>4, <1>5 DEF Requests
<1>9. gone' \subseteq {q \in Reqs : pc'[q] # "idle"}
    BY <1>1, <1>5 DEF Requests
<1>10. Requests'
    BY <1>3, <1>7, <1>8, <1>9 DEF Requests
<1>11. \A q \in Reqs \ gone' : q \notin all => q \notin gone
    BY <1>1
<1> QED BY <1>4, <1>5, <1>10, <1>11

\* An answer or an error leaves the other searches as they are.
LEMMA FinishInv ==
    ASSUME SearchInv, NEW r \in Reqs, Finish(r),
           shardedRows' = shardedRows, listed' = listed
    PROVE  /\ Requests'
           /\ errors = 0 => NoneCutShort'
<1>1. Requests'
    BY FinishEffect DEF SearchInv, SearchTypes
<1>2. ASSUME errors = 0, NEW q \in Reqs \ gone' PROVE Whole(q)'
  <2>1. \/ pc'[q] = "idle"
        \/ /\ q \notin gone /\ pc'[q] = pc[q] /\ limit'[q] = limit[q]
           /\ todo'[q] = todo[q] /\ found'[q] = found[q]
           /\ total'[q] = total[q] /\ had'[q] = had[q]
      BY FinishEffect DEF SearchInv, SearchTypes
  <2>2. q \notin gone => Whole(q)
      BY <1>2 DEF SearchInv, NoneCutShort
  <2> QED BY <2>1, <2>2 DEF Whole
<1> QED BY <1>1, <1>2 DEF NoneCutShort

\* A step of one request leaves what holds of the others.
LEMMA OthersWhole ==
    ASSUME NoneCutShort, NEW r \in Reqs, shardedRows' = shardedRows, gone' = gone,
           \A q \in Reqs \ {r} :
              /\ pc'[q] = pc[q] /\ limit'[q] = limit[q] /\ todo'[q] = todo[q]
              /\ found'[q] = found[q] /\ total'[q] = total[q] /\ had'[q] = had[q],
           r \notin gone => Whole(r)'
    PROVE  NoneCutShort'
<1>1. ASSUME NEW q \in Reqs \ gone, q # r PROVE Whole(q)'
  <2>1. Whole(q)
      BY <1>1 DEF NoneCutShort
  <2>2. /\ pc'[q] = pc[q] /\ limit'[q] = limit[q] /\ todo'[q] = todo[q]
        /\ found'[q] = found[q] /\ total'[q] = total[q] /\ had'[q] = had[q]
      BY <1>1
  <2> QED BY <2>1, <2>2 DEF Whole
<1> QED BY <1>1 DEF NoneCutShort

\* With no error so far there was none before; an error at a client that is
\* there is one of the databases.
LEMMA NoFaults ==
    ASSUME SearchTypes, NEW r
    PROVE  /\ Error(r) => errors' \in 0 .. MaxErrors /\ (errors' = 0 => errors = 0 /\ r \in gone)
           /\ Fault => errors' \in 0 .. MaxErrors /\ errors' # 0
BY SearchConstants DEF Error, Fault, SearchTypes

\* The least of two numbers is no more than either.
LEMMA LeastFacts ==
    ASSUME NEW a \in Int, NEW b \in Int
    PROVE  Least(a, b) \in {a, b} /\ Least(a, b) <= a /\ Least(a, b) <= b
BY DEF Least

\* One read of a nameserver: what is found fits, and has all rows of the
\* nameserver unless the limit is reached.
LEMMA ReadEffect ==
    ASSUME SearchTypes, NEW r \in Reqs, NEW n \in Servers, NEW ds,
           ds \in Added(r, n) \/ ds \in AddedOnError(r, n)
    PROVE  LET new == found[r] \cup (ds \X {n}) IN
           /\ Fits(new, limit[r]) /\ NamesIn(new) = NamesIn(found[r]) \cup ds
           /\ new \in SUBSET (Domains \X Servers) /\ Cardinality(new) \in Nat /\ limit[r] \in Nat
           /\ ds \in Added(r, n) /\ Cardinality(new) < limit[r]
                 => RowsIn(shardedRows, n) \subseteq NamesIn(new)
<1> DEFINE new == found[r] \cup (ds \X {n})
           fresh == RowsIn(shardedRows, n) \ NamesIn(found[r])
           room == Least(limit[r] - Cardinality(found[r]), Cardinality(fresh))
<1>1. limit[r] \in Nat /\ Fits(found[r], limit[r])
    BY LimitsFacts DEF SearchTypes, Requests
<1>2. IsFiniteSet(found[r]) /\ Cardinality(found[r]) \in Nat
    BY <1>1, SearchConstants, FS_Subset, FS_CardinalityType DEF Fits
<1>3. RowsIn(shardedRows, n) \subseteq Domains /\ Old[n] \cup shardedRows[n] \subseteq Domains
    BY SearchConstants DEF SearchTypes, RowsIn
<1>4. IsFiniteSet(fresh) /\ Cardinality(fresh) \in Nat
    BY <1>3, SearchConstants, FS_Subset, FS_CardinalityType
<1>5. ds \in Added(r, n) => ds \subseteq fresh /\ Cardinality(ds) = room
    BY DEF Added, RowsOf, RowsIn, Names, NamesIn
<1>6. ds \in AddedOnError(r, n) =>
          /\ ds \subseteq (Old[n] \cup shardedRows[n]) \ NamesIn(found[r])
          /\ Cardinality(ds) <= limit[r] - Cardinality(found[r])
    BY DEF AddedOnError, Either, Names, NamesIn
<1>7. /\ limit[r] - Cardinality(found[r]) \in Int
      /\ room \in {limit[r] - Cardinality(found[r]), Cardinality(fresh)}
      /\ room <= limit[r] - Cardinality(found[r])
    BY <1>1, <1>2, <1>4, LeastFacts
<1> HIDE DEF fresh, room
<1>8. /\ ds \in SUBSET Domains /\ ds \cap NamesIn(found[r]) = {}
      /\ Cardinality(ds) <= limit[r] - Cardinality(found[r])
    BY <1>3, <1>5, <1>6, <1>7 DEF fresh
<1>9. /\ Fits(new, limit[r]) /\ NamesIn(new) = NamesIn(found[r]) \cup ds
      /\ Cardinality(new) = Cardinality(found[r]) + Cardinality(ds)
  <2> DEFINE pairs == found[r]
             most == limit[r]
  <2> HIDE DEF pairs, most
  <2>1. /\ most \in Nat /\ Fits(pairs, most) /\ ds \in SUBSET Domains
        /\ ds \cap NamesIn(pairs) = {} /\ Cardinality(ds) <= most - Cardinality(pairs)
      BY <1>1, <1>8 DEF pairs, most
  <2>2. \A p, m, es :
            /\ m \in Nat /\ Fits(p, m) /\ es \in SUBSET Domains
            /\ es \cap NamesIn(p) = {} /\ Cardinality(es) <= m - Cardinality(p)
            => /\ Fits(p \cup (es \X {n}), m)
               /\ NamesIn(p \cup (es \X {n})) = NamesIn(p) \cup es
               /\ Cardinality(p \cup (es \X {n})) = Cardinality(p) + Cardinality(es)
      BY AddDomains
  <2>3. /\ Fits(pairs \cup (ds \X {n}), most)
        /\ NamesIn(pairs \cup (ds \X {n})) = NamesIn(pairs) \cup ds
        /\ Cardinality(pairs \cup (ds \X {n})) = Cardinality(pairs) + Cardinality(ds)
      BY <2>1, <2>2, Zenon
  <2> QED BY <2>3 DEF pairs, most
<1>10. new \in SUBSET (Domains \X Servers) /\ Cardinality(new) \in Nat
  <2>1. new \subseteq Domains \X Servers
      BY <1>9 DEF Fits
  <2> HIDE DEF new
  <2> QED BY <2>1, SearchConstants, FS_Subset, FS_CardinalityType
<1>11. ASSUME ds \in Added(r, n), Cardinality(new) < limit[r]
       PROVE  RowsIn(shardedRows, n) \subseteq NamesIn(new)
  <2>1. Cardinality(ds) # limit[r] - Cardinality(found[r])
      BY <1>1, <1>2, <1>9, <1>11
  <2>2. ds \subseteq fresh /\ Cardinality(ds) = Cardinality(fresh)
      BY <1>5, <1>7, <1>11, <2>1
  <2>3. ds = fresh
      BY <1>4, <2>2, FS_Subset
  <2> QED BY <1>9, <2>3 DEF fresh
<1> QED BY <1>1, <1>9, <1>10, <1>11

\* An answer to save is whole.
LEMMA SavedWhole ==
    ASSUME SearchTypes, NEW r \in Reqs, pc[r] = "save", Whole(r)
    PROVE  WholeAnswer(Answer(r))
<1>1. /\ found[r] \subseteq Domains \X Servers /\ had[r] \subseteq Domains
      /\ Cardinality(found[r]) = Cardinality(NamesIn(found[r]))
      /\ limit[r] \in Nat
    BY LimitsFacts DEF SearchTypes, Requests, Fits
<1>2. NamesIn(found[r]) \subseteq Domains
    BY <1>1 DEF NamesIn
<1>3. /\ Cardinality(found[r]) \in Nat /\ Cardinality(had[r]) \in Nat
      /\ IsFiniteSet(NamesIn(found[r]))
    BY <1>1, <1>2, SearchConstants, FS_Subset, FS_CardinalityType
<1>4. had[r] \subseteq NamesIn(found[r]) => Cardinality(had[r]) <= Cardinality(found[r])
    BY <1>1, <1>3, FS_Subset
<1>5. Cardinality(found[r]) >= Least(limit[r], Cardinality(had[r]))
    BY <1>1, <1>3, <1>4, LeastFacts DEF Whole
<1> QED BY <1>5 DEF WholeAnswer, Answer, Whole

\* Each kind of step keeps the types and, as long as the databases make no
\* errors, what is cached and what is searched whole.
LEMMA RequestStep ==
    ASSUME SearchInv, NEW r \in Reqs, Work(r)
    PROVE  SearchInv'
<1>0. /\ SearchTypes /\ Requests /\ errors \in 0 .. MaxErrors
      /\ errors = 0 => NoneCutShort /\ (cached # NoAnswer => WholeAnswer(cached))
    BY DEF SearchInv, SearchTypes
<1>1. ASSUME Finish(r), UNCHANGED <<shardedRows, listed, cached, life>>,
             errors' \in 0 .. MaxErrors, errors' = 0 => errors = 0
      PROVE  SearchInv'
  <2>1. Requests' /\ (errors = 0 => NoneCutShort')
      BY <1>1, FinishInv
  <2>2. SearchTypes'
      BY <1>0, <1>1, <2>1 DEF SearchTypes
  <2> QED BY <1>0, <1>1, <2>1, <2>2 DEF SearchInv, WholeAnswer
<1>2. CASE Hit(r)
    BY <1>0, <1>1, <1>2 DEF Hit, tables, redis
<1>3. CASE GetFails(r)
    BY <1>0, <1>1, <1>3, NoFaults DEF GetFails, tables, redis
<1>4. CASE ListNothing(r)
    BY <1>0, <1>1, <1>4, NoFaults DEF ListNothing, tables, redis
<1>5. CASE SaveFails(r)
    BY <1>0, <1>1, <1>5, NoFaults DEF SaveFails, tables, redis
<1>6. ASSUME Requests', UNCHANGED <<shardedRows, listed, cached, life, gone>>,
             errors' \in 0 .. MaxErrors,
             errors' = 0 => errors = 0 /\ (r \notin gone => Whole(r)'),
             \A q \in Reqs \ {r} :
                /\ pc'[q] = pc[q] /\ limit'[q] = limit[q] /\ todo'[q] = todo[q]
                /\ found'[q] = found[q] /\ total'[q] = total[q] /\ had'[q] = had[q]
      PROVE  SearchInv'
  <2>1. SearchTypes'
      BY <1>0, <1>6 DEF SearchTypes
  <2>2. errors' = 0 => NoneCutShort'
      BY <1>0, <1>6, OthersWhole
  <2>3. errors' = 0 => (cached # NoAnswer => WholeAnswer(cached))'
      BY <1>0, <1>6 DEF WholeAnswer
  <2> QED BY <2>1, <2>2, <2>3 DEF SearchInv
<1>7. CASE Miss(r)
  <2>1. /\ pc[r] = "get" /\ pc' = [pc EXCEPT ![r] = "list"]
        /\ UNCHANGED <<shardedRows, listed, cached, life, gone, limit, todo, found, total, had, errors>>
      BY <1>7 DEF Miss, Goto, tables, redis, search
  <2>2. Requests'
      BY <1>0, <2>1 DEF Requests, Fits
  <2>3. Whole(r)'
      BY <1>0, <2>1 DEF Whole, Requests
  <2> QED BY <1>0, <1>6, <2>1, <2>2, <2>3 DEF Requests
<1>8. CASE ListNS(r)
  <2>1. /\ pc[r] = "list" /\ pc' = [pc EXCEPT ![r] = "count"]
        /\ todo' = [todo EXCEPT ![r] = listed] /\ had' = [had EXCEPT ![r] = Visible]
        /\ UNCHANGED <<shardedRows, listed, cached, life, gone, limit, found, total, errors>>
      BY <1>8 DEF ListNS, Goto, tables, redis
  <2>2. Visible = Unread(shardedRows, listed)
      BY DEF Visible, RowsOf, Unread, RowsIn
  <2>3. listed \subseteq Servers /\ Unread(shardedRows, listed) \subseteq Domains
      BY <1>0, RowsFacts DEF SearchTypes
  <2>4. Requests'
      BY <1>0, <2>1, <2>2, <2>3 DEF Requests, Fits
  <2>5. Whole(r)'
      BY <1>0, <2>1, <2>2 DEF Whole, Requests
  <2> QED BY <1>0, <1>6, <2>1, <2>4, <2>5 DEF Requests
<1>9. CASE CountDomains(r)
  <2>1. /\ pc[r] = "count" /\ pc' = [pc EXCEPT ![r] = "fetch"]
        /\ UNCHANGED <<shardedRows, listed, cached, life, gone, limit, todo, found, had>>
        /\ \/ r \notin gone /\ UNCHANGED errors /\ total' = [total EXCEPT ![r] = Count(todo[r])]
           \/ Error(r) /\ \E t \in 0 .. Most(todo[r]) : total' = [total EXCEPT ![r] = t]
      BY <1>9 DEF CountDomains, Goto, tables, redis
  <2>2. /\ Count(todo[r]) \in Nat /\ Most(todo[r]) \in Nat
        /\ Cardinality(Unread(shardedRows, todo[r])) <= Count(todo[r])
      BY <1>0, CountFacts DEF SearchTypes, Requests
  <2>3. PICK t \in Nat : total' = [total EXCEPT ![r] = t] /\ (t = Count(todo[r]) \/ Error(r))
      BY <2>1, <2>2
  <2>4. Requests'
      BY <1>0, <2>1, <2>3 DEF Requests, Fits
  <2>5. errors' \in 0 .. MaxErrors /\ (errors' = 0 => errors = 0)
      BY <1>0, <2>1, NoFaults
  <2>6. ASSUME errors' = 0, r \notin gone PROVE Whole(r)'
    <3>1. total'[r] = Count(todo[r])
        BY <1>0, <2>1, <2>6, NoFaults DEF Requests
    <3>2. had[r] \subseteq Unread(shardedRows, todo[r])
        BY <1>0, <2>1, <2>5, <2>6 DEF NoneCutShort, Whole
    <3>3. Cardinality(had[r]) <= Cardinality(Unread(shardedRows, todo[r]))
          /\ Cardinality(had[r]) \in Nat /\ Cardinality(Unread(shardedRows, todo[r])) \in Nat
      <4>1. IsFiniteSet(Unread(shardedRows, todo[r]))
          BY <1>0, RowsFacts DEF SearchTypes, Requests
      <4> QED BY <3>2, <4>1, FS_Subset, FS_CardinalityType
    <3>4. total'[r] >= Cardinality(had[r])
        BY <2>2, <3>1, <3>3
    <3> QED BY <1>0, <2>1, <3>2, <3>4 DEF Whole, Requests
  <2> QED BY <1>0, <1>6, <2>1, <2>3, <2>4, <2>5, <2>6 DEF Requests
<1>10. CASE Fetch(r)
  <2>1. PICK n, ds :
          /\ n \in todo[r]
          /\ \/ r \notin gone /\ UNCHANGED errors /\ ds \in Added(r, n)
             \/ Error(r) /\ ds \in AddedOnError(r, n)
          /\ found' = [found EXCEPT ![r] = @ \cup (ds \X {n})]
          /\ todo' = [todo EXCEPT ![r] =
                         IF Cardinality(found'[r]) >= limit[r] THEN {} ELSE @ \ {n}]
          /\ pc[r] = "fetch"
          /\ pc' = [pc EXCEPT ![r] = IF todo'[r] = {} THEN "save" ELSE "fetch"]
          /\ UNCHANGED <<shardedRows, listed, cached, life, gone, limit, total, had>>
      BY <1>10 DEF Fetch, Goto, tables, redis
  <2> DEFINE new == found[r] \cup (ds \X {n})
  <2>2. n \in Servers
      BY <1>0, <2>1 DEF Requests
  <2>3. /\ Fits(new, limit[r]) /\ NamesIn(new) = NamesIn(found[r]) \cup ds
        /\ new \in SUBSET (Domains \X Servers) /\ Cardinality(new) \in Nat /\ limit[r] \in Nat
        /\ ds \in Added(r, n) /\ Cardinality(new) < limit[r]
              => RowsIn(shardedRows, n) \subseteq NamesIn(new)
      BY <1>0, <2>1, <2>2, ReadEffect
  <2>4. found' = [found EXCEPT ![r] = new]
      BY <2>1
  <2> HIDE DEF new
  <2>5. found'[r] = new
      BY <1>0, <2>4 DEF Requests
  <2>6. todo' = [todo EXCEPT ![r] = IF Cardinality(new) >= limit[r] THEN {} ELSE todo[r] \ {n}]
      BY <2>1, <2>5
  <2>7. Requests'
    <3>1. \A q \in Reqs : Fits(found'[q], limit'[q])
        BY <1>0, <2>1, <2>3, <2>4 DEF Requests
    <3>2. /\ pc' \in [Reqs -> {"get", "list", "count", "fetch", "save", "idle", "waiting"}]
          /\ limit' \in [Reqs -> Limits \cup {0}]
          /\ total' \in [Reqs -> Nat] /\ had' \in [Reqs -> SUBSET Domains]
        BY <1>0, <2>1 DEF Requests
    <3>3. todo' \in [Reqs -> SUBSET Servers]
        BY <1>0, <2>6 DEF Requests
    <3>4. found' \in [Reqs -> SUBSET (Domains \X Servers)]
        BY <1>0, <2>3, <2>4 DEF Requests
    <3>5. \A q \in Reqs : pc'[q] \notin {"fetch", "save"} => found'[q] = {}
        BY <1>0, <2>1, <2>4 DEF Requests
    <3>6. gone' \subseteq {q \in Reqs : pc'[q] # "idle"}
        BY <1>0, <2>1 DEF Requests
    <3> QED BY <3>1, <3>2, <3>3, <3>4, <3>5, <3>6 DEF Requests
  <2>8. errors' \in 0 .. MaxErrors /\ (errors' = 0 => errors = 0)
      BY <1>0, <2>1, NoFaults
  <2>9. ASSUME errors' = 0, r \notin gone PROVE Whole(r)'
    <3>1. ds \in Added(r, n)
        BY <1>0, <2>1, <2>9, NoFaults
    <3>2. had[r] \subseteq NamesIn(found[r]) \cup Unread(shardedRows, todo[r])
          /\ total[r] >= Cardinality(had[r])
        BY <1>0, <2>1, <2>8, <2>9 DEF NoneCutShort, Whole
    <3>3. /\ pc'[r] = IF todo'[r] = {} THEN "save" ELSE "fetch"
          /\ todo'[r] = IF Cardinality(new) >= limit[r] THEN {} ELSE todo[r] \ {n}
        BY <1>0, <2>1, <2>6 DEF Requests
    <3>4. Cardinality(new) < limit[r] =>
              had[r] \subseteq NamesIn(new) \cup Unread(shardedRows, todo[r] \ {n})
      <4>1. Unread(shardedRows, todo[r]) \subseteq RowsIn(shardedRows, n) \cup Unread(shardedRows, todo[r] \ {n})
          BY DEF Unread
      <4> QED BY <2>3, <3>1, <3>2, <4>1
    <3>5. Unread(shardedRows, {}) = {}
        BY DEF Unread
    <3>6. found'[r] = new /\ limit'[r] = limit[r] /\ total'[r] = total[r] /\ had'[r] = had[r]
          /\ shardedRows' = shardedRows
        BY <2>1, <2>5
    <3>7. CASE Cardinality(new) >= limit[r]
      <4>1. pc'[r] = "save"
          BY <3>3, <3>7
      <4> QED BY <3>2, <3>6, <3>7, <4>1 DEF Whole
    <3>8. CASE ~(Cardinality(new) >= limit[r])
      <4>1. todo'[r] = todo[r] \ {n}
          BY <3>3, <3>8
      <4>2. Cardinality(new) < limit[r]
          BY <2>3, <3>8
      <4>3. had[r] \subseteq NamesIn(new) \cup Unread(shardedRows, todo'[r])
          BY <3>4, <4>1, <4>2
      <4>4. todo'[r] = {} => had[r] \subseteq NamesIn(new)
          BY <3>5, <4>3
      <4> QED BY <3>2, <3>3, <3>6, <4>3, <4>4 DEF Whole
    <3> QED BY <3>7, <3>8
  <2>10. \A q \in Reqs \ {r} :
            /\ pc'[q] = pc[q] /\ limit'[q] = limit[q] /\ todo'[q] = todo[q]
            /\ found'[q] = found[q] /\ total'[q] = total[q] /\ had'[q] = had[q]
    <3>1. \A q \in Reqs \ {r} : pc'[q] = pc[q]
        BY <1>0, <2>1 DEF Requests
    <3>2. \A q \in Reqs \ {r} : todo'[q] = todo[q] /\ found'[q] = found[q]
        BY <1>0, <2>4, <2>6 DEF Requests
    <3> QED BY <2>1, <3>1, <3>2
  <2>11. UNCHANGED <<shardedRows, listed, cached, life, gone>>
      BY <2>1
  <2> QED BY <1>6, <2>7, <2>8, <2>9, <2>10, <2>11
<1>11. CASE Save(r)
  <2>1. /\ pc[r] = "save" /\ r \notin gone
        /\ cached' = Answer(r) /\ life' = TTL /\ Finish(r)
        /\ UNCHANGED <<shardedRows, listed, errors>>
      BY <1>11 DEF Save, tables
  <2>2. Requests' /\ (errors = 0 => NoneCutShort')
      BY <2>1, FinishInv
  <2>3. Answer(r) \in Answers
      BY <1>0 DEF Answer, Answers, Requests
  <2>4. SearchTypes'
      BY <1>0, <2>1, <2>2, <2>3, SearchConstants DEF SearchTypes
  <2>5. errors = 0 => WholeAnswer(Answer(r))
      BY <1>0, <2>1, SavedWhole DEF NoneCutShort
  <2>6. errors' = 0 => WholeAnswer(cached')
      BY <2>1, <2>5
  <2>7. WholeAnswer(cached') <=> WholeAnswer(cached)'
      BY DEF WholeAnswer
  <2> QED BY <2>1, <2>2, <2>4, <2>6, <2>7 DEF SearchInv
<1> QED BY <1>2, <1>3, <1>4, <1>5, <1>7, <1>8, <1>9, <1>10, <1>11 DEF Work

\* What happens beside the searches: a request begins, a client hangs up, an
\* upload or time goes on.
Beside ==
    \/ \E r \in Reqs : HangUp(r) \/ \E l \in Limits : Lead(r, l) \/ Follow(r, l)
    \/ \E n \in Servers : List(n) \/ \E d \in Domains : Insert(n, d)
    \/ Tick \/ UNCHANGED searchVars

\* It keeps types and searches as well.
LEMMA OtherStep ==
    ASSUME SearchInv,
           Beside
    PROVE  SearchInv'
<1>0. /\ SearchTypes /\ Requests /\ errors \in 0 .. MaxErrors
      /\ errors = 0 => NoneCutShort /\ (cached # NoAnswer => WholeAnswer(cached))
    BY DEF SearchInv, SearchTypes
<1>1. ASSUME NEW r \in Reqs, HangUp(r) PROVE SearchInv'
  <2>1. /\ pc[r] # "idle" /\ gone' = gone \cup {r}
        /\ UNCHANGED <<shardedRows, listed, cached, life, pc, limit, todo, found, total, had, errors>>
      BY <1>1 DEF HangUp, tables, redis, search
  <2>2. SearchTypes'
      BY <1>0, <2>1 DEF SearchTypes, Requests, Fits
  <2>3. NoneCutShort => NoneCutShort'
      BY <2>1 DEF NoneCutShort, Whole
  <2> QED BY <1>0, <2>1, <2>2, <2>3 DEF SearchInv, WholeAnswer
<1>2. ASSUME NEW r \in Reqs, NEW l \in Limits, Lead(r, l) \/ Follow(r, l) PROVE SearchInv'
  <2>1. PICK to \in {"get", "waiting"} :
          /\ pc[r] = "idle" /\ pc' = [pc EXCEPT ![r] = to] /\ limit' = [limit EXCEPT ![r] = l]
          /\ UNCHANGED <<shardedRows, listed, cached, life, todo, found, total, had, gone, errors>>
      BY <1>2 DEF Lead, Follow, Goto, tables, redis, search
  <2>2. found[r] = {} /\ Fits({}, l)
      BY <1>0, <2>1, LimitsFacts DEF Requests
  <2>3. \A q \in Reqs : Fits(found'[q], limit'[q])
      BY <1>0, <2>1, <2>2 DEF Requests
  <2>4. SearchTypes'
      BY <1>0, <2>1, <2>3 DEF SearchTypes, Requests
  <2>5. Whole(r)'
      BY <1>0, <2>1 DEF Whole, Requests
  <2>6. \A q \in Reqs \ {r} :
            /\ pc'[q] = pc[q] /\ limit'[q] = limit[q] /\ todo'[q] = todo[q]
            /\ found'[q] = found[q] /\ total'[q] = total[q] /\ had'[q] = had[q]
      BY <1>0, <2>1 DEF Requests
  <2>7. NoneCutShort => NoneCutShort'
      BY <2>1, <2>5, <2>6, OthersWhole
  <2> QED BY <1>0, <2>1, <2>4, <2>7 DEF SearchInv, WholeAnswer
<1>3. ASSUME \A n \in Servers : shardedRows[n] \subseteq shardedRows'[n],
             shardedRows' \in [Servers -> SUBSET Domains], listed' \subseteq Servers,
             UNCHANGED <<cached, life, pc, limit, todo, found, total, had, gone, errors>>
      PROVE  SearchInv'
  <2>1. SearchTypes'
      BY <1>0, <1>3 DEF SearchTypes, Requests, Fits
  <2>2. \A r \in Reqs : Unread(shardedRows, todo[r]) \subseteq Unread(shardedRows', todo[r])
      BY <1>0, <1>3, RowsFacts DEF SearchTypes, Requests
  <2>3. NoneCutShort => NoneCutShort'
      BY <1>3, <2>2 DEF NoneCutShort, Whole
  <2> QED BY <1>0, <1>3, <2>1, <2>3 DEF SearchInv, WholeAnswer
<1>4. ASSUME NEW n \in Servers, List(n) PROVE SearchInv'
  <2>1. /\ shardedRows' = shardedRows /\ listed' = listed \cup {n}
        /\ UNCHANGED <<cached, life, pc, limit, todo, found, total, had, gone, errors>>
      BY <1>4 DEF List, redis, search
  <2> QED BY <1>0, <1>3, <2>1 DEF SearchTypes
<1>5. ASSUME NEW n \in Servers, NEW d \in Domains, Insert(n, d) PROVE SearchInv'
  <2>1. /\ shardedRows' = [shardedRows EXCEPT ![n] = shardedRows[n] \cup {d}] /\ listed' = listed
        /\ UNCHANGED <<cached, life, pc, limit, todo, found, total, had, gone, errors>>
      BY <1>5 DEF Insert, redis, search
  <2> QED BY <1>0, <1>3, <2>1 DEF SearchTypes
<1>6. CASE Tick
  <2>1. /\ life' = IF life > 0 THEN life - 1 ELSE 0
        /\ cached' = IF life = 1 THEN NoAnswer ELSE cached
        /\ UNCHANGED <<shardedRows, listed, pc, limit, todo, found, total, had, gone, errors>>
      BY <1>6 DEF Tick, tables, search
  <2>2. Requests'
      BY <1>0, <2>1 DEF Requests, Fits
  <2>3. life' \in 0 .. TTL /\ (life' = 0 <=> cached' = NoAnswer)
      BY <1>0, <2>1, SearchConstants DEF SearchTypes
  <2>4. SearchTypes'
      BY <1>0, <2>1, <2>2, <2>3 DEF SearchTypes
  <2>5. NoneCutShort => NoneCutShort'
      BY <2>1 DEF NoneCutShort, Whole
  <2>6. cached' # NoAnswer => cached' = cached
      BY <2>1
  <2> QED BY <1>0, <2>1, <2>4, <2>5, <2>6 DEF SearchInv, WholeAnswer
<1>7. CASE UNCHANGED searchVars
  <2>1. UNCHANGED <<shardedRows, listed, cached, life, pc, limit, todo, found, total, had, gone, errors>>
      BY <1>7 DEF searchVars, tables, redis, search
  <2> QED BY <1>0, <1>3, <2>1 DEF SearchTypes
<1> QED BY <1>1, <1>2, <1>4, <1>5, <1>6, <1>7 DEF Beside

LEMMA SearchStep == SearchInv /\ [SearchNext]_searchVars => SearchInv'
<1> SUFFICES ASSUME SearchInv, [SearchNext]_searchVars PROVE SearchInv'
    OBVIOUS
<1>1. ASSUME NEW r \in Reqs, Work(r) PROVE SearchInv'
    BY <1>1, RequestStep
<1>2. (\E r \in Reqs : Work(r)) \/ Beside
    BY DEF SearchNext, Beside
<1> QED BY <1>1, <1>2, OtherStep

\* As long as the databases make no errors a cached answer is whole, with any
\* number of requests that share a search, whoever of them hung up when, and
\* with any uploads beside them.
THEOREM CacheWholeCorrect == SearchSpec => []CacheWhole
<1>1. SearchInv => CacheWhole
    BY SearchTypeOK DEF SearchInv, WholeAnswer, CacheWhole
<1> QED BY <1>1, SearchInit, SearchStep, PTL DEF SearchSpec
===============================================================================
