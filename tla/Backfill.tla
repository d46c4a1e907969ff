------------------------------- MODULE Backfill -------------------------------
(***************************************************************************)
(* cmd/backfill: the program that rebuilds provider_stats and provider_ns  *)
(* from reverse_ns.  It truncates both, scans reverse_ns into two maps and *)
(* writes them in batches of statsBatchSize; any error ends the process    *)
(* (log.Fatalf) and leaves the tables as they are, until it is run again.  *)
(*                                                                         *)
(* A row of reverse_ns is a pair <<ns, domain>>.  A table of counts is a   *)
(* function to numbers in which 0 stands for "no row": no count is zero.   *)
(***************************************************************************)
EXTENDS Naturals, FiniteSets, Functions

CONSTANTS Providers, NameServers,
          ProvidersOf,    \* what extractProviderName may say of a nameserver
          StatsBatchSize,
          LeftStats, LeftNS,  \* what uploads left in the two tables
          MaxFaults       \* bound of the model: errors and kills

VARIABLES
    legacy,     \* reverse_ns
    stats,      \* provider_stats.domain_count
    nsCounts,   \* provider_stats.ns_count
    perNS,      \* provider_ns.domain_count, by provider and nameserver
    backfill,   \* where the process is
    providerOf, \* the provider it found for each row of its scan
    rowsLeft,   \* the rows it has still to write to the table in hand
    faults

aggregates == <<stats, nsCounts, perNS>>

Nobody == [row \in {} |-> 0]

InitBackfill ==
    /\ stats = LeftStats /\ perNS = LeftNS
    /\ nsCounts = [p \in Providers |-> Cardinality({n \in NameServers : LeftNS[p][n] > 0})]
    /\ backfill = "off" /\ providerOf = Nobody /\ rowsLeft = {}
    /\ faults = 0

Fault == faults < MaxFaults /\ faults' = faults + 1

-----------------------------------------------------------------------------

\* A mutant: only one of the tables is truncated.
TruncateNSForgotten ==
    /\ backfill = "statsCleared" /\ backfill' = "cleared"
    /\ UNCHANGED <<aggregates, providerOf, rowsLeft, faults>>

TruncateStats ==
    /\ backfill = "off" /\ backfill' = "statsCleared"
    /\ stats' = [p \in Providers |-> 0] /\ nsCounts' = [p \in Providers |-> 0]
    /\ UNCHANGED <<perNS, providerOf, rowsLeft, faults>>

TruncateNS ==
    /\ backfill = "statsCleared" /\ backfill' = "cleared"
    /\ perNS' = [p \in Providers |-> [n \in NameServers |-> 0]]
    /\ UNCHANGED <<stats, nsCounts, providerOf, rowsLeft, faults>>

\* providerCounts and providerNSCounts, as functions of the rows scanned.  The
\* provider of a row depends on the iteration over the map of keywords, anew
\* for each row.
RowsOf(p)        == {row \in DOMAIN providerOf : providerOf[row] = p}
PairRows(p, n)   == {row \in RowsOf(p) : row[1] = n}
Found            == {p \in Providers : RowsOf(p) # {}}
FoundPairs       == {pair \in Providers \X NameServers : PairRows(pair[1], pair[2]) # {}}

Scan ==
    /\ backfill = "cleared" /\ backfill' = "stats"
    /\ providerOf' \in [legacy -> Providers]
    /\ \A row \in legacy : providerOf'[row] \in ProvidersOf[row[1]]
    /\ rowsLeft' = Found'
    /\ UNCHANGED <<aggregates, faults>>

\* The next batch: a full one, or what is left over at the end.
IsBatch(B) ==
    /\ B \subseteq rowsLeft
    /\ Cardinality(B) = StatsBatchSize \/ (B = rowsLeft /\ Cardinality(B) < StatsBatchSize)

Put(B) ==
    IF backfill = "stats"
    THEN /\ stats' = [p \in Providers |-> IF p \in B THEN Cardinality(RowsOf(p)) ELSE stats[p]]
         /\ nsCounts' = [p \in Providers |->
                            IF p \in B THEN Cardinality({row[1] : row \in RowsOf(p)})
                                       ELSE nsCounts[p]]
         /\ UNCHANGED perNS
    ELSE /\ perNS' = [p \in Providers |-> [n \in NameServers |->
                         IF <<p, n>> \in B THEN Cardinality(PairRows(p, n)) ELSE perNS[p][n]]]
         /\ UNCHANGED <<stats, nsCounts>>

Writing == backfill \in {"stats", "pairs"}

\* A mutant: the rows left over after the last full batch are not written.
WriteFullOnly ==
    /\ Writing /\ rowsLeft # {}
    /\ IF Cardinality(rowsLeft) < StatsBatchSize
       THEN rowsLeft' = {} /\ UNCHANGED aggregates
       ELSE \E B \in SUBSET rowsLeft : IsBatch(B) /\ Put(B) /\ rowsLeft' = rowsLeft \ B
    /\ UNCHANGED <<backfill, providerOf, faults>>

Write ==
    /\ Writing /\ rowsLeft # {}
    /\ \E B \in SUBSET rowsLeft : IsBatch(B) /\ Put(B) /\ rowsLeft' = rowsLeft \ B
    /\ UNCHANGED <<backfill, providerOf, faults>>

NextTable ==
    /\ backfill = "stats" /\ rowsLeft = {}
    /\ backfill' = "pairs" /\ rowsLeft' = FoundPairs
    /\ UNCHANGED <<aggregates, providerOf, faults>>

Complete ==
    /\ backfill = "pairs" /\ rowsLeft = {}
    /\ backfill' = "done" /\ providerOf' = Nobody
    /\ UNCHANGED <<aggregates, rowsLeft, faults>>

\* log.Fatalf, or a kill.  An unlogged batch may have been applied in part.
Dies ==
    /\ backfill \in {"statsCleared", "cleared", "stats", "pairs"}
    /\ Fault
    /\ IF Writing /\ rowsLeft # {}
       THEN \E B \in SUBSET rowsLeft : Cardinality(B) <= StatsBatchSize /\ Put(B)
       ELSE UNCHANGED aggregates
    /\ backfill' = "off" /\ providerOf' = Nobody /\ rowsLeft' = {}

BackfillStep ==
    /\ TruncateStats \/ TruncateNS \/ Scan \/ Write \/ NextTable \/ Complete \/ Dies
    /\ UNCHANGED legacy

-----------------------------------------------------------------------------

\* A run that completes leaves in both tables what reverse_ns says, whatever
\* runs died half-way before it: every row counts for exactly one provider,
\* the rows of a nameserver may count for several of its providers, and
\* provider_stats sums provider_ns up.
BackfillComplete ==
    backfill = "done" =>
        /\ \A n \in NameServers :
              SumFunction([p \in Providers |-> perNS[p][n]])
                = Cardinality({row \in legacy : row[1] = n})
        /\ \A p \in Providers, n \in NameServers : perNS[p][n] > 0 => p \in ProvidersOf[n]
        /\ \A p \in Providers :
              /\ stats[p] = SumFunction(perNS[p])
              /\ nsCounts[p] = Cardinality({n \in NameServers : perNS[p][n] > 0})
=============================================================================
