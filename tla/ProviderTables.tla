---------------------------- MODULE ProviderTables ----------------------------
(***************************************************************************)
(* The aggregate tables with all who work on them and on what is cached of *)
(* them: the backfill writes them from reverse_ns while the handlers read  *)
(* and cache them and a deduplication deletes rows of reverse_ns and keys  *)
(* of the cache.  The parts share legacy, stats, perNS, cache and the      *)
(* bound on faults; nothing else orders their steps.                       *)
(***************************************************************************)
EXTENDS Naturals, Sequences, FiniteSets

CONSTANTS Rows,       \* the rows of reverse_ns at the start
          KeyOf, Place, Order, NameServers, ProvidersOf, StatsBatchSize, LeftStats, LeftNS,
          ListKeys, Breakdown, Asked, MaxProviderRows, None,
          MaxDedups, MaxFaults

VARIABLES legacy, stats, nsCounts, perNS, cache, faults,
          backfill, providerOf, rowsLeft,  \* the backfill
          flight,                          \* the fetches of the handlers
          dedup, toDelete, toRemove, dedups  \* the deduplication

L == INSTANCE ProviderLists

ASSUME ProviderTablesAssumption ==
    /\ IsFiniteSet(NameServers) /\ IsFiniteSet(Rows)
    /\ Rows \subseteq NameServers \X {row[2] : row \in Rows}
    /\ Place \in [Rows -> Nat]
    /\ \A r1, r2 \in Rows : Place[r1] = Place[r2] => r1 = r2
    /\ Order \in Seq(L!Providers)
    /\ ProvidersOf \in [NameServers -> (SUBSET L!Providers) \ {{}}]
    /\ LeftStats \in [L!Providers -> Nat] /\ LeftNS \in [L!Providers -> [NameServers -> Nat]]
    /\ Asked \in L!Providers /\ Breakdown \notin ListKeys
    /\ {StatsBatchSize, MaxProviderRows} \subseteq Nat \ {0}
    /\ {MaxDedups, MaxFaults} \subseteq Nat

B == INSTANCE Backfill WITH Providers <- L!Providers
D == INSTANCE Deduplication

process == <<backfill, providerOf, rowsLeft>>
request == <<dedup, toDelete, toRemove, dedups>>
vars    == <<legacy, stats, nsCounts, perNS, cache, faults,
             process, flight, request>>

Init ==
    /\ legacy = Rows
    /\ B!InitBackfill /\ L!InitLists /\ D!InitDedup

BackfillMoves == B!BackfillStep /\ UNCHANGED <<cache, flight, request>>
ListsMove     == L!ListsStep /\ UNCHANGED <<legacy, nsCounts, process, request>>
DedupMoves    == D!DedupStep /\ UNCHANGED <<stats, nsCounts, perNS, process, flight>>

Next == BackfillMoves \/ ListsMove \/ DedupMoves

\* Nothing but the lifetime of what is cached has to end: a backfill, a fetch
\* or a deduplication may stay where it is for good.
Fairness == \A k \in L!Keys : WF_vars(L!Expire(k) /\ ListsMove)

Spec == Init /\ [][Next]_vars
FairSpec == Spec /\ Fairness

-----------------------------------------------------------------------------

\* A run of the backfill that completes leaves in both tables what reverse_ns
\* says (see Backfill), unless rows are deleted of it: deduplication leaves
\* provider_stats and provider_ns as they are.
BackfillComplete == legacy = Rows => B!BackfillComplete

\* Of the rows that share a key deduplication leaves one (see Deduplication).
KeysKept == D!KeysKept

\* However backfill, handlers, failed calls and invalidations overlap, half a
\* list that was cached among them does not stay: once the backfill is through,
\* every cached list comes to be what the tables say, for the breakdown of the
\* provider as spelt by the request that stored it.
ListsSettle == <>[](backfill = "done") => <>[](\A k \in L!Keys : L!Right(k))
=============================================================================
