---------------------------- MODULE Deduplication ----------------------------
(***************************************************************************)
(* CleanDuplicates (handlers/deduplication.go): it scans the legacy table  *)
(* and each bucket of the sharded one, deletes by primary key, one after   *)
(* the other, whatever it takes for a repetition, and then removes the     *)
(* cached provider lists, again one after the other.                       *)
(*                                                                         *)
(* A row is a pair <<ns, domain>>, the primary key, so that no row is      *)
(* there twice.  The scan tells rows apart by the key ns + "|" + domain:   *)
(* where a name has a bar in it, different rows may share their key.       *)
(* One request at a time; no upload, ingestion or backfill adds rows to    *)
(* the legacy table, so that its paged scan is one step.                   *)
(***************************************************************************)
EXTENDS Naturals

CONSTANTS KeyOf,      \* the key of a row
          Place,      \* its place in the order of a scan
          ListKeys,   \* the keys it removes that something reads
          None,
          MaxDedups,  \* bound of the model: calls of the handler
          MaxFaults   \* bound of the model, shared with the other modules

VARIABLES
    legacy,           \* reverse_ns
    cache,            \* Redis, by key
    dedup,            \* where the request is
    toDelete,         \* the rows it has still to delete
    toRemove,         \* the keys it has still to remove
    dedups,           \* how many there were
    faults

InitDedup == dedup = "off" /\ toDelete = {} /\ toRemove = {} /\ dedups = 0

Fault == faults < MaxFaults /\ faults' = faults + 1

-----------------------------------------------------------------------------

\* A mutant: rows are told apart by their domain alone.
RepeatedDomains(read) ==
    {row \in read : \E seen \in read : Place[seen] < Place[row] /\ seen[2] = row[2]}

\* The rows whose key the scan met before.
Repeated(read) ==
    {row \in read : \E seen \in read : Place[seen] < Place[row] /\ KeyOf[seen] = KeyOf[row]}

\* A scan that fails is logged, and what it returned until then counts.
ScanLegacy ==
    /\ dedup = "off" /\ dedups < MaxDedups
    /\ dedup' = "legacy" /\ dedups' = dedups + 1
    /\ \/ toDelete' = Repeated(legacy) /\ UNCHANGED faults
       \/ /\ Fault
          /\ \E stop \in legacy :
                toDelete' = Repeated({row \in legacy : Place[row] < Place[stop]})
    /\ UNCHANGED <<legacy, cache, toRemove>>

\* A DELETE that fails is not counted, and nothing else.
Delete(row) ==
    /\ dedup = "legacy" /\ row \in toDelete
    /\ toDelete' = toDelete \ {row}
    /\ \/ legacy' = legacy \ {row} /\ UNCHANGED faults
       \/ Fault /\ UNCHANGED legacy
    /\ UNCHANGED <<cache, dedup, toRemove, dedups>>

\* The scan of a bucket gives one half of the partition key (ns, bucket), which
\* the database refuses: the error is logged, no row is seen and none deleted.
CleanSharded ==
    /\ dedup = "legacy" /\ toDelete = {}
    /\ dedup' = "cache" /\ toRemove' = ListKeys
    /\ UNCHANGED <<legacy, cache, toDelete, dedups, faults>>

\* invalidateProviderCache; nobody looks at the error of DEL.
Invalidate(k) ==
    /\ dedup = "cache" /\ k \in toRemove
    /\ toRemove' = toRemove \ {k}
    /\ \/ cache' = [cache EXCEPT ![k] = None] /\ UNCHANGED faults
       \/ Fault /\ UNCHANGED cache
    /\ UNCHANGED <<legacy, dedup, toDelete, dedups>>

Respond ==
    /\ dedup = "cache" /\ toRemove = {}
    /\ dedup' = "off"
    /\ UNCHANGED <<legacy, cache, toDelete, toRemove, dedups, faults>>

DedupStep ==
    \/ ScanLegacy \/ CleanSharded \/ Respond
    \/ \E row \in toDelete : Delete(row)
    \/ \E k \in ListKeys : Invalidate(k)

-----------------------------------------------------------------------------

KeysIn(rows) == {KeyOf[row] : row \in rows}

\* Of the rows that share a key deduplication leaves one, whatever scans and
\* deletions fail: it never deletes what a scan met first.
KeysKept == [][KeysIn(legacy') = KeysIn(legacy)]_legacy
=============================================================================
