------------------------------- MODULE ReverseNS -------------------------------
(***************************************************************************)
(* The reverse lookup of one nameserver (handlers/reverse_ns.go): pages of *)
(* its domains out of Redis or ScyllaDB, and the command-line ingester     *)
(* that truncates, fills and warms the same tables and keys.               *)
(*                                                                         *)
(* A domain is a number, in the order of sort.Strings and of both tables.  *)
(* Redis holds ns:<ns>:count, the number of domains, and ns:<ns>:domains,  *)
(* a sorted set of domains by score.  A query of all buckets is one step.  *)
(* A pipeline of go-redis is no transaction: its commands are applied one  *)
(* by one, and it may be cut between any two of them.                      *)
(***************************************************************************)
EXTENDS Naturals, FiniteSets, SequencesExt

CONSTANTS Reqs,
          Domains,
          Old,       \* those in the legacy table reverse_ns at first
          First,     \* those in reverse_ns_sharded at first
          New,       \* those that uploads and the ingester may insert
          Probed,    \* those in the buckets fetchFromScylla probes
          Windows,   \* [offset, limit]: the pages asked for
          TTL,       \* cacheTTL, in ticks
          WarmTTL,   \* the 24 hours of the ingester
          None,
          MaxFaults  \* bound of the model: errors of Redis and ScyllaDB, hang-ups

ASSUME LookupAssumption ==
    /\ Domains \subseteq Nat /\ IsFiniteSet(Domains)
    /\ Old \subseteq Domains /\ First \subseteq Domains
    /\ New \subseteq Domains /\ Probed \subseteq Domains
    /\ Windows \subseteq [offset : Nat, limit : Nat \ {0}]
    /\ TTL \in Nat \ {0} /\ WarmTTL \in Nat \ {0} /\ None \notin Nat
    /\ MaxFaults \in Nat

VARIABLES
    legacy, sharded,  \* the tables
    scores, zlife,    \* ns:<ns>:domains: score by member, ticks until it expires;
                      \* with members and none left, it never does
    count, clife,     \* ns:<ns>:count, ticks until it expires
    pc, win, total,   \* per request: where it is, its window, response.Total
    populating,       \* goroutines of populateCache: [offset, domains], what they have to add
    ingester, warm,   \* where the ingester is, what it has to add to warm the cache
    faults

tables == <<legacy, sharded>>
zset   == <<scores, zlife>>
counts == <<count, clife>>
reqs   == <<pc, win, total>>
batch  == <<ingester, warm>>
vars   == <<tables, zset, counts, reqs, populating, batch, faults>>

Empty == [d \in {} |-> 0]
NoJob == [offset |-> 0, domains |-> <<>>]

Init ==
    /\ legacy = Old /\ sharded = First
    /\ scores = Empty /\ zlife = 0
    /\ count = None /\ clife = 0
    /\ pc = [r \in Reqs |-> "idle"]
    /\ win = [r \in Reqs |-> None]
    /\ total = [r \in Reqs |-> 0]
    /\ populating = {}
    /\ ingester = "off" /\ warm = NoJob
    /\ faults = 0

-----------------------------------------------------------------------------
(* The data: what ScyllaDB answers and what Redis holds. *)

Fault == faults < MaxFaults /\ faults' = faults + 1

\* The numbers of S in order: sort.Strings, or the clustering order of a table.
Sorted(S) ==
    LET indices == 1 .. Cardinality(S) IN
    CHOOSE s \in [indices -> S] : \A i, j \in indices : i < j => s[i] < s[j]
Slice(s, w) == SubSeq(s, w.offset + 1,
                      IF w.offset + w.limit < Len(s) THEN w.offset + w.limit ELSE Len(s))

\* getTotalCount: the sharded table counts only when the legacy one is empty.
DBCount == Cardinality(IF legacy # {} THEN legacy ELSE sharded)

\* fetchFromScylla: the sharded table, unless the probe finds nothing in it.
Source == IF sharded \cap Probed # {} THEN sharded ELSE legacy
DBPage(w) == Slice(Sorted(Source), w)

\* ZRANGE: members by rank, which is by score and then by name.
ByRank == SetToSortSeq(DOMAIN scores,
              LAMBDA d, e : scores[d] < scores[e] \/ (scores[d] = scores[e] /\ d < e))

CachedPage(w) == Slice(ByRank, w)

\* ZADD, which leaves the lifetime of the key alone, and EXPIRE, which does
\* nothing when there is no key.
ZAdd(member, score) ==
    /\ scores' = [d \in DOMAIN scores \cup {member} |-> IF d = member THEN score ELSE scores[d]]
    /\ UNCHANGED zlife
Expire(ticks) ==
    /\ zlife' = IF scores = Empty THEN 0 ELSE ticks
    /\ UNCHANGED scores

\* What a pipeline has left to add after its next ZADD.
Rest(job) == [offset |-> job.offset + 1, domains |-> Tail(job.domains)]

-----------------------------------------------------------------------------
(* GetReverseNS: requests of one window are coalesced by singleflight; the *)
(* first of them leads and its answer is everyone's.                       *)

Fetching == {"count", "ask", "cacheCount", "range", "read", "drop", "recount"}
Leaders(w) == {r \in Reqs : pc[r] \in Fetching /\ win[r] = w}
Followers(r) == {q \in Reqs : pc[q] = "waiting" /\ win[q] = win[r]}

Goto(r, from, to) == pc[r] = from /\ pc' = [pc EXCEPT ![r] = to]

\* A mutant: every request fetches for itself.
LeadAlways(r, w) ==
    /\ Goto(r, "idle", "count")
    /\ win' = [win EXCEPT ![r] = w]
    /\ UNCHANGED <<tables, zset, counts, total, populating, batch, faults>>

Lead(r, w) ==
    /\ Leaders(w) = {}
    /\ Goto(r, "idle", "count")
    /\ win' = [win EXCEPT ![r] = w]
    /\ UNCHANGED <<tables, zset, counts, total, populating, batch, faults>>

Follow(r, w) ==
    /\ Leaders(w) # {}
    /\ Goto(r, "idle", "waiting")
    /\ win' = [win EXCEPT ![r] = w]
    /\ UNCHANGED <<tables, zset, counts, total, populating, batch, faults>>

\* A mutant: only the leader is answered.
FinishAlone(r) ==
    /\ pc' = [pc EXCEPT ![r] = "idle"]
    /\ win' = [win EXCEPT ![r] = None]
    /\ total' = [total EXCEPT ![r] = 0]

\* The leader has its response, which is that of its followers too.
Finish(r) ==
    LET all == Followers(r) \cup {r} IN
    /\ pc' = [q \in Reqs |-> IF q \in all THEN "idle" ELSE pc[q]]
    /\ win' = [q \in Reqs |-> IF q \in all THEN None ELSE win[q]]
    /\ total' = [total EXCEPT ![r] = 0]

-----------------------------------------------------------------------------
(* fetchReverseNS. *)

GetCount(r) ==
    /\ Goto(r, "count", IF count = None THEN "ask" ELSE "range")
    /\ total' = [total EXCEPT ![r] = IF count = None THEN @ ELSE count]
    /\ UNCHANGED <<tables, zset, counts, win, populating, batch, faults>>

AskCount(r) ==
    /\ Goto(r, "ask", "cacheCount")
    /\ total' = [total EXCEPT ![r] = DBCount]
    /\ UNCHANGED <<tables, zset, counts, win, populating, batch, faults>>

\* A mutant: the count is kept for good.
CacheCountForever(r) ==
    /\ Goto(r, "cacheCount", "range")
    /\ count' = total[r] /\ UNCHANGED clife
    /\ UNCHANGED <<tables, zset, win, total, populating, batch, faults>>

\* The error of SET is not looked at.
CacheCount(r) ==
    /\ Goto(r, "cacheCount", "range")
    /\ \/ count' = total[r] /\ clife' = TTL /\ UNCHANGED faults
       \/ Fault /\ UNCHANGED counts
    /\ UNCHANGED <<tables, zset, win, total, populating, batch>>


Hit(r) ==
    /\ pc[r] = "range" /\ CachedPage(win[r]) # <<>>
    /\ Finish(r)
    /\ UNCHANGED <<tables, zset, counts, populating, batch, faults>>

\* No members in the window, or an error of ZRANGE.
Miss(r) ==
    /\ Goto(r, "range", "read")
    /\ (CachedPage(win[r]) = <<>> /\ UNCHANGED faults) \/ Fault
    /\ UNCHANGED <<tables, zset, counts, win, total, populating, batch>>

ReadPage(r) ==
    /\ pc[r] = "read" /\ DBPage(win[r]) # <<>>
    /\ populating' = populating \cup {[offset |-> win[r].offset, domains |-> DBPage(win[r])]}
    /\ Finish(r)
    /\ UNCHANGED <<tables, zset, counts, batch, faults>>

\* Nothing in the window: right if there is nothing at all, otherwise the
\* count is taken for stale.
ReadNothing(r) ==
    /\ pc[r] = "read" /\ DBPage(win[r]) = <<>>
    /\ IF total[r] > 0 THEN Goto(r, "read", "drop") /\ UNCHANGED <<win, total>>
                       ELSE Finish(r)
    /\ UNCHANGED <<tables, zset, counts, populating, batch, faults>>

\* The error of DEL is not looked at.
DropCount(r) ==
    /\ Goto(r, "drop", "recount")
    /\ \/ count' = None /\ clife' = 0 /\ UNCHANGED faults
       \/ Fault /\ UNCHANGED counts
    /\ UNCHANGED <<tables, zset, win, total, populating, batch>>

\* The second count only goes into the response, if it succeeds.
Recount(r) ==
    /\ pc[r] = "recount"
    /\ Finish(r)
    /\ UNCHANGED <<tables, zset, counts, populating, batch, faults>>

\* Redis or ScyllaDB answers with an error, or the leader's client hangs up.
Fails(r) ==
    /\ pc[r] \in {"count", "ask", "read"}
    /\ Fault
    /\ Finish(r)
    /\ UNCHANGED <<tables, zset, counts, populating, batch>>

-----------------------------------------------------------------------------
(* populateCache, and time in Redis. *)

\* A mutant: every score is the start of the page.
PopulateFlat(job) ==
    /\ job.domains # <<>>
    /\ ZAdd(Head(job.domains), 0)
    /\ populating' = (populating \ {job}) \cup {Rest(job)}
    /\ UNCHANGED <<tables, counts, reqs, batch, faults>>

\* The next ZADD of a pipeline...
Populate(job) ==
    /\ job.domains # <<>>
    /\ ZAdd(Head(job.domains), job.offset)
    /\ populating' = (populating \ {job}) \cup {Rest(job)}
    /\ UNCHANGED <<tables, counts, reqs, batch, faults>>

\* ... and the EXPIRE at its end.
PopulateExpire(job) ==
    /\ job.domains = <<>>
    /\ Expire(TTL)
    /\ populating' = populating \ {job}
    /\ UNCHANGED <<tables, counts, reqs, batch, faults>>

\* The connection or the five seconds end before the next command; nobody looks
\* at the error, and what was added stays.
PopulateFails(job) ==
    /\ Fault
    /\ populating' = populating \ {job}
    /\ UNCHANGED <<tables, zset, counts, reqs, batch>>

Tick ==
    /\ zlife' = IF zlife > 0 THEN zlife - 1 ELSE 0
    /\ scores' = IF zlife = 1 THEN Empty ELSE scores
    /\ clife' = IF clife > 0 THEN clife - 1 ELSE 0
    /\ count' = IF clife = 1 THEN None ELSE count
    /\ UNCHANGED <<tables, reqs, populating, batch, faults>>

-----------------------------------------------------------------------------
(* Writers: uploads, and one run of the ingester. *)

Insert(d) ==
    /\ d \in New \ sharded
    /\ sharded' = sharded \cup {d}
    /\ UNCHANGED <<legacy, zset, counts, reqs, populating, batch, faults>>

\* clearAllTables truncates the legacy table, then flushes Redis; an error of
\* either is only logged...
Truncate ==
    /\ ingester = "off" /\ ingester' = "truncated"
    /\ (legacy' = {} /\ UNCHANGED faults) \/ (Fault /\ UNCHANGED legacy)
    /\ UNCHANGED <<sharded, zset, counts, reqs, populating, warm>>

FlushDB ==
    /\ ingester = "truncated" /\ ingester' = "ingesting"
    /\ \/ scores' = Empty /\ zlife' = 0 /\ count' = None /\ clife' = 0 /\ UNCHANGED faults
       \/ Fault /\ UNCHANGED <<zset, counts>>
    /\ UNCHANGED <<tables, reqs, populating, warm>>

\* ... unless it was told to skip that.
SkipClear ==
    /\ ingester = "off" /\ ingester' = "ingesting"
    /\ UNCHANGED <<tables, zset, counts, reqs, populating, warm, faults>>

\* The nameserver is not among those to warm, or there are none.
SkipWarm ==
    /\ ingester = "ingesting" /\ ingester' = "done"
    /\ UNCHANGED <<tables, zset, counts, reqs, populating, warm, faults>>

WarmRead ==
    /\ ingester = "ingesting" /\ ingester' = "warming"
    /\ warm' = [offset |-> 0, domains |-> Sorted(legacy)]
    /\ UNCHANGED <<tables, zset, counts, reqs, populating, faults>>

\* The pipeline of the warming: the next ZADD...
WarmAdd ==
    /\ ingester = "warming" /\ warm.domains # <<>>
    /\ ZAdd(Head(warm.domains), warm.offset)
    /\ warm' = Rest(warm)
    /\ UNCHANGED <<tables, counts, reqs, populating, ingester, faults>>

\* ... SET of the count, which is the number of domains added...
WarmCount ==
    /\ ingester = "warming" /\ warm.domains = <<>> /\ ingester' = "warmed"
    /\ count' = warm.offset /\ clife' = WarmTTL
    /\ warm' = NoJob
    /\ UNCHANGED <<tables, zset, reqs, populating, faults>>

\* ... and EXPIRE.
WarmExpire ==
    /\ ingester = "warmed" /\ ingester' = "done"
    /\ Expire(WarmTTL)
    /\ UNCHANGED <<tables, counts, reqs, populating, warm, faults>>

\* The table cannot be read, or the pipeline is cut before its next command.
WarmFails ==
    /\ ingester \in {"ingesting", "warming", "warmed"} /\ ingester' = "done"
    /\ Fault
    /\ warm' = NoJob
    /\ UNCHANGED <<tables, zset, counts, reqs, populating>>

-----------------------------------------------------------------------------

Work(r) ==
    \/ GetCount(r) \/ AskCount(r) \/ CacheCount(r) \/ Hit(r) \/ Miss(r)
    \/ ReadPage(r) \/ ReadNothing(r) \/ DropCount(r) \/ Recount(r)

Jobs == [offset : Nat, domains : Seq(Domains)]

Populating(job) == Populate(job) \/ PopulateExpire(job) \/ PopulateFails(job)
Warming == WarmRead \/ WarmAdd \/ WarmCount \/ WarmExpire \/ WarmFails

Next ==
    \/ \E r \in Reqs : Work(r) \/ Fails(r) \/ \E w \in Windows : Lead(r, w) \/ Follow(r, w)
    \/ \E job \in populating : Populating(job)
    \/ \E d \in Domains : Insert(d)
    \/ Truncate \/ FlushDB \/ SkipClear \/ SkipWarm \/ Warming
    \/ Tick

\* Goroutines are scheduled, queries return and time passes.  Nobody has to
\* ask, to write or to ingest.
Fairness ==
    /\ \A r \in Reqs : WF_vars(Work(r))
    /\ WF_vars(\E job \in populating : Populating(job))
    /\ WF_vars(Tick)

Spec == Init /\ [][Next]_vars
FairSpec == Spec /\ Fairness

-----------------------------------------------------------------------------

\* Types; the cached count exists exactly while it has time left to live, and a
\* set without members has none.
TypeOK ==
    /\ legacy \subseteq Domains /\ sharded \subseteq Domains
    /\ DOMAIN scores \subseteq Domains /\ Range(scores) \subseteq Nat
    /\ zlife \in Nat /\ (scores = Empty => zlife = 0)
    /\ count \in Nat \cup {None}
    /\ clife \in Nat /\ (clife = 0 <=> count = None)
    /\ pc \in [Reqs -> Fetching \cup {"idle", "waiting"}]
    /\ win \in [Reqs -> Windows \cup {None}]
    /\ total \in [Reqs -> Nat]
    /\ populating \subseteq Jobs
    /\ warm \in Jobs
    /\ ingester \in {"off", "truncated", "ingesting", "warming", "warmed", "done"}
    /\ faults \in 0 .. MaxFaults

\* At most one request at a time fetches a window, and whoever waits has a
\* leader who will answer.
Coalesced ==
    /\ \A w \in Windows : Cardinality(Leaders(w)) <= 1
    /\ \A r \in Reqs : pc[r] = "waiting" => Leaders(win[r]) # {}

\* As long as the tables stay what they were, a cached domain has its place in
\* the whole list as its score, whatever pages were asked for in which order,
\* populated late or cut half-way.
ScoresAreRanks ==
    (ingester = "off" /\ sharded = First) =>
        \A d \in DOMAIN scores :
            scores[d] < Cardinality(Source) /\ Sorted(Source)[scores[d] + 1] = d

\* Every request is answered, also one that waits for another's answer.
EveryRequestAnswered == \A r \in Reqs : []<>(pc[r] = "idle")

\* When nobody writes any more, the cached count becomes right and stays so,
\* although late requests and the ingester may have cached an old one.
Quiet == New \subseteq sharded /\ ingester = "done"
CountSettles == <>[]Quiet => <>[](count \in {None, DBCount})


-----------------------------------------------------------------------------
(* What a comment says and the code does not do. *)

\* "For ZSET: Range by score" (reverse_ns.go:183): while the tables stay what
\* they were, a page out of the cache is the page out of the tables.
PagesRight ==
    [][\A r \in Reqs :
          Hit(r) /\ ingester = "off" /\ sharded = First => CachedPage(win[r]) = DBPage(win[r])]_vars
=============================================================================
