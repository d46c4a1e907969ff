---------------------------- MODULE ReverseNSProofs ----------------------------
(***************************************************************************)
(* What TLAPS proves of the reverse lookup, for any tables, pages, number  *)
(* of requests and lives of keys, whatever fails.                          *)
(***************************************************************************)
EXTENDS ReverseNS, FoldLemmas

-----------------------------------------------------------------------------
(* The inductive invariants.                                               *)

\* Whoever is on its way asked for one of the pages.
Asked == \A r \in Reqs : pc[r] # "idle" => win[r] \in Windows

Typed == TypeOK /\ Asked

\* A window has one leader, and whoever waits has one.
OneLeader ==
    /\ \A r, q \in Reqs : pc[r] \in Fetching /\ pc[q] \in Fetching /\ win[r] = win[q] => r = q
    /\ \A r \in Reqs : pc[r] = "waiting" => \E q \in Reqs : pc[q] \in Fetching /\ win[q] = win[r]

\* Domain d is the one at the place, counted from 0, in the sorted list of S.
PlaceIn(S, d, place) == place < Cardinality(S) /\ Sorted(S)[place + 1] = d

\* What is cached or about to be stands at its place, as long as the tables are
\* what they were; and they never become that again.
Ranked ==
    /\ First \subseteq sharded
    /\ (ingester = "off" /\ sharded = First) =>
          /\ \A d \in DOMAIN scores : PlaceIn(Source, d, scores[d])
          /\ \A job \in populating : \A i \in DOMAIN job.domains :
                PlaceIn(Source, job.domains[i], job.offset + i - 1)

-----------------------------------------------------------------------------
(* Sorting.                                                                *)

\* A finite set of numbers with elements has a greatest.
LEMMA Greatest ==
    ASSUME NEW S \in SUBSET Nat, IsFiniteSet(S), S # {}
    PROVE  \E m \in S : \A x \in S : x <= m
<1> DEFINE Good == {T \in SUBSET S : T # {} => \E m \in T : \A x \in T : x <= m}
<1>1. ASSUME NEW T \in SUBSET S, \A U \in SUBSET T : U # T => U \in Good
      PROVE  T \in Good
  <2>1. CASE T = {}
      BY <2>1
  <2>2. CASE T # {}
    <3>1. PICK x \in T : x \in Nat
        BY <2>2
    <3>2. T \ {x} \in Good
        BY <1>1, <3>1
    <3>3. CASE T \ {x} = {}
        BY <3>1, <3>3
    <3>4. CASE T \ {x} # {}
      <4>1. PICK m \in T \ {x} : \A y \in T \ {x} : y <= m
          BY <3>2, <3>4
      <4>2. m \in Nat /\ \A y \in T : y \in Nat
          OBVIOUS
      <4>3. CASE x <= m
          BY <4>1, <4>3
      <4>4. CASE ~(x <= m)
        <5>1. m <= x
            BY <3>1, <4>2, <4>4
        <5>2. \A y \in T : y <= x
            BY <3>1, <4>1, <4>2, <5>1
        <5> QED BY <5>2
      <4> QED BY <4>3, <4>4
    <3> QED BY <3>3, <3>4
  <2> QED BY <2>1, <2>2
<1>2. \A T \in SUBSET S : T \in Good
  <2> HIDE DEF Good
  <2> QED BY <1>1, SubsetInduction
<1> QED BY <1>2

Ascending(s, n) == \A i, j \in 1 .. n : i < j => s[i] < s[j]

\* Every finite set of numbers can be sorted.
LEMMA SortingExists ==
    ASSUME NEW S \in SUBSET Nat, IsFiniteSet(S)
    PROVE  \E s \in [1 .. Cardinality(S) -> S] : Ascending(s, Cardinality(S))
<1> DEFINE Good == {T \in SUBSET S : \E s \in [1 .. Cardinality(T) -> T] : Ascending(s, Cardinality(T))}
<1>1. ASSUME NEW T \in SUBSET S, \A U \in SUBSET T : U # T => U \in Good
      PROVE  T \in Good
  <2>0. IsFiniteSet(T) /\ Cardinality(T) \in Nat /\ T \in SUBSET Nat
    <3>1. IsFiniteSet(T)
        BY FS_Subset
    <3> QED BY <3>1, FS_CardinalityType
  <2>1. CASE T = {}
    <3>1. Cardinality(T) = 0
        BY <2>0, <2>1, FS_EmptySet
    <3>2. [i \in 1 .. 0 |-> i] \in [1 .. 0 -> T] /\ Ascending([i \in 1 .. 0 |-> i], 0)
        BY DEF Ascending
    <3> QED BY <3>1, <3>2
  <2>2. CASE T # {}
    <3>1. PICK m \in T : \A x \in T : x <= m
        BY <2>0, <2>2, Greatest
    <3> DEFINE U == T \ {m}
               n == Cardinality(U)
    <3>2. IsFiniteSet(U) /\ n \in Nat /\ Cardinality(T) = n + 1
      <4>1. IsFiniteSet(U) /\ Cardinality(U) = Cardinality(T) - 1
          BY <2>0, <3>1, FS_RemoveElement
      <4>2. Cardinality(U) \in Nat
          BY <4>1, FS_CardinalityType
      <4> QED BY <2>0, <4>1, <4>2
    <3>3. U \in Good
        BY <1>1, <3>1
    <3>4. PICK s \in [1 .. n -> U] : Ascending(s, n)
        BY <3>3
    <3>5. \A x \in U : x \in Nat /\ x < m
        BY <2>0, <3>1
    <3> DEFINE t == [i \in 1 .. n + 1 |-> IF i = n + 1 THEN m ELSE s[i]]
    <3> HIDE DEF U, n
    <3>6. t \in [1 .. n + 1 -> T]
      <4>1. ASSUME NEW i \in 1 .. n + 1 PROVE (IF i = n + 1 THEN m ELSE s[i]) \in T
        <5>1. i # n + 1 => i \in 1 .. n
            BY <3>2
        <5>2. U \subseteq T
            BY DEF U
        <5> QED BY <3>4, <5>1, <5>2
      <4> QED BY <4>1
    <3>7. ASSUME NEW i \in 1 .. n + 1, NEW j \in 1 .. n + 1, i < j PROVE t[i] < t[j]
      <4>1. i \in 1 .. n /\ i # n + 1
          BY <3>2, <3>7
      <4>2. t[i] = s[i] /\ s[i] \in U
          BY <3>4, <4>1
      <4>3. CASE j = n + 1
        <5>1. t[j] = m
            BY <4>3
        <5> HIDE DEF t
        <5> QED BY <3>5, <4>2, <5>1
      <4>4. CASE j # n + 1
        <5>1. j \in 1 .. n
            BY <3>2, <4>4
        <5>2. t[j] = s[j]
            BY <4>4
        <5> HIDE DEF t
        <5> QED BY <3>4, <3>7, <4>1, <4>2, <5>1, <5>2 DEF Ascending
      <4> QED BY <4>3, <4>4
    <3>8. Ascending(t, n + 1)
      <4> HIDE DEF t
      <4> QED BY <3>7 DEF Ascending
    <3> HIDE DEF t
    <3>9. \E u \in [1 .. Cardinality(T) -> T] : Ascending(u, Cardinality(T))
        BY <3>2, <3>6, <3>8
    <3> QED BY <3>9
  <2> QED BY <2>1, <2>2
<1>2. S \in Good
  <2>1. \A T \in SUBSET S : T \in Good
    <3> HIDE DEF Good
    <3> QED BY <1>1, SubsetInduction
  <2> QED BY <2>1
<1> QED BY <1>2

\* Sorting a finite set of numbers lists its elements.
LEMMA SortedType ==
    ASSUME NEW S \in SUBSET Nat, IsFiniteSet(S)
    PROVE  /\ Sorted(S) \in Seq(S) /\ Len(Sorted(S)) = Cardinality(S)
           /\ Cardinality(S) \in Nat
<1>1. Cardinality(S) \in Nat
    BY FS_CardinalityType
<1>2. \E s \in [1 .. Cardinality(S) -> S] : \A i, j \in 1 .. Cardinality(S) : i < j => s[i] < s[j]
    BY SortingExists DEF Ascending
<1>3. Sorted(S) \in [1 .. Cardinality(S) -> S]
    BY <1>2 DEF Sorted
<1>4. Sorted(S) \in Seq(S)
    BY <1>1, <1>3
<1> QED BY <1>1, <1>3, <1>4

\* A page of a list holds what stands in the list from the offset on.
LEMMA SliceElements ==
    ASSUME NEW S, NEW s \in Seq(S), NEW w \in [offset : Nat, limit : Nat \ {0}]
    PROVE  /\ Slice(s, w) \in Seq(S)
           /\ \A i \in DOMAIN Slice(s, w) :
                 w.offset + i \in 1 .. Len(s) /\ Slice(s, w)[i] = s[w.offset + i]
<1> DEFINE from == w.offset + 1
           to == IF w.offset + w.limit < Len(s) THEN w.offset + w.limit ELSE Len(s)
<1>0. w.offset \in Nat /\ w.limit \in Nat \ {0} /\ Len(s) \in Nat /\ DOMAIN s = 1 .. Len(s)
    BY LenProperties
<1>1. from \in Nat /\ to \in Nat /\ to <= Len(s) /\ from >= 1
    BY <1>0
<1>2. \A i \in from .. to : s[i] \in S
  <2> HIDE DEF from, to
  <2>1. \A i \in from .. to : i \in 1 .. Len(s)
      BY <1>0, <1>1
  <2> QED BY <2>1, ElementOfSeq
<1>3. Slice(s, w) = SubSeq(s, from, to)
    BY DEF Slice
<1>4. from - 1 = w.offset
    BY <1>0
<1> HIDE DEF from, to
<1>5. /\ SubSeq(s, from, to) \in Seq(S)
      /\ Len(SubSeq(s, from, to)) = IF from <= to THEN to - from + 1 ELSE 0
      /\ \A i \in 1 .. to - from + 1 : SubSeq(s, from, to)[i] = s[from + i - 1]
  <2>1. from \in Int /\ to \in Int
      BY <1>1
  <2> QED BY <1>2, <2>1, SubSeqProperties
<1>6. DOMAIN SubSeq(s, from, to) = 1 .. Len(SubSeq(s, from, to))
    BY <1>5, LenProperties
<1>7. ASSUME NEW i \in DOMAIN SubSeq(s, from, to)
      PROVE  w.offset + i \in 1 .. Len(s) /\ SubSeq(s, from, to)[i] = s[w.offset + i]
  <2>1. i \in 1 .. to - from + 1
      BY <1>1, <1>5, <1>6
  <2>2. from + i - 1 = w.offset + i /\ from + i - 1 \in 1 .. Len(s)
      BY <1>0, <1>1, <1>4, <2>1
  <2> QED BY <1>5, <2>1, <2>2
<1> QED BY <1>3, <1>5, <1>7

-----------------------------------------------------------------------------
(* Types.                                                                  *)

\* What ScyllaDB answers.
LEMMA TableTypes ==
    ASSUME legacy \subseteq Domains, sharded \subseteq Domains
    PROVE  /\ Source \in SUBSET Nat /\ IsFiniteSet(Source) /\ Source \subseteq Domains
           /\ Sorted(Source) \in Seq(Domains) /\ Len(Sorted(Source)) = Cardinality(Source)
           /\ Sorted(legacy) \in Seq(Domains)
           /\ DBCount \in Nat /\ Cardinality(Source) \in Nat
<1>0. Domains \subseteq Nat /\ IsFiniteSet(Domains)
    BY LookupAssumption
<1>1. ASSUME NEW T \in SUBSET Domains
      PROVE  /\ T \in SUBSET Nat /\ IsFiniteSet(T)
             /\ Cardinality(T) \in Nat
             /\ Sorted(T) \in Seq(Domains) /\ Len(Sorted(T)) = Cardinality(T)
  <2>1. T \in SUBSET Nat /\ IsFiniteSet(T)
      BY <1>0, FS_Subset
  <2>2. Sorted(T) \in Seq(T) /\ Len(Sorted(T)) = Cardinality(T) /\ Cardinality(T) \in Nat
      BY <2>1, SortedType
  <2>3. Seq(T) \subseteq Seq(Domains)
      OBVIOUS
  <2> QED BY <2>1, <2>2, <2>3
<1>2. Source \in SUBSET Domains /\ legacy \in SUBSET Domains /\ sharded \in SUBSET Domains
    BY DEF Source
<1>3. DBCount \in Nat
    BY <1>1, <1>2 DEF DBCount
<1> QED BY <1>1, <1>2, <1>3

\* A page of the tables is made of their domains, each at its place.
LEMMA PageTypes ==
    ASSUME legacy \subseteq Domains, sharded \subseteq Domains, NEW w \in Windows
    PROVE  /\ DBPage(w) \in Seq(Domains) /\ w.offset \in Nat
           /\ \A i \in DOMAIN DBPage(w) : PlaceIn(Source, DBPage(w)[i], w.offset + i - 1)
<1>1. w \in [offset : Nat, limit : Nat \ {0}]
    BY LookupAssumption
<1>2. /\ Sorted(Source) \in Seq(Domains) /\ Len(Sorted(Source)) = Cardinality(Source)
      /\ Cardinality(Source) \in Nat
    BY TableTypes
<1>3. /\ DBPage(w) \in Seq(Domains)
      /\ \A i \in DOMAIN DBPage(w) :
            w.offset + i \in 1 .. Len(Sorted(Source)) /\ DBPage(w)[i] = Sorted(Source)[w.offset + i]
    BY <1>1, <1>2, SliceElements DEF DBPage
<1>4. ASSUME NEW i \in DOMAIN DBPage(w) PROVE PlaceIn(Source, DBPage(w)[i], w.offset + i - 1)
  <2>1. DOMAIN DBPage(w) = 1 .. Len(DBPage(w)) /\ Len(DBPage(w)) \in Nat
      BY <1>3, LenProperties
  <2>2. i \in Nat /\ w.offset \in Nat
      BY <1>1, <2>1
  <2>3. (w.offset + i - 1) + 1 = w.offset + i /\ w.offset + i - 1 < Cardinality(Source)
      BY <1>2, <1>3, <2>2
  <2> QED BY <1>3, <2>3 DEF PlaceIn
<1> QED BY <1>1, <1>3, <1>4

\* What ZADD leaves in the sorted set.
LEMMA AddType ==
    ASSUME DOMAIN scores \subseteq Domains, Range(scores) \subseteq Nat,
           NEW d \in Domains, NEW n \in Nat, ZAdd(d, n)
    PROVE  /\ DOMAIN scores' \subseteq Domains /\ Range(scores') \subseteq Nat
           /\ scores' # Empty /\ zlife' = zlife
           /\ \A e \in DOMAIN scores' :
                 \/ e \in DOMAIN scores /\ scores'[e] = scores[e]
                 \/ e = d /\ scores'[e] = n
<1>1. /\ DOMAIN scores' = DOMAIN scores \cup {d} /\ zlife' = zlife
      /\ \A e \in DOMAIN scores' : scores'[e] = IF e = d THEN n ELSE scores[e]
    BY DEF ZAdd
<1>2. \A e \in DOMAIN scores : scores[e] \in Nat
    BY DEF Range
<1>3. \A e \in DOMAIN scores' : scores'[e] \in Nat
    BY <1>1, <1>2
<1>4. Range(scores') \subseteq Nat
    BY <1>3 DEF Range
<1>5. d \in DOMAIN scores' /\ DOMAIN Empty = {}
    BY <1>1 DEF Empty
<1>6. scores' # Empty
    BY <1>5
<1> QED BY <1>1, <1>4, <1>6

\* What is next in a pipeline, and what is left after it.
LEMMA RestType ==
    ASSUME NEW job \in Jobs, job.domains # <<>>
    PROVE  /\ Head(job.domains) \in Domains /\ job.offset \in Nat
           /\ Rest(job) \in Jobs
           /\ 1 \in DOMAIN job.domains /\ Head(job.domains) = job.domains[1]
           /\ \A i \in DOMAIN Rest(job).domains :
                 /\ i + 1 \in DOMAIN job.domains
                 /\ Rest(job).domains[i] = job.domains[i + 1]
                 /\ Rest(job).offset + i - 1 = job.offset + (i + 1) - 1
<1>1. job.domains \in Seq(Domains) /\ job.offset \in Nat
    BY DEF Jobs
<1>2. /\ Head(job.domains) \in Domains /\ Tail(job.domains) \in Seq(Domains)
      /\ Len(Tail(job.domains)) = Len(job.domains) - 1
      /\ \A i \in 1 .. Len(Tail(job.domains)) : Tail(job.domains)[i] = job.domains[i + 1]
    BY <1>1, HeadTailProperties
<1>3. /\ DOMAIN job.domains = 1 .. Len(job.domains) /\ Len(job.domains) \in Nat
      /\ DOMAIN Tail(job.domains) = 1 .. Len(Tail(job.domains))
    BY <1>1, <1>2, LenProperties
<1>4. Len(job.domains) # 0
    BY <1>1, EmptySeq
<1>5. Head(job.domains) = job.domains[1]
    BY <1>1
<1>6. Rest(job).domains = Tail(job.domains) /\ Rest(job).offset = job.offset + 1
    BY DEF Rest
<1>7. Rest(job) \in Jobs
    BY <1>1, <1>2 DEF Rest, Jobs
<1>8. 1 \in DOMAIN job.domains
    BY <1>3, <1>4
<1>9. ASSUME NEW i \in DOMAIN Rest(job).domains
      PROVE  /\ i + 1 \in DOMAIN job.domains
             /\ Rest(job).domains[i] = job.domains[i + 1]
             /\ Rest(job).offset + i - 1 = job.offset + (i + 1) - 1
  <2>1. i \in 1 .. Len(Tail(job.domains))
      BY <1>3, <1>6
  <2>2. Rest(job).domains[i] = job.domains[i + 1]
      BY <1>2, <1>6, <2>1
  <2>3. i \in Nat /\ i + 1 \in 1 .. Len(job.domains)
      BY <1>2, <1>3, <2>1
  <2>4. Rest(job).offset + i - 1 = job.offset + (i + 1) - 1
      BY <1>1, <1>6, <2>3
  <2> QED BY <1>3, <2>2, <2>3, <2>4
<1> QED BY <1>1, <1>2, <1>5, <1>7, <1>8, <1>9

\* The empty sorted set.
LEMMA EmptyType == DOMAIN Empty = {} /\ Range(Empty) = {}
BY DEF Empty, Range

Places == Fetching \cup {"idle", "waiting"}

\* A request goes on.
LEMMA GotoType ==
    ASSUME Typed, NEW r \in Reqs, NEW from \in Fetching, NEW to \in Fetching, Goto(r, from, to),
           UNCHANGED win
    PROVE  /\ pc' \in [Reqs -> Places] /\ win' \in [Reqs -> Windows \cup {None}]
           /\ \A q \in Reqs : pc'[q] # "idle" => win'[q] \in Windows
           /\ \A q \in Reqs : pc'[q] \in Fetching <=> pc[q] \in Fetching
           /\ \A q \in Reqs : pc'[q] = "waiting" <=> pc[q] = "waiting"
<1>0. pc \in [Reqs -> Places] /\ win \in [Reqs -> Windows \cup {None}]
      /\ \A q \in Reqs : pc[q] # "idle" => win[q] \in Windows
    BY DEF Typed, TypeOK, Asked, Places
<1>1. pc[r] = from /\ pc' = [pc EXCEPT ![r] = to] /\ win' = win
    BY DEF Goto
<1>2. from \in Places /\ to \in Places /\ from # "idle" /\ from # "waiting" /\ to # "idle" /\ to # "waiting"
    BY DEF Fetching, Places
<1>3. pc' \in [Reqs -> Places] /\ \A q \in Reqs : pc'[q] = IF q = r THEN to ELSE pc[q]
    BY <1>0, <1>1, <1>2
<1> QED BY <1>0, <1>1, <1>2, <1>3

\* A response goes to the leader and to its followers.
LEMMA FinishType ==
    ASSUME Typed, NEW r \in Reqs, Finish(r)
    PROVE  /\ pc' \in [Reqs -> Places] /\ win' \in [Reqs -> Windows \cup {None}]
           /\ total' \in [Reqs -> Nat]
           /\ \A q \in Reqs : pc'[q] # "idle" => win'[q] \in Windows
           /\ pc'[r] = "idle"
           /\ \A q \in Reqs \ {r} : IF pc[q] = "waiting" /\ win[q] = win[r]
                                    THEN pc'[q] = "idle"
                                    ELSE pc'[q] = pc[q] /\ win'[q] = win[q]
<1>0. pc \in [Reqs -> Places] /\ win \in [Reqs -> Windows \cup {None}] /\ total \in [Reqs -> Nat]
      /\ \A q \in Reqs : pc[q] # "idle" => win[q] \in Windows
    BY DEF Typed, TypeOK, Asked, Places
<1> DEFINE all == Followers(r) \cup {r}
<1>1. /\ pc' = [q \in Reqs |-> IF q \in all THEN "idle" ELSE pc[q]]
      /\ win' = [q \in Reqs |-> IF q \in all THEN None ELSE win[q]]
      /\ total' = [total EXCEPT ![r] = 0]
    BY DEF Finish
<1>2. \A q \in Reqs : q \in all <=> (q = r \/ (pc[q] = "waiting" /\ win[q] = win[r]))
    BY DEF Followers
<1> HIDE DEF all
<1>3. "idle" \in Places
    BY DEF Places
<1>4. pc' \in [Reqs -> Places] /\ win' \in [Reqs -> Windows \cup {None}]
    BY <1>0, <1>1, <1>3
<1>5. total' \in [Reqs -> Nat]
    BY <1>0, <1>1
<1>6. \A q \in Reqs : IF q \in all THEN pc'[q] = "idle" ELSE pc'[q] = pc[q] /\ win'[q] = win[q]
    BY <1>1
<1> QED BY <1>0, <1>2, <1>4, <1>5, <1>6

\* The lookup starts in its types...
LEMMA TypedInit == Init => Typed
<1> SUFFICES ASSUME Init PROVE Typed
    OBVIOUS
<1>1. /\ legacy \subseteq Domains /\ sharded \subseteq Domains
      /\ scores = Empty /\ zlife = 0 /\ count = None /\ clife = 0
      /\ populating = {} /\ warm = NoJob /\ ingester = "off" /\ faults \in 0 .. MaxFaults
    BY LookupAssumption DEF Init
<1>2. /\ pc = [r \in Reqs |-> "idle"] /\ win = [r \in Reqs |-> None]
      /\ total = [r \in Reqs |-> 0]
    BY DEF Init
<1>3. /\ pc \in [Reqs -> Fetching \cup {"idle", "waiting"}] /\ win \in [Reqs -> Windows \cup {None}]
      /\ total \in [Reqs -> Nat] /\ \A r \in Reqs : pc[r] = "idle"
    BY <1>2
<1>4. warm \in Jobs
    BY <1>1 DEF NoJob, Jobs
<1>5. TypeOK
    BY <1>1, <1>3, <1>4, EmptyType DEF TypeOK
<1>6. Asked
    BY <1>3 DEF Asked
<1> QED BY <1>5, <1>6 DEF Typed

\* ... and every step keeps them.
LEMMA TypedStep == Typed /\ [Next]_vars => Typed'
<1> SUFFICES ASSUME Typed, [Next]_vars PROVE Typed'
    OBVIOUS
<1>0. /\ legacy \subseteq Domains /\ sharded \subseteq Domains
      /\ DOMAIN scores \subseteq Domains /\ Range(scores) \subseteq Nat
      /\ zlife \in Nat /\ (scores = Empty => zlife = 0)
      /\ count \in Nat \cup {None}
      /\ clife \in Nat /\ (clife = 0 <=> count = None)
      /\ pc \in [Reqs -> Places] /\ win \in [Reqs -> Windows \cup {None}] /\ total \in [Reqs -> Nat]
      /\ populating \subseteq Jobs /\ warm \in Jobs
      /\ ingester \in {"off", "truncated", "ingesting", "warming", "warmed", "done"}
      /\ faults \in 0 .. MaxFaults
      /\ \A r \in Reqs : pc[r] # "idle" => win[r] \in Windows
    BY DEF Typed, TypeOK, Asked, Places
<1>a. /\ TTL \in Nat \ {0} /\ WarmTTL \in Nat \ {0} /\ None \notin Nat /\ MaxFaults \in Nat
      /\ First \subseteq Domains /\ New \subseteq Domains
    BY LookupAssumption
<1>f. Fault \/ faults' = faults => faults' \in 0 .. MaxFaults
    BY <1>0, <1>a DEF Fault
\* The state in the parts that TypeOK keeps apart.
<1>t. ASSUME UNCHANGED <<legacy, sharded>>
      PROVE  legacy' \subseteq Domains /\ sharded' \subseteq Domains
    BY <1>0, <1>t
<1>z. ASSUME UNCHANGED <<scores, zlife>>
      PROVE  /\ DOMAIN scores' \subseteq Domains /\ Range(scores') \subseteq Nat
             /\ zlife' \in Nat /\ (scores' = Empty => zlife' = 0)
    BY <1>0, <1>z
<1>c. ASSUME UNCHANGED <<count, clife>>
      PROVE  count' \in Nat \cup {None} /\ clife' \in Nat /\ (clife' = 0 <=> count' = None)
    BY <1>0, <1>c
<1>q. ASSUME /\ legacy' \subseteq Domains /\ sharded' \subseteq Domains
             /\ DOMAIN scores' \subseteq Domains /\ Range(scores') \subseteq Nat
             /\ zlife' \in Nat /\ (scores' = Empty => zlife' = 0)
             /\ count' \in Nat \cup {None} /\ clife' \in Nat /\ (clife' = 0 <=> count' = None)
             /\ pc' \in [Reqs -> Places] /\ win' \in [Reqs -> Windows \cup {None}]
             /\ total' \in [Reqs -> Nat]
             /\ \A r \in Reqs : pc'[r] # "idle" => win'[r] \in Windows
             /\ populating' \subseteq Jobs /\ warm' \in Jobs
             /\ ingester' \in {"off", "truncated", "ingesting", "warming", "warmed", "done"}
             /\ Fault \/ faults' = faults
      PROVE  Typed'
  <2>1. faults' \in 0 .. MaxFaults
      BY <1>f, <1>q
  <2>2. Empty' = Empty
      BY DEF Empty
  <2> QED BY <1>q, <2>1, <2>2 DEF Typed, TypeOK, Asked, Places
\* A step of a request that leaves the caches, the tables and the writers alone.
<1>r. ASSUME /\ UNCHANGED <<legacy, sharded, scores, zlife, count, clife, populating, ingester, warm>>
             /\ pc' \in [Reqs -> Places] /\ win' \in [Reqs -> Windows \cup {None}]
             /\ total' \in [Reqs -> Nat]
             /\ \A r \in Reqs : pc'[r] # "idle" => win'[r] \in Windows
             /\ Fault \/ faults' = faults
      PROVE  Typed'
    BY <1>0, <1>q, <1>r, <1>t, <1>z, <1>c
<1>1. ASSUME NEW r \in Reqs, NEW w \in Windows, Lead(r, w) \/ Follow(r, w) PROVE Typed'
  <2>1. /\ \E to \in {"count", "waiting"} : pc' = [pc EXCEPT ![r] = to]
        /\ win' = [win EXCEPT ![r] = w]
        /\ UNCHANGED <<legacy, sharded, scores, zlife, count, clife, total, populating, ingester, warm, faults>>
      BY <1>1 DEF Lead, Follow, Goto, tables, zset, counts, batch
  <2>2. {"count", "waiting"} \subseteq Places
      BY DEF Fetching, Places
  <2>3. pc' \in [Reqs -> Places] /\ win' \in [Reqs -> Windows \cup {None}]
      BY <1>0, <2>1, <2>2
  <2>4. \A q \in Reqs : pc'[q] # "idle" => win'[q] \in Windows
      BY <1>0, <2>1
  <2> QED BY <1>0, <1>r, <2>1, <2>3, <2>4
<1>2. ASSUME NEW r \in Reqs, GetCount(r) \/ AskCount(r) PROVE Typed'
  <2>1. /\ \E v \in {count, total[r], DBCount} :
              total' = [total EXCEPT ![r] = v] /\ (v = count => count # None)
        /\ UNCHANGED <<legacy, sharded, scores, zlife, count, clife, win, populating, ingester, warm, faults>>
        /\ \E from, to \in Fetching : Goto(r, from, to)
    <3>1. CASE GetCount(r)
      <4>1. \E to \in Fetching : Goto(r, "count", to)
          BY <3>1 DEF GetCount, Fetching
      <4>2. "count" \in Fetching
          BY DEF Fetching
      <4>3. UNCHANGED <<legacy, sharded, scores, zlife, count, clife, win, populating, ingester, warm, faults>>
          BY <3>1 DEF GetCount, tables, zset, counts, batch
      <4>4. total' = [total EXCEPT ![r] = IF count = None THEN total[r] ELSE count]
          BY <3>1 DEF GetCount
      <4>5. total[r] \in Nat
          BY <1>0
      <4> QED BY <1>a, <4>1, <4>2, <4>3, <4>4, <4>5
    <3>2. CASE AskCount(r)
      <4>1. Goto(r, "ask", "cacheCount") /\ "ask" \in Fetching /\ "cacheCount" \in Fetching
          BY <3>2 DEF AskCount, Fetching
      <4>2. UNCHANGED <<legacy, sharded, scores, zlife, count, clife, win, populating, ingester, warm, faults>>
          BY <3>2 DEF AskCount, tables, zset, counts, batch
      <4>3. total' = [total EXCEPT ![r] = DBCount] /\ DBCount \in Nat
          BY <1>0, <3>2, TableTypes DEF AskCount
      <4> QED BY <1>a, <4>1, <4>2, <4>3
    <3> QED BY <1>2, <3>1, <3>2
  <2>2. total' \in [Reqs -> Nat]
    <3>1. DBCount \in Nat
        BY <1>0, TableTypes
    <3> QED BY <1>0, <2>1, <3>1
  <2>3. PICK from \in Fetching, to \in Fetching : Goto(r, from, to)
      BY <2>1
  <2>4. /\ pc' \in [Reqs -> Places] /\ win' \in [Reqs -> Windows \cup {None}]
        /\ \A q \in Reqs : pc'[q] # "idle" => win'[q] \in Windows
      BY <2>1, <2>3, GotoType
  <2> QED BY <1>r, <2>1, <2>2, <2>4
<1>3. ASSUME NEW r \in Reqs, CacheCount(r) \/ DropCount(r) PROVE Typed'
  <2>1. /\ UNCHANGED <<legacy, sharded, scores, zlife, win, total, populating, ingester, warm>>
        /\ Fault \/ faults' = faults
      BY <1>3 DEF CacheCount, DropCount, tables, zset, batch
  <2>2. count' \in Nat \cup {None} /\ clife' \in Nat /\ (clife' = 0 <=> count' = None)
    <3>1. \/ count' = total[r] /\ clife' = TTL
          \/ UNCHANGED <<count, clife>>
          \/ count' = None /\ clife' = 0
        BY <1>3 DEF CacheCount, DropCount, counts
    <3>2. total[r] \in Nat
        BY <1>0
    <3> QED BY <1>0, <1>a, <3>1, <3>2
  <2>3. PICK from \in Fetching, to \in Fetching : Goto(r, from, to)
    <3>1. Goto(r, "cacheCount", "range") \/ Goto(r, "drop", "recount")
        BY <1>3 DEF CacheCount, DropCount
    <3>2. {"cacheCount", "range", "drop", "recount"} \subseteq Fetching
        BY DEF Fetching
    <3> QED BY <3>1, <3>2
  <2>4. /\ pc' \in [Reqs -> Places] /\ win' \in [Reqs -> Windows \cup {None}]
        /\ \A q \in Reqs : pc'[q] # "idle" => win'[q] \in Windows
      BY <2>1, <2>3, GotoType
  <2> QED BY <1>0, <1>q, <1>t, <1>z, <2>1, <2>2, <2>4
<1>4. ASSUME NEW r \in Reqs, Miss(r) \/ (ReadNothing(r) /\ total[r] > 0) PROVE Typed'
  <2>1. /\ UNCHANGED <<legacy, sharded, scores, zlife, count, clife, win, total, populating, ingester, warm>>
        /\ Fault \/ faults' = faults
      BY <1>4 DEF Miss, ReadNothing, tables, zset, counts, batch
  <2>2. PICK from \in Fetching, to \in Fetching : Goto(r, from, to)
    <3>1. Goto(r, "range", "read") \/ Goto(r, "read", "drop")
        BY <1>4 DEF Miss, ReadNothing
    <3>2. {"range", "read", "drop"} \subseteq Fetching
        BY DEF Fetching
    <3> QED BY <3>1, <3>2
  <2>3. /\ pc' \in [Reqs -> Places] /\ win' \in [Reqs -> Windows \cup {None}]
        /\ \A q \in Reqs : pc'[q] # "idle" => win'[q] \in Windows
      BY <2>1, <2>2, GotoType
  <2> QED BY <1>0, <1>r, <2>1, <2>3
<1>5. ASSUME NEW r \in Reqs,
             Hit(r) \/ Recount(r) \/ Fails(r) \/ (ReadNothing(r) /\ ~(total[r] > 0))
      PROVE  Typed'
  <2>1. /\ UNCHANGED <<legacy, sharded, scores, zlife, count, clife, populating, ingester, warm>>
        /\ Finish(r) /\ (Fault \/ faults' = faults)
      BY <1>5 DEF Hit, Recount, Fails, ReadNothing, tables, zset, counts, batch
  <2>2. /\ pc' \in [Reqs -> Places] /\ win' \in [Reqs -> Windows \cup {None}] /\ total' \in [Reqs -> Nat]
        /\ \A q \in Reqs : pc'[q] # "idle" => win'[q] \in Windows
      BY <2>1, FinishType
  <2> QED BY <1>r, <2>1, <2>2
<1>6. ASSUME NEW r \in Reqs, ReadPage(r) PROVE Typed'
  <2>1. /\ UNCHANGED <<legacy, sharded, scores, zlife, count, clife, ingester, warm, faults>>
        /\ Finish(r) /\ pc[r] = "read" /\ DBPage(win[r]) # <<>>
        /\ populating' = populating \cup {[offset |-> win[r].offset, domains |-> DBPage(win[r])]}
      BY <1>6 DEF ReadPage, tables, zset, counts, batch
  <2>2. /\ pc' \in [Reqs -> Places] /\ win' \in [Reqs -> Windows \cup {None}] /\ total' \in [Reqs -> Nat]
        /\ \A q \in Reqs : pc'[q] # "idle" => win'[q] \in Windows
      BY <2>1, FinishType
  <2>3. win[r] \in Windows
      BY <1>0, <2>1
  <2>4. populating' \subseteq Jobs
    <3>1. DBPage(win[r]) \in Seq(Domains) /\ win[r].offset \in Nat
        BY <1>0, <2>3, PageTypes
    <3>2. [offset |-> win[r].offset, domains |-> DBPage(win[r])] \in Jobs
        BY <3>1 DEF Jobs
    <3> QED BY <1>0, <2>1, <3>2
  <2> QED BY <1>0, <1>q, <1>t, <1>z, <1>c, <2>1, <2>2, <2>4
<1>7. ASSUME NEW job \in populating, Populating(job) PROVE Typed'
  <2>1. job \in Jobs
      BY <1>0
  <2>2. CASE Populate(job)
    <3>1. /\ UNCHANGED <<legacy, sharded, count, clife, pc, win, total, ingester, warm, faults>>
          /\ populating' = (populating \ {job}) \cup {Rest(job)} /\ job.domains # <<>>
          /\ ZAdd(Head(job.domains), job.offset)
        BY <2>2 DEF Populate, tables, counts, reqs, batch
    <3>2. Head(job.domains) \in Domains /\ job.offset \in Nat /\ Rest(job) \in Jobs
        BY <2>1, <3>1, RestType
    <3>3. /\ DOMAIN scores' \subseteq Domains /\ Range(scores') \subseteq Nat
          /\ zlife' \in Nat /\ (scores' = Empty => zlife' = 0)
        BY <1>0, <3>1, <3>2, AddType
    <3> QED BY <1>0, <1>q, <1>t, <1>c, <3>1, <3>2, <3>3
  <2>3. CASE PopulateExpire(job)
    <3>1. /\ UNCHANGED <<legacy, sharded, scores, count, clife, pc, win, total, ingester, warm, faults>>
          /\ populating' \subseteq populating
          /\ zlife' = (IF scores = Empty THEN 0 ELSE TTL)
        BY <2>3 DEF PopulateExpire, Expire, tables, counts, reqs, batch
    <3> QED BY <1>0, <1>a, <1>q, <1>t, <1>c, <3>1
  <2>4. CASE PopulateFails(job)
    <3>1. /\ UNCHANGED <<legacy, sharded, scores, zlife, count, clife, pc, win, total, ingester, warm>>
          /\ populating' \subseteq populating /\ Fault
        BY <2>4 DEF PopulateFails, tables, zset, counts, reqs, batch
    <3> QED BY <1>0, <1>q, <1>t, <1>z, <1>c, <3>1
  <2> QED BY <1>7, <2>2, <2>3, <2>4 DEF Populating
<1>8. CASE Tick
  <2>1. /\ UNCHANGED <<legacy, sharded, pc, win, total, populating, ingester, warm, faults>>
        /\ zlife' = (IF zlife > 0 THEN zlife - 1 ELSE 0)
        /\ scores' = (IF zlife = 1 THEN Empty ELSE scores)
        /\ clife' = (IF clife > 0 THEN clife - 1 ELSE 0)
        /\ count' = (IF clife = 1 THEN None ELSE count)
      BY <1>8 DEF Tick, tables, reqs, batch
  <2>2. /\ DOMAIN scores' \subseteq Domains /\ Range(scores') \subseteq Nat
        /\ zlife' \in Nat /\ (scores' = Empty => zlife' = 0)
      BY <1>0, <2>1, EmptyType
  <2>3. count' \in Nat \cup {None} /\ clife' \in Nat /\ (clife' = 0 <=> count' = None)
      BY <1>0, <2>1
  <2> QED BY <1>0, <1>q, <1>t, <2>1, <2>2, <2>3
<1>9. ASSUME NEW d \in Domains, Insert(d) PROVE Typed'
  <2>1. /\ UNCHANGED <<legacy, scores, zlife, count, clife, pc, win, total, populating, ingester, warm, faults>>
        /\ sharded' = sharded \cup {d}
      BY <1>9 DEF Insert, zset, counts, reqs, batch
  <2>2. legacy' \subseteq Domains /\ sharded' \subseteq Domains
      BY <1>0, <2>1
  <2> QED BY <1>0, <1>q, <1>z, <1>c, <2>1, <2>2
<1>10. CASE Truncate \/ SkipClear \/ SkipWarm \/ WarmRead \/ WarmFails
  <2>1. /\ UNCHANGED <<sharded, scores, zlife, count, clife, pc, win, total, populating>>
        /\ ingester' \in {"truncated", "ingesting", "warming", "done"}
        /\ legacy' \in {legacy, {}}
        /\ warm' \in {warm, NoJob, [offset |-> 0, domains |-> Sorted(legacy)]}
        /\ Fault \/ faults' = faults
      BY <1>10 DEF Truncate, SkipClear, SkipWarm, WarmRead, WarmFails, tables, zset, counts, reqs
  <2>2. Sorted(legacy) \in Seq(Domains)
      BY <1>0, TableTypes
  <2>3. {NoJob, [offset |-> 0, domains |-> Sorted(legacy)]} \subseteq Jobs
      BY <2>2 DEF NoJob, Jobs
  <2> QED BY <1>0, <1>q, <1>z, <1>c, <2>1, <2>3
<1>11. CASE FlushDB
  <2>1. /\ UNCHANGED <<legacy, sharded, pc, win, total, populating, warm>>
        /\ ingester' = "ingesting"
        /\ \/ scores' = Empty /\ zlife' = 0 /\ count' = None /\ clife' = 0 /\ faults' = faults
           \/ UNCHANGED <<scores, zlife, count, clife>> /\ Fault
      BY <1>11 DEF FlushDB, tables, reqs, zset, counts
  <2>2. /\ DOMAIN scores' \subseteq Domains /\ Range(scores') \subseteq Nat
        /\ zlife' \in Nat /\ (scores' = Empty => zlife' = 0)
        /\ count' \in Nat \cup {None} /\ clife' \in Nat /\ (clife' = 0 <=> count' = None)
      BY <1>z, <1>c, <2>1, EmptyType
  <2> QED BY <1>0, <1>q, <1>t, <2>1, <2>2
<1>12. CASE WarmAdd \/ WarmCount \/ WarmExpire
  <2>1. CASE WarmAdd
    <3>1. /\ UNCHANGED <<legacy, sharded, count, clife, pc, win, total, populating, ingester, faults>>
          /\ warm' = Rest(warm) /\ warm.domains # <<>>
          /\ ZAdd(Head(warm.domains), warm.offset)
        BY <2>1 DEF WarmAdd, tables, counts, reqs
    <3>2. Head(warm.domains) \in Domains /\ warm.offset \in Nat /\ Rest(warm) \in Jobs
        BY <1>0, <3>1, RestType
    <3>3. /\ DOMAIN scores' \subseteq Domains /\ Range(scores') \subseteq Nat
          /\ zlife' \in Nat /\ (scores' = Empty => zlife' = 0)
        BY <1>0, <3>1, <3>2, AddType
    <3> QED BY <1>0, <1>q, <1>t, <1>c, <3>1, <3>2, <3>3
  <2>2. CASE WarmCount
    <3>1. /\ UNCHANGED <<legacy, sharded, scores, zlife, pc, win, total, populating, faults>>
          /\ ingester' = "warmed" /\ count' = warm.offset /\ clife' = WarmTTL /\ warm' = NoJob
        BY <2>2 DEF WarmCount, tables, zset, reqs
    <3>2. warm.offset \in Nat /\ NoJob \in Jobs
        BY <1>0 DEF Jobs, NoJob
    <3> QED BY <1>0, <1>a, <1>q, <1>t, <1>z, <3>1, <3>2
  <2>3. CASE WarmExpire
    <3>1. /\ UNCHANGED <<legacy, sharded, scores, count, clife, pc, win, total, populating, warm, faults>>
          /\ ingester' = "done" /\ zlife' = (IF scores = Empty THEN 0 ELSE WarmTTL)
        BY <2>3 DEF WarmExpire, Expire, tables, counts, reqs
    <3> QED BY <1>0, <1>a, <1>q, <1>t, <1>c, <3>1
  <2> QED BY <1>12, <2>1, <2>2, <2>3
<1>13. CASE UNCHANGED vars
  <2>1. UNCHANGED <<legacy, sharded, scores, zlife, count, clife, pc, win, total, populating, ingester,
                    warm, faults>>
      BY <1>13 DEF vars, tables, zset, counts, reqs, batch
  <2> QED BY <1>0, <1>r, <2>1
<1>14. ASSUME NEW r \in Reqs, Work(r) PROVE Typed'
    BY <1>2, <1>3, <1>4, <1>5, <1>6, <1>14 DEF Work
<1> QED BY <1>1, <1>5, <1>7, <1>8, <1>9, <1>10, <1>11, <1>12, <1>13, <1>14
      DEF Next, Warming

\* Tables, keys, requests and the ingester keep to their types, the cached count
\* exists exactly while it has time left to live, and a set without members has
\* none, wherever a pipeline was cut.
THEOREM TypesCorrect == Spec => []TypeOK
<1>1. Typed => TypeOK
    BY DEF Typed
<1> QED BY <1>1, TypedInit, TypedStep, PTL DEF Spec

-----------------------------------------------------------------------------
(* Coalescing.                                                             *)

\* Steps of requests that leave leaders and followers what they are.
LEMMA LeadersStay ==
    ASSUME OneLeader, win' = win,
           \A q \in Reqs : pc'[q] \in Fetching <=> pc[q] \in Fetching,
           \A q \in Reqs : pc'[q] = "waiting" <=> pc[q] = "waiting"
    PROVE  OneLeader'
BY DEF OneLeader, Fetching

\* A response leaves nobody waiting for it.
LEMMA FinishLeaders ==
    ASSUME Typed, OneLeader, NEW r \in Reqs, pc[r] \in Fetching, Finish(r)
    PROVE  OneLeader'
<1>0. /\ pc'[r] = "idle"
      /\ \A q \in Reqs \ {r} : IF pc[q] = "waiting" /\ win[q] = win[r]
                               THEN pc'[q] = "idle"
                               ELSE pc'[q] = pc[q] /\ win'[q] = win[q]
    BY FinishType
<1>1. "idle" \notin Fetching /\ "waiting" \notin Fetching
    BY DEF Fetching
<1>2. \A q \in Reqs : pc'[q] \in Fetching => q # r /\ pc[q] \in Fetching /\ win'[q] = win[q]
    BY <1>0, <1>1
<1>3. ASSUME NEW q \in Reqs, NEW p \in Reqs, pc'[q] \in Fetching, pc'[p] \in Fetching, win'[q] = win'[p]
      PROVE  q = p
    BY <1>2, <1>3 DEF OneLeader
<1>4. ASSUME NEW q \in Reqs, pc'[q] = "waiting"
      PROVE  \E p \in Reqs : pc'[p] \in Fetching /\ win'[p] = win'[q]
  <2>1. pc[q] = "waiting" /\ win'[q] = win[q] /\ win[q] # win[r]
      BY <1>0, <1>4
  <2>2. PICK p \in Reqs : pc[p] \in Fetching /\ win[p] = win[q]
      BY <2>1 DEF OneLeader
  <2>3. p # r /\ pc[p] # "waiting"
      BY <1>1, <2>1, <2>2
  <2>4. pc'[p] = pc[p] /\ win'[p] = win[p]
      BY <1>0, <2>3
  <2> QED BY <2>1, <2>2, <2>4
<1> QED BY <1>3, <1>4 DEF OneLeader, Fetching

\* Every step leaves each window with one leader at most, and none waiting
\* without.
LEMMA OneLeaderStep == Typed /\ OneLeader /\ [Next]_vars => OneLeader'
<1> SUFFICES ASSUME Typed, OneLeader, [Next]_vars PROVE OneLeader'
    OBVIOUS
<1>0. pc \in [Reqs -> Places] /\ win \in [Reqs -> Windows \cup {None}]
    BY DEF Typed, TypeOK, Places
<1>f. "idle" \notin Fetching /\ "waiting" \notin Fetching /\ "count" \in Fetching
    BY DEF Fetching
<1>s. ASSUME UNCHANGED <<pc, win>> PROVE OneLeader'
  <2>1. pc' = pc /\ win' = win
      BY <1>s
  <2> QED BY <2>1, LeadersStay
<1>1. ASSUME NEW r \in Reqs, NEW w \in Windows, Lead(r, w) PROVE OneLeader'
  <2>1. /\ pc[r] = "idle" /\ pc' = [pc EXCEPT ![r] = "count"] /\ win' = [win EXCEPT ![r] = w]
        /\ \A q \in Reqs : ~(pc[q] \in Fetching /\ win[q] = w)
      BY <1>1 DEF Lead, Goto, Leaders
  <2>2. /\ pc'[r] = "count" /\ win'[r] = w
        /\ \A q \in Reqs \ {r} : pc'[q] = pc[q] /\ win'[q] = win[q]
      BY <1>0, <2>1
  <2>3. ASSUME NEW q \in Reqs, NEW p \in Reqs, pc'[q] \in Fetching, pc'[p] \in Fetching, win'[q] = win'[p]
        PROVE  q = p
      BY <2>1, <2>2, <2>3 DEF OneLeader
  <2>4. ASSUME NEW q \in Reqs, pc'[q] = "waiting"
        PROVE  \E p \in Reqs : pc'[p] \in Fetching /\ win'[p] = win'[q]
    <3>1. q # r /\ pc[q] = "waiting" /\ win'[q] = win[q]
        BY <2>2, <2>4
    <3>2. PICK p \in Reqs : pc[p] \in Fetching /\ win[p] = win[q]
        BY <3>1 DEF OneLeader
    <3>3. p # r
        BY <1>f, <2>1, <3>2
    <3> QED BY <2>2, <3>1, <3>2, <3>3
  <2> QED BY <2>3, <2>4 DEF OneLeader, Fetching
<1>2. ASSUME NEW r \in Reqs, NEW w \in Windows, Follow(r, w) PROVE OneLeader'
  <2>1. /\ pc[r] = "idle" /\ pc' = [pc EXCEPT ![r] = "waiting"] /\ win' = [win EXCEPT ![r] = w]
        /\ \E q \in Reqs : pc[q] \in Fetching /\ win[q] = w
      BY <1>2 DEF Follow, Goto, Leaders
  <2>2. /\ pc'[r] = "waiting" /\ win'[r] = w
        /\ \A q \in Reqs \ {r} : pc'[q] = pc[q] /\ win'[q] = win[q]
      BY <1>0, <2>1
  <2>3. ASSUME NEW q \in Reqs, NEW p \in Reqs, pc'[q] \in Fetching, pc'[p] \in Fetching, win'[q] = win'[p]
        PROVE  q = p
      BY <1>f, <2>2, <2>3 DEF OneLeader
  <2>4. ASSUME NEW q \in Reqs, pc'[q] = "waiting"
        PROVE  \E p \in Reqs : pc'[p] \in Fetching /\ win'[p] = win'[q]
    <3>1. PICK p \in Reqs : pc[p] \in Fetching /\ win[p] = win'[q]
      <4>1. CASE q = r
          BY <2>1, <2>2, <4>1
      <4>2. CASE q # r
        <5>1. pc[q] = "waiting" /\ win'[q] = win[q]
            BY <2>2, <2>4, <4>2
        <5> QED BY <5>1 DEF OneLeader
      <4> QED BY <4>1, <4>2
    <3>2. p # r
        BY <1>f, <2>1, <3>1
    <3> QED BY <2>2, <3>1, <3>2
  <2> QED BY <2>3, <2>4 DEF OneLeader, Fetching
<1>3. ASSUME NEW r \in Reqs, \E from, to \in Fetching : Goto(r, from, to), win' = win
      PROVE  OneLeader'
  <2>1. PICK from \in Fetching, to \in Fetching : Goto(r, from, to)
      BY <1>3
  <2>2. /\ \A q \in Reqs : pc'[q] \in Fetching <=> pc[q] \in Fetching
        /\ \A q \in Reqs : pc'[q] = "waiting" <=> pc[q] = "waiting"
      BY <1>3, <2>1, GotoType
  <2> QED BY <1>3, <2>2, LeadersStay
<1>4. ASSUME NEW r \in Reqs, Work(r) \/ Fails(r) PROVE OneLeader'
  <2>1. CASE \/ GetCount(r) \/ AskCount(r) \/ CacheCount(r) \/ Miss(r) \/ DropCount(r)
             \/ (ReadNothing(r) /\ total[r] > 0)
    <3>1. win' = win
        BY <2>1 DEF GetCount, AskCount, CacheCount, Miss, DropCount, ReadNothing
    <3>2. \E from, to \in {"count", "ask", "cacheCount", "range", "read", "drop", "recount"} :
              Goto(r, from, to)
        BY <2>1 DEF GetCount, AskCount, CacheCount, Miss, DropCount, ReadNothing
    <3>3. \E from, to \in Fetching : Goto(r, from, to)
        BY <3>2 DEF Fetching
    <3> QED BY <1>3, <3>1, <3>3
  <2>2. CASE \/ Hit(r) \/ ReadPage(r) \/ Recount(r) \/ Fails(r)
             \/ (ReadNothing(r) /\ ~(total[r] > 0))
    <3>1. Finish(r) /\ pc[r] \in {"count", "ask", "range", "read", "recount"}
        BY <2>2 DEF Hit, ReadPage, Recount, Fails, ReadNothing
    <3>2. pc[r] \in Fetching
        BY <3>1 DEF Fetching
    <3> QED BY <3>1, <3>2, FinishLeaders
  <2> QED BY <1>4, <2>1, <2>2 DEF Work
<1>5. CASE \/ \E job \in populating : Populating(job)
           \/ \E d \in Domains : Insert(d)
           \/ Truncate \/ FlushDB \/ SkipClear \/ SkipWarm \/ Warming \/ Tick
  <2>1. UNCHANGED <<pc, win>>
      BY <1>5 DEF Populating, Populate, PopulateExpire, PopulateFails, Insert, Truncate, FlushDB, SkipClear,
         SkipWarm, Warming, WarmRead, WarmAdd, WarmCount, WarmExpire, WarmFails, Tick, reqs
  <2> QED BY <1>s, <2>1
<1>6. CASE UNCHANGED vars
    BY <1>s, <1>6 DEF vars, reqs
<1> QED BY <1>1, <1>2, <1>4, <1>5, <1>6 DEF Next

\* So each window has one leader at most.
LEMMA LeadersCounted == OneLeader => Coalesced
<1> SUFFICES ASSUME OneLeader PROVE Coalesced
    OBVIOUS
<1>1. ASSUME NEW w \in Windows PROVE Cardinality(Leaders(w)) <= 1
  <2>1. \A r, q \in Leaders(w) : r = q
      BY DEF OneLeader, Leaders
  <2>2. CASE Leaders(w) = {}
      BY <2>2, FS_EmptySet
  <2>3. CASE Leaders(w) # {}
    <3>1. PICK r \in Leaders(w) : Leaders(w) = {r}
        BY <2>1, <2>3
    <3>2. Cardinality({r}) = 1
        BY FS_Singleton
    <3> QED BY <3>1, <3>2
  <2> QED BY <2>2, <2>3
<1>2. ASSUME NEW r \in Reqs, pc[r] = "waiting" PROVE Leaders(win[r]) # {}
    BY <1>2 DEF OneLeader, Leaders
<1> QED BY <1>1, <1>2 DEF Coalesced

\* At most one request at a time fetches a window, and whoever waits has a
\* leader who will answer.
THEOREM CoalescedCorrect == Spec => []Coalesced
<1>1. Init => OneLeader
  <2>1. Init => \A r \in Reqs : pc[r] = "idle"
      BY DEF Init
  <2>2. "idle" \notin Fetching
      BY DEF Fetching
  <2> QED BY <2>1, <2>2 DEF OneLeader
<1>2. Typed /\ OneLeader /\ [Next]_vars => (Typed /\ OneLeader)'
    BY TypedStep, OneLeaderStep
<1>3. Init => Typed
    BY TypedInit
<1> QED BY <1>1, <1>2, <1>3, LeadersCounted, PTL DEF Spec

-----------------------------------------------------------------------------
(* Places.                                                                 *)

\* Every step that leaves the tables what they were at first caches domains at
\* their places only.
LEMMA RankedStep == Typed /\ Ranked /\ [Next]_vars => Ranked'
<1> SUFFICES ASSUME Typed, Ranked, [Next]_vars PROVE Ranked'
    OBVIOUS
<1>0. /\ legacy \subseteq Domains /\ sharded \subseteq Domains
      /\ DOMAIN scores \subseteq Domains /\ Range(scores) \subseteq Nat
      /\ populating \subseteq Jobs /\ First \subseteq sharded
      /\ \A r \in Reqs : pc[r] # "idle" => win[r] \in Windows
    BY DEF Typed, TypeOK, Asked, Ranked
<1>s. ASSUME legacy' = legacy, sharded' = sharded
      PROVE  Source' = Source
    BY <1>s DEF Source
\* A step that leaves the tables alone and adds to the cache, or to what is to be
\* cached, only what is at its place.
<1>k. ASSUME UNCHANGED <<legacy, sharded, ingester>>,
             \A d \in DOMAIN scores' : \/ d \in DOMAIN scores /\ scores'[d] = scores[d]
                                       \/ ingester = "off" /\ sharded = First => PlaceIn(Source, d, scores'[d]),
             \A job \in populating' :
                \/ job \in populating
                \/ ingester = "off" /\ sharded = First =>
                      \A i \in DOMAIN job.domains : PlaceIn(Source, job.domains[i], job.offset + i - 1)
      PROVE  Ranked'
  <2>1. Source' = Source
      BY <1>k, <1>s
  <2>2. First \subseteq sharded'
      BY <1>0, <1>k
  <2>3. ASSUME ingester' = "off", sharded' = First
        PROVE  /\ \A d \in DOMAIN scores' : PlaceIn(Source, d, scores'[d])
               /\ \A job \in populating' : \A i \in DOMAIN job.domains :
                     PlaceIn(Source, job.domains[i], job.offset + i - 1)
    <3>1. /\ \A d \in DOMAIN scores : PlaceIn(Source, d, scores[d])
          /\ \A job \in populating : \A i \in DOMAIN job.domains :
                PlaceIn(Source, job.domains[i], job.offset + i - 1)
        BY <1>k, <2>3 DEF Ranked
    <3>2. \A d \in DOMAIN scores' : PlaceIn(Source, d, scores'[d])
        BY <1>k, <2>3, <3>1
    <3>3. \A job \in populating' : \A i \in DOMAIN job.domains :
              PlaceIn(Source, job.domains[i], job.offset + i - 1)
      <4>1. ingester = "off" /\ sharded = First
          BY <1>k, <2>3
      <4> QED BY <1>k, <3>1, <4>1
    <3> QED BY <3>2, <3>3
  <2> QED BY <2>1, <2>2, <2>3 DEF Ranked
<1>1. ASSUME NEW r \in Reqs, ReadPage(r) PROVE Ranked'
  <2>1. /\ UNCHANGED <<legacy, sharded, ingester, scores>> /\ pc[r] = "read"
        /\ populating' = populating \cup {[offset |-> win[r].offset, domains |-> DBPage(win[r])]}
      BY <1>1 DEF ReadPage, tables, zset, batch
  <2>2. win[r] \in Windows
      BY <1>0, <2>1
  <2>3. \A i \in DOMAIN DBPage(win[r]) : PlaceIn(Source, DBPage(win[r])[i], win[r].offset + i - 1)
      BY <1>0, <2>2, PageTypes
  <2> QED BY <1>k, <2>1, <2>3
<1>2. ASSUME NEW r \in Reqs, \/ (Work(r) /\ ~ReadPage(r)) \/ Fails(r)
                             \/ \E w \in Windows : Lead(r, w) \/ Follow(r, w)
      PROVE  Ranked'
  <2>1. UNCHANGED <<legacy, sharded, ingester, scores, populating>>
      BY <1>2 DEF Work, GetCount, AskCount, CacheCount, Hit, Miss, ReadNothing, DropCount, Recount,
         Fails, Lead, Follow, tables, zset, batch
  <2> QED BY <1>k, <2>1
<1>3. ASSUME NEW job \in populating, Populate(job) PROVE Ranked'
  <2>0. job \in Jobs
      BY <1>0
  <2>1. /\ UNCHANGED <<legacy, sharded, ingester>> /\ job.domains # <<>>
        /\ populating' = (populating \ {job}) \cup {Rest(job)}
        /\ ZAdd(Head(job.domains), job.offset)
      BY <1>3 DEF Populate, tables, batch
  <2> DEFINE Kept == ingester = "off" /\ sharded = First
  <2>2. /\ Head(job.domains) \in Domains /\ job.offset \in Nat
        /\ 1 \in DOMAIN job.domains /\ Head(job.domains) = job.domains[1]
        /\ \A i \in DOMAIN Rest(job).domains :
              /\ i + 1 \in DOMAIN job.domains
              /\ Rest(job).domains[i] = job.domains[i + 1]
              /\ Rest(job).offset + i - 1 = job.offset + (i + 1) - 1
      BY <2>0, <2>1, RestType
  <2>3. Kept => \A i \in DOMAIN job.domains : PlaceIn(Source, job.domains[i], job.offset + i - 1)
      BY DEF Ranked
  <2>4. \A d \in DOMAIN scores' :
            \/ d \in DOMAIN scores /\ scores'[d] = scores[d]
            \/ d = Head(job.domains) /\ scores'[d] = job.offset
      BY <1>0, <2>1, <2>2, AddType
  <2>5. Kept => PlaceIn(Source, Head(job.domains), job.offset)
    <3>1. job.offset + 1 - 1 = job.offset
        BY <2>2
    <3>2. Kept => PlaceIn(Source, job.domains[1], job.offset + 1 - 1)
        BY <2>2, <2>3
    <3> QED BY <2>2, <3>1, <3>2
  <2>6. Kept => \A i \in DOMAIN Rest(job).domains :
                   PlaceIn(Source, Rest(job).domains[i], Rest(job).offset + i - 1)
      BY <2>2, <2>3
  <2>7. \A d \in DOMAIN scores' :
            \/ d \in DOMAIN scores /\ scores'[d] = scores[d]
            \/ Kept => PlaceIn(Source, d, scores'[d])
      BY <2>4, <2>5
  <2>8. \A j \in populating' :
            \/ j \in populating
            \/ Kept => \A i \in DOMAIN j.domains : PlaceIn(Source, j.domains[i], j.offset + i - 1)
      BY <2>1, <2>6
  <2> QED BY <1>k, <2>1, <2>7, <2>8
<1>4. ASSUME NEW job \in populating, PopulateExpire(job) \/ PopulateFails(job) PROVE Ranked'
  <2>1. UNCHANGED <<legacy, sharded, ingester, scores>> /\ populating' \subseteq populating
      BY <1>4 DEF PopulateExpire, PopulateFails, Expire, tables, zset, batch
  <2> QED BY <1>k, <2>1
<1>5. CASE Tick
  <2>1. UNCHANGED <<legacy, sharded, ingester, populating>> /\ (scores' = scores \/ scores' = Empty)
      BY <1>5 DEF Tick, tables, batch
  <2>2. \A d \in DOMAIN scores' : d \in DOMAIN scores /\ scores'[d] = scores[d]
      BY <2>1, EmptyType
  <2> QED BY <1>k, <2>1, <2>2
<1>6. ASSUME NEW d \in Domains, Insert(d) PROVE Ranked'
  <2>1. sharded' = sharded \cup {d} /\ d \notin sharded
      BY <1>6 DEF Insert
  <2>2. First \subseteq sharded' /\ sharded' # First
      BY <1>0, <2>1
  <2> QED BY <2>2 DEF Ranked
<1>7. CASE Truncate \/ FlushDB \/ SkipClear \/ SkipWarm \/ Warming
  <2>1. ingester' \in {"truncated", "ingesting", "warming", "warmed", "done"} /\ sharded' = sharded
      BY <1>7 DEF Truncate, FlushDB, SkipClear, SkipWarm, Warming, WarmRead, WarmAdd, WarmCount, WarmExpire,
         WarmFails, tables
  <2> QED BY <1>0, <2>1 DEF Ranked
<1>8. CASE UNCHANGED vars
  <2>1. UNCHANGED <<legacy, sharded, ingester, scores, populating>>
      BY <1>8 DEF vars, tables, zset, batch
  <2> QED BY <1>k, <2>1
<1> QED BY <1>1, <1>2, <1>3, <1>4, <1>5, <1>6, <1>7, <1>8 DEF Next, Populating

\* As long as the tables stay what they were, a cached domain has its place in
\* the whole list as its score.
THEOREM ScoresAreRanksCorrect == Spec => []ScoresAreRanks
<1>1. Init => Ranked
  <2>1. Init => First \subseteq sharded /\ scores = Empty /\ populating = {}
      BY DEF Init
  <2> QED BY <2>1, EmptyType DEF Ranked
<1>2. Typed /\ Ranked /\ [Next]_vars => (Typed /\ Ranked)'
    BY TypedStep, RankedStep
<1>3. Ranked => ScoresAreRanks
    BY DEF Ranked, ScoresAreRanks, PlaceIn
<1>4. Init => Typed
    BY TypedInit
<1> QED BY <1>1, <1>2, <1>3, <1>4, PTL DEF Spec
===============================================================================
