------------------------------ MODULE FoldLemmas ------------------------------
(***************************************************************************)
(* Facts about the folds the models are built from: sums over finite sets  *)
(* (SumFunctionOnSet) and the concatenation of a sequence of sequences     *)
(* (FlattenSeq).                                                           *)
(***************************************************************************)
EXTENDS SequencesExt, FiniteSetTheorems, SequenceTheorems, TLAPS

-----------------------------------------------------------------------------
(* Induction, with a set in the place of a predicate.                      *)

\* What holds of a set if it holds of its proper subsets holds of all subsets
\* of a finite set.
LEMMA SubsetInduction ==
    ASSUME NEW S, IsFiniteSet(S), NEW Good,
           \A s \in SUBSET S : (\A t \in SUBSET s : t # s => t \in Good) => s \in Good
    PROVE  \A s \in SUBSET S : s \in Good
<1> DEFINE Bad == {s \in SUBSET S : s \notin Good}
<1> SUFFICES ASSUME Bad # {} PROVE FALSE
    OBVIOUS
<1>1. IsWellFoundedOn(StrictSubsetOrdering(S), FiniteSubsetsOf(S))
    BY FS_StrictSubsetOrderingWellFounded
<1>2. Bad \subseteq FiniteSubsetsOf(S)
    BY FS_FiniteSubsetsOfFinite
<1>3. PICK s \in Bad : \A t \in Bad : <<t, s>> \notin StrictSubsetOrdering(S)
  <2> HIDE DEF Bad
  <2> QED BY <1>1, <1>2, WFMin
<1>4. \A t \in SUBSET s : t # s => t \in Good
    BY <1>3 DEF StrictSubsetOrdering
<1> QED BY <1>3, <1>4

\* The same for numbers, one by one.
LEMMA NatSetInduction ==
    ASSUME NEW Good, 0 \in Good, \A n \in Nat : n \in Good => n + 1 \in Good
    PROVE  \A n \in Nat : n \in Good
<1> DEFINE Bad == {n \in Nat : n \notin Good}
           Less == {p \in Nat \X Nat : p[1] < p[2]}
<1> SUFFICES ASSUME Bad # {} PROVE FALSE
    OBVIOUS
<1>1. OpToRel(<, Nat) = Less
    BY Zenon DEF OpToRel
<1>2. IsWellFoundedOn(Less, Nat)
  <2> HIDE DEF Less
  <2> QED BY NatLessThanWellFounded, <1>1, Zenon
<1>3. PICK n \in Bad : \A m \in Bad : <<m, n>> \notin Less
  <2> Bad \subseteq Nat OBVIOUS
  <2> HIDE DEF Bad, Less
  <2> QED BY <1>2, WFMin
<1>4. n \in Nat /\ n \notin Good /\ n # 0
    OBVIOUS
<1>5. n - 1 \in Nat /\ n - 1 \notin Good
    BY <1>4
<1>6. <<n - 1, n>> \in Less /\ n - 1 \in Bad
    BY <1>4, <1>5
<1> QED BY <1>3, <1>6

-----------------------------------------------------------------------------
(* The function behind a sum: one value for each subset.                   *)

Chosen(s) == CHOOSE x \in s : TRUE

Partial(g, f, S) ==
    g = [s \in SUBSET S |-> IF s = {} THEN 0 ELSE f[Chosen(s)] + g[s \ {Chosen(s)}]]

\* A sum is the last value of any such function, once there is one.
LEMMA SumIsPartial ==
    ASSUME NEW f, NEW S, \E g : Partial(g, f, S)
    PROVE  \E g : Partial(g, f, S) /\ SumFunctionOnSet(f, S) = g[S]
<1> DEFINE G == CHOOSE g : Partial(g, f, S)
<1>1. SumFunctionOnSet(f, S) = G[S]
    BY DEF SumFunctionOnSet, FoldFunctionOnSet, MapThenFoldSet, Chosen, Partial
<1>2. Partial(G, f, S)
  <2> HIDE DEF Partial
  <2> QED OBVIOUS
<1> QED BY <1>1, <1>2

\* Its value on a set is that of a chosen element and of the rest.
LEMMA PartialValue ==
    ASSUME NEW f, NEW S, NEW g, Partial(g, f, S), NEW s \in SUBSET S
    PROVE  g[s] = IF s = {} THEN 0 ELSE f[Chosen(s)] + g[s \ {Chosen(s)}]
BY DEF Partial

\* The element chosen from a set is in it.
LEMMA ChosenIn == ASSUME NEW s, s # {} PROVE Chosen(s) \in s
BY DEF Chosen

\* The functions for a finite set and for a part of it agree on the part.
LEMMA PartialsAgree ==
    ASSUME NEW f, NEW S, IsFiniteSet(S), NEW T \in SUBSET S,
           NEW g, Partial(g, f, S), NEW h, Partial(h, f, T)
    PROVE  \A s \in SUBSET T : g[s] = h[s]
<1> DEFINE Good == {s \in SUBSET T : g[s] = h[s]}
<1>1. ASSUME NEW s \in SUBSET T, \A t \in SUBSET s : t # s => t \in Good
      PROVE  g[s] = h[s]
  <2>1. CASE s = {}
      BY <2>1, PartialValue
  <2>2. CASE s # {}
    <3>1. s \ {Chosen(s)} \in Good
        BY <1>1, <2>2, ChosenIn
    <3> QED BY <3>1, PartialValue
  <2> QED BY <2>1, <2>2
<1>2. IsFiniteSet(T)
    BY FS_Subset
<1>3. \A s \in SUBSET T : s \in Good
  <2>1. \A s \in SUBSET T : (\A t \in SUBSET s : t # s => t \in Good) => s \in Good
      BY <1>1
  <2> HIDE DEF Good
  <2> QED BY <1>2, <2>1, SubsetInduction
<1> QED BY <1>3

\* There is such a function for every finite set.
LEMMA PartialExists ==
    ASSUME NEW f, NEW S, IsFiniteSet(S)
    PROVE  \E g : Partial(g, f, S)
<1> DEFINE Good == {s \in SUBSET S : \E g : Partial(g, f, s)}
<1>1. ASSUME NEW s \in SUBSET S, \A t \in SUBSET s : t # s => t \in Good
      PROVE  s \in Good
  <2> DEFINE P(t) == CHOOSE g : Partial(g, f, t)
             h == [t \in SUBSET s |-> IF t = {} THEN 0
                                      ELSE f[Chosen(t)] + P(t \ {Chosen(t)})[t \ {Chosen(t)}]]
  <2>1. ASSUME NEW t \in SUBSET s, t # s PROVE Partial(P(t), f, t)
    <3>1. \E g : Partial(g, f, t)
        BY <1>1, <2>1
    <3> HIDE DEF Partial
    <3> QED BY <3>1
  <2>2. ASSUME NEW t \in SUBSET s, t # {}
        PROVE  h[t \ {Chosen(t)}] = P(t \ {Chosen(t)})[t \ {Chosen(t)}]
    <3> DEFINE u == t \ {Chosen(t)}
               v == u \ {Chosen(u)}
    <3>1. u \in SUBSET s /\ u # s
        BY <2>2, ChosenIn
    <3>2. Partial(P(u), f, u)
        BY <2>1, <3>1
    <3>3. h[u] = IF u = {} THEN 0 ELSE f[Chosen(u)] + P(v)[v]
        BY <3>1
    <3>4. P(u)[u] = IF u = {} THEN 0 ELSE f[Chosen(u)] + P(u)[v]
      <4> HIDE DEF u, P
      <4> QED BY <3>2, PartialValue
    <3>5. ASSUME u # {} PROVE P(u)[v] = P(v)[v]
      <4>1. v \in SUBSET u /\ v \in SUBSET s /\ v # s /\ IsFiniteSet(u)
          BY <3>1, <3>5, ChosenIn, FS_Subset
      <4>2. Partial(P(v), f, v)
          BY <4>1, <2>1
      <4> HIDE DEF u, v, P
      <4> QED BY <4>1, <4>2, <3>2, PartialsAgree
    <3> QED BY <3>3, <3>4, <3>5
  <2>3. ASSUME NEW t \in SUBSET s
        PROVE  h[t] = IF t = {} THEN 0 ELSE f[Chosen(t)] + h[t \ {Chosen(t)}]
    <3>1. h[t] = IF t = {} THEN 0 ELSE f[Chosen(t)] + P(t \ {Chosen(t)})[t \ {Chosen(t)}]
      <4> HIDE DEF P
      <4> QED OBVIOUS
    <3> HIDE DEF h, P
    <3> QED BY <2>2, <3>1
  <2>4. h = [t \in SUBSET s |-> h[t]]
    <3> HIDE DEF P
    <3> QED OBVIOUS
  <2>5. Partial(h, f, s)
    <3> HIDE DEF h
    <3> QED BY <2>3, <2>4 DEF Partial
  <2> HIDE DEF h, Partial
  <2> QED BY <2>5
<1>2. \A s \in SUBSET S : s \in Good
  <2> HIDE DEF Good
  <2> QED BY <1>1, SubsetInduction
<1> QED BY <1>2

-----------------------------------------------------------------------------
(* Sums over finite sets.                                                  *)

\* SumFunctionOnSet by a short name, whose definition the provers do not expand.
SumOf(f, S) == SumFunctionOnSet(f, S)

\* The sum of nothing is zero.
LEMMA SumEmpty == ASSUME NEW f PROVE SumOf(f, {}) = 0
<1>1. \E g : Partial(g, f, {})
    BY PartialExists, FS_EmptySet
<1>2. PICK g : Partial(g, f, {}) /\ SumOf(f, {}) = g[{}]
    BY <1>1, SumIsPartial DEF SumOf
<1> QED BY <1>2, PartialValue

\* A sum is that of a chosen element and of the rest.
LEMMA SumChosen ==
    ASSUME NEW f, NEW S, IsFiniteSet(S), S # {}
    PROVE  SumOf(f, S) = f[Chosen(S)] + SumOf(f, S \ {Chosen(S)})
<1> DEFINE T == S \ {Chosen(S)}
<1>1. IsFiniteSet(T)
    BY FS_Subset
<1>2. PICK g : Partial(g, f, S) /\ SumOf(f, S) = g[S]
    BY PartialExists, SumIsPartial DEF SumOf
<1>3. PICK h : Partial(h, f, T) /\ SumOf(f, T) = h[T]
    BY <1>1, PartialExists, SumIsPartial DEF SumOf
<1>4. g[T] = h[T]
    BY <1>2, <1>3, PartialsAgree
<1> QED BY <1>2, <1>3, <1>4, PartialValue

\* A sum of integers is one, of natural numbers too.
LEMMA SumType ==
    ASSUME NEW S, IsFiniteSet(S), NEW N \in {Nat, Int}, NEW f, \A x \in S : f[x] \in N
    PROVE  SumOf(f, S) \in N
<1> DEFINE Good == {s \in SUBSET S : SumOf(f, s) \in N}
<1>1. ASSUME NEW s \in SUBSET S, \A t \in SUBSET s : t # s => t \in Good
      PROVE  s \in Good
  <2>1. CASE s = {}
      BY <2>1, SumEmpty
  <2>2. CASE s # {}
    <3>1. s \ {Chosen(s)} \in Good /\ f[Chosen(s)] \in N
        BY <1>1, <2>2, ChosenIn
    <3>2. SumOf(f, s) = f[Chosen(s)] + SumOf(f, s \ {Chosen(s)})
        BY <2>2, SumChosen, FS_Subset
    <3> QED BY <3>1, <3>2
  <2> QED BY <2>1, <2>2
<1>2. \A s \in SUBSET S : s \in Good
  <2> HIDE DEF Good
  <2> QED BY <1>1, SubsetInduction
<1> QED BY <1>2

\* The order of the summands does not matter.
LEMMA SumRemove ==
    ASSUME NEW S, IsFiniteSet(S), NEW f, \A x \in S : f[x] \in Int, NEW x \in S
    PROVE  SumOf(f, S) = f[x] + SumOf(f, S \ {x})
<1> DEFINE Good == {s \in SUBSET S : \A y \in s : SumOf(f, s) = f[y] + SumOf(f, s \ {y})}
<1>1. ASSUME NEW s \in SUBSET S, \A t \in SUBSET s : t # s => t \in Good
      PROVE  s \in Good
  <2> SUFFICES ASSUME NEW y \in s PROVE SumOf(f, s) = f[y] + SumOf(f, s \ {y})
      OBVIOUS
  <2> DEFINE c == Chosen(s)
             r == (s \ {y}) \ {c}
  <2>0. c \in s /\ IsFiniteSet(s)
      BY ChosenIn, FS_Subset
  <2>1. SumOf(f, s) = f[c] + SumOf(f, s \ {c})
      BY <2>0, SumChosen
  <2>2. CASE y = c
      BY <2>1, <2>2
  <2>3. CASE y # c
    <3> HIDE DEF c
    <3>1. s \ {c} \in Good /\ s \ {y} \in Good
        BY <1>1, <2>0
    <3>2. SumOf(f, s \ {c}) = f[y] + SumOf(f, r)
      <4>1. (s \ {c}) \ {y} = r /\ y \in s \ {c}
          BY <2>3
      <4> QED BY <3>1, <4>1
    <3>3. SumOf(f, s \ {y}) = f[c] + SumOf(f, r)
        BY <3>1, <2>0, <2>3
    <3>4. IsFiniteSet(r) /\ f[c] \in Int /\ f[y] \in Int
        BY <2>0, FS_Subset
    <3>5. SumOf(f, r) \in Int
        BY <3>4, SumType
    <3> HIDE DEF r
    <3> QED BY <2>1, <3>2, <3>3, <3>4, <3>5
  <2> QED BY <2>2, <2>3
<1>2. \A s \in SUBSET S : s \in Good
  <2> HIDE DEF Good
  <2> QED BY <1>1, SubsetInduction
<1> QED BY <1>2

\* A further element adds its value.
LEMMA SumAdd ==
    ASSUME NEW S, IsFiniteSet(S), NEW x, x \notin S, NEW f, \A y \in S \cup {x} : f[y] \in Int
    PROVE  SumOf(f, S \cup {x}) = f[x] + SumOf(f, S)
<1>1. IsFiniteSet(S \cup {x}) /\ (S \cup {x}) \ {x} = S
    BY FS_AddElement
<1>2. SumOf(f, S \cup {x}) = f[x] + SumOf(f, (S \cup {x}) \ {x})
    BY <1>1, SumRemove
<1> QED BY <1>1, <1>2

\* Sums of functions that agree are equal.
LEMMA SumEqual ==
    ASSUME NEW S, IsFiniteSet(S), NEW f, NEW g, \A x \in S : f[x] = g[x]
    PROVE  SumOf(f, S) = SumOf(g, S)
<1> DEFINE Good == {s \in SUBSET S : SumOf(f, s) = SumOf(g, s)}
<1>1. ASSUME NEW s \in SUBSET S, \A t \in SUBSET s : t # s => t \in Good
      PROVE  s \in Good
  <2>1. CASE s = {}
      BY <2>1, SumEmpty
  <2>2. CASE s # {}
    <3>1. s \ {Chosen(s)} \in Good /\ f[Chosen(s)] = g[Chosen(s)]
        BY <1>1, <2>2, ChosenIn
    <3> QED BY <2>2, <3>1, SumChosen, FS_Subset
  <2> QED BY <2>1, <2>2
<1>2. \A s \in SUBSET S : s \in Good
  <2> HIDE DEF Good
  <2> QED BY <1>1, SubsetInduction
<1> QED BY <1>2

\* The sum of sums.
LEMMA SumPlus ==
    ASSUME NEW S, IsFiniteSet(S), NEW f, NEW g, NEW h,
           \A x \in S : f[x] \in Int /\ g[x] \in Int /\ h[x] = f[x] + g[x]
    PROVE  SumOf(h, S) = SumOf(f, S) + SumOf(g, S)
<1> DEFINE Good == {s \in SUBSET S : SumOf(h, s) = SumOf(f, s) + SumOf(g, s)}
<1>1. ASSUME NEW s \in SUBSET S, \A t \in SUBSET s : t # s => t \in Good
      PROVE  s \in Good
  <2>1. CASE s = {}
      BY <2>1, SumEmpty
  <2>2. CASE s # {}
    <3> DEFINE c == Chosen(s)
    <3>1. c \in s /\ s \ {c} \in Good /\ IsFiniteSet(s) /\ IsFiniteSet(s \ {c})
        BY <1>1, <2>2, ChosenIn, FS_Subset
    <3>2. SumOf(f, s \ {c}) \in Int /\ SumOf(g, s \ {c}) \in Int
        BY <3>1, SumType
    <3>3. /\ SumOf(f, s) = f[c] + SumOf(f, s \ {c})
          /\ SumOf(g, s) = g[c] + SumOf(g, s \ {c})
          /\ SumOf(h, s) = h[c] + SumOf(h, s \ {c})
        BY <2>2, <3>1, SumChosen
    <3> HIDE DEF c
    <3> QED BY <3>1, <3>2, <3>3
  <2> QED BY <2>1, <2>2
<1>2. \A s \in SUBSET S : s \in Good
  <2> HIDE DEF Good
  <2> QED BY <1>1, SubsetInduction
<1> QED BY <1>2

\* A sum changes by as much as the one summand that changes.
LEMMA SumChange ==
    ASSUME NEW S, IsFiniteSet(S), NEW x \in S, NEW f, NEW g,
           \A y \in S : f[y] \in Int /\ g[y] \in Int,
           \A y \in S \ {x} : f[y] = g[y]
    PROVE  SumOf(g, S) = SumOf(f, S) - f[x] + g[x]
<1>1. IsFiniteSet(S \ {x})
    BY FS_Subset
<1>2. SumOf(f, S \ {x}) = SumOf(g, S \ {x}) /\ SumOf(f, S \ {x}) \in Int
    BY <1>1, SumEqual, SumType
<1>3. SumOf(f, S) = f[x] + SumOf(f, S \ {x}) /\ SumOf(g, S) = g[x] + SumOf(g, S \ {x})
    BY SumRemove
<1> QED BY <1>2, <1>3

\* A sum of natural numbers is no less than that of smaller ones...
LEMMA SumMonotonic ==
    ASSUME NEW S, IsFiniteSet(S), NEW f, NEW g,
           \A x \in S : f[x] \in Nat /\ g[x] \in Nat /\ f[x] <= g[x]
    PROVE  SumOf(f, S) <= SumOf(g, S)
<1> DEFINE d == [x \in S |-> g[x] - f[x]]
<1>1. \A x \in S : d[x] \in Nat /\ g[x] = f[x] + d[x]
    OBVIOUS
<1> HIDE DEF d
<1>2. SumOf(g, S) = SumOf(f, S) + SumOf(d, S)
    BY <1>1, SumPlus
<1>3. SumOf(f, S) \in Nat /\ SumOf(d, S) \in Nat
    BY <1>1, SumType
<1> QED BY <1>2, <1>3

\* ... nor than one of them.
LEMMA SumBound ==
    ASSUME NEW S, IsFiniteSet(S), NEW f, \A y \in S : f[y] \in Nat, NEW x \in S
    PROVE  f[x] <= SumOf(f, S)
<1>1. SumOf(f, S) = f[x] + SumOf(f, S \ {x})
    BY SumRemove
<1>2. SumOf(f, S \ {x}) \in Nat
    BY FS_Subset, SumType
<1> QED BY <1>1, <1>2

\* A sum of zeros is zero.
LEMMA SumZero ==
    ASSUME NEW S, IsFiniteSet(S), NEW f, \A x \in S : f[x] = 0
    PROVE  SumOf(f, S) = 0
<1>1. SumOf(f, S) \in Nat
    BY SumType
<1>2. \A x \in S : f[x] \in Int /\ f[x] = f[x] + f[x]
    OBVIOUS
<1>3. SumOf(f, S) = SumOf(f, S) + SumOf(f, S)
    BY <1>2, SumPlus
<1>4. \A n \in Nat : n = n + n => n = 0
    OBVIOUS
<1> QED BY <1>1, <1>3, <1>4

\* A union has no more elements than its parts have together.
LEMMA UnionCount ==
    ASSUME NEW T, IsFiniteSet(T), NEW F, NEW c,
           \A n \in T : IsFiniteSet(F[n]) /\ c[n] = Cardinality(F[n])
    PROVE  /\ IsFiniteSet(UNION {F[n] : n \in T})
           /\ Cardinality(UNION {F[n] : n \in T}) <= SumOf(c, T)
<1> DEFINE U(s) == UNION {F[n] : n \in s}
           Good == {s \in SUBSET T : IsFiniteSet(U(s)) /\ Cardinality(U(s)) <= SumOf(c, s)}
<1>1. ASSUME NEW s \in SUBSET T, \A t \in SUBSET s : t # s => t \in Good
      PROVE  s \in Good
  <2>1. CASE s = {}
    <3>1. U({}) = {}
        OBVIOUS
    <3> QED BY <2>1, <3>1, SumEmpty, FS_EmptySet
  <2>2. CASE s # {}
    <3>1. Chosen(s) \in s /\ s \ {Chosen(s)} \in Good
        BY <1>1, <2>2, ChosenIn
    <3> DEFINE x == Chosen(s)
               r == s \ {x}
    <3>2. U(s) = U(r) \cup F[x]
        BY <3>1
    <3>3. /\ IsFiniteSet(U(r)) /\ Cardinality(U(r)) <= SumOf(c, r)
          /\ IsFiniteSet(F[x]) /\ c[x] = Cardinality(F[x])
        BY <3>1
    <3>4. IsFiniteSet(s) /\ IsFiniteSet(r) /\ \A n \in s : c[n] \in Nat
        BY FS_Subset, FS_CardinalityType
    <3>5. SumOf(c, s) = c[x] + SumOf(c, r)
        BY <2>2, <3>4, SumChosen
    <3> HIDE DEF U, r, x
    <3>6. /\ IsFiniteSet(U(r) \cup F[x])
          /\ Cardinality(U(r) \cup F[x]) = Cardinality(U(r)) + Cardinality(F[x]) - Cardinality(U(r) \cap F[x])
        BY <3>3, FS_Union
    <3>7. Cardinality(U(r)) \in Nat /\ Cardinality(F[x]) \in Nat /\ Cardinality(U(r) \cap F[x]) \in Nat
        BY <3>3, FS_CardinalityType, FS_Intersection
    <3>8. SumOf(c, r) \in Nat
        BY <3>4, SumType DEF r
    <3>9. Cardinality(U(s)) <= SumOf(c, s)
        BY <3>2, <3>3, <3>5, <3>6, <3>7, <3>8
    <3> QED BY <3>2, <3>6, <3>9 DEF U
  <2> QED BY <2>1, <2>2
<1> HIDE DEF Good
<1>2. T \in Good
    BY <1>1, SubsetInduction
<1> QED BY <1>2 DEF Good

\* Counting by a key counts everything.
LEMMA SumOfCounts ==
    ASSUME NEW K, IsFiniteSet(K), NEW I, IsFiniteSet(I), NEW key, \A i \in I : key[i] \in K
    PROVE  SumOf([k \in K |-> Cardinality({i \in I : key[i] = k})], K) = Cardinality(I)
<1> DEFINE f == [k \in K |-> Cardinality({i \in I : key[i] = k})]
           In(s) == {i \in I : key[i] \in s}
           Good == {s \in SUBSET K : SumOf(f, s) = Cardinality(In(s))}
<1>0. \A k \in K : f[k] = Cardinality({i \in I : key[i] = k})
    OBVIOUS
<1>1. ASSUME NEW s \in SUBSET K, \A t \in SUBSET s : t # s => t \in Good
      PROVE  s \in Good
  <2>1. CASE s = {}
    <3>1. In(s) = {}
        BY <2>1
    <3> HIDE DEF f, In
    <3> QED BY <2>1, <3>1, SumEmpty, FS_EmptySet
  <2>2. CASE s # {}
    <3> DEFINE c == Chosen(s)
               A == {i \in I : key[i] = c}
               B == In(s \ {c})
    <3>1. c \in s /\ s \ {c} \in Good /\ IsFiniteSet(s)
        BY <1>1, <2>2, ChosenIn, FS_Subset
    <3>2. In(s) = A \cup B /\ A \cap B = {} /\ A \in SUBSET I /\ B \in SUBSET I
        BY <3>1
    <3>3. f[c] = Cardinality(A)
        BY <3>1, <1>0
    <3>4. SumOf(f, s) = f[c] + SumOf(f, s \ {c})
        BY <2>2, <3>1, SumChosen
    <3>5. SumOf(f, s \ {c}) = Cardinality(B)
        BY <3>1
    <3> HIDE DEF f, c, A, B, In
    <3>6. IsFiniteSet(A) /\ IsFiniteSet(B)
        BY <3>2, FS_Subset
    <3>7. Cardinality(A \cup B) = Cardinality(A) + Cardinality(B) - Cardinality(A \cap B)
        BY <3>6, FS_Union
    <3>8. Cardinality(A \cap B) = 0 /\ Cardinality(A) \in Nat /\ Cardinality(B) \in Nat
        BY <3>2, <3>6, FS_EmptySet, FS_CardinalityType
    <3>9. SumOf(f, s) = Cardinality(In(s))
        BY <3>2, <3>3, <3>4, <3>5, <3>7, <3>8
    <3> QED BY <3>9
  <2> QED BY <2>1, <2>2
<1>2. \A s \in SUBSET K : s \in Good
  <2> HIDE DEF Good
  <2> QED BY <1>1, SubsetInduction
<1>3. In(K) = I /\ K \in Good
    BY <1>2
<1> QED BY <1>3

-----------------------------------------------------------------------------
(* The concatenation of the first n sequences of e.                        *)

Joined(g, e, n) == g = [i \in 1 .. n |-> IF i = 1 THEN e[i] ELSE g[i - 1] \o e[i]]

FirstOf(e, n) == [i \in 1 .. n |-> e[i]]

\* Each value of Joined appends the next sequence to the one before.
LEMMA JoinedValue ==
    ASSUME NEW e, NEW n \in Nat, NEW g, Joined(g, e, n), NEW i \in 1 .. n
    PROVE  g[i] = IF i = 1 THEN e[i] ELSE g[i - 1] \o e[i]
BY DEF Joined

\* Its last value, past the first.
LEMMA JoinedFurther ==
    ASSUME NEW e, NEW n \in Nat \ {0}, NEW g, Joined(g, e, n + 1)
    PROVE  g[n + 1] = g[n] \o e[n + 1]
<1>1. n + 1 \in 1 .. n + 1 /\ n + 1 # 1 /\ (n + 1) - 1 = n
    OBVIOUS
<1>2. g[n + 1] = [i \in 1 .. n + 1 |-> IF i = 1 THEN e[i] ELSE g[i - 1] \o e[i]][n + 1]
    BY DEF Joined
<1>3. @ = g[(n + 1) - 1] \o e[n + 1]
    BY <1>1
<1> QED BY <1>1, <1>2, <1>3

\* There is such a function for every length.
LEMMA JoinedExists == ASSUME NEW e, NEW n \in Nat PROVE \E g : Joined(g, e, n)
<1> DEFINE Good == {m \in Nat : \E g : Joined(g, e, m)}
<1>1. 0 \in Good
  <2>1. Joined([i \in 1 .. 0 |-> e], e, 0)
      BY DEF Joined
  <2> QED BY <2>1
<1>2. ASSUME NEW m \in Nat, m \in Good PROVE m + 1 \in Good
  <2>1. PICK g : Joined(g, e, m)
      BY <1>2
  <2> DEFINE h == [i \in 1 .. m + 1 |-> IF i = 1 THEN e[i] ELSE g[i - 1] \o e[i]]
  <2>2. \A i \in 1 .. m : h[i] = g[i]
      BY <2>1, JoinedValue
  <2>3. ASSUME NEW i \in 1 .. m + 1
        PROVE  h[i] = IF i = 1 THEN e[i] ELSE h[i - 1] \o e[i]
    <3>1. h[i] = IF i = 1 THEN e[i] ELSE g[i - 1] \o e[i]
        OBVIOUS
    <3>2. i # 1 => i - 1 \in 1 .. m
        OBVIOUS
    <3> HIDE DEF h
    <3> QED BY <2>2, <3>1, <3>2
  <2>4. h = [i \in 1 .. m + 1 |-> h[i]]
      OBVIOUS
  <2>5. Joined(h, e, m + 1)
    <3> HIDE DEF h
    <3> QED BY <2>3, <2>4 DEF Joined
  <2> HIDE DEF h, Joined
  <2> QED BY <2>5
<1>3. \A m \in Nat : m \in Good
  <2> HIDE DEF Good
  <2> QED BY <1>1, <1>2, NatSetInduction
<1> QED BY <1>3

\* One further sequence changes none of the values before it.
LEMMA JoinedAgree ==
    ASSUME NEW e, NEW n \in Nat, NEW g, Joined(g, e, n + 1), NEW h, Joined(h, e, n)
    PROVE  \A i \in 1 .. n : g[i] = h[i]
<1> DEFINE Good == {i \in Nat : i \in 1 .. n => g[i] = h[i]}
<1>1. 0 \in Good
    OBVIOUS
<1>2. ASSUME NEW i \in Nat, i \in Good PROVE i + 1 \in Good
    BY <1>2, JoinedValue
<1>3. \A i \in Nat : i \in Good
  <2> HIDE DEF Good
  <2> QED BY <1>1, <1>2, NatSetInduction
<1> QED BY <1>3

\* FlattenSeq is the last value of such a function.
LEMMA FlattenIsJoined ==
    ASSUME NEW e, NEW n \in Nat \ {0}
    PROVE  \E g : Joined(g, e, n) /\ FlattenSeq(FirstOf(e, n)) = g[n]
<1> DEFINE s == FirstOf(e, n)
           G == CHOOSE g : g = [i \in 1 .. Len(s) |-> IF i = 1 THEN s[i] ELSE g[i - 1] \o s[i]]
<1>1. Len(s) = n /\ \A i \in 1 .. n : s[i] = e[i]
    BY DEF FirstOf
<1>2. FlattenSeq(s) = G[n]
  <2> HIDE DEF s
  <2> QED BY <1>1 DEF FlattenSeq
<1>3. PICK h : Joined(h, s, n)
    BY JoinedExists
<1>4. G = [i \in 1 .. Len(s) |-> IF i = 1 THEN s[i] ELSE G[i - 1] \o s[i]]
  <2> HIDE DEF s
  <2> QED BY <1>1, <1>3 DEF Joined
<1>5. Joined(G, e, n)
  <2> HIDE DEF s, G
  <2> QED BY <1>1, <1>4 DEF Joined
<1> HIDE DEF s, G
<1> QED BY <1>2, <1>5 DEF s

\* Nothing flattens to nothing, and each further sequence comes at the end.
LEMMA FlattenFirst ==
    ASSUME NEW S, NEW e, NEW n \in Nat, \A i \in 1 .. n + 1 : e[i] \in Seq(S)
    PROVE  /\ FlattenSeq(FirstOf(e, 0)) = <<>>
           /\ FlattenSeq(FirstOf(e, n + 1)) = FlattenSeq(FirstOf(e, n)) \o e[n + 1]
<1>1. FirstOf(e, 0) = <<>> /\ FlattenSeq(<<>>) = <<>>
    BY DEF FlattenSeq, FirstOf
<1>2. PICK g : Joined(g, e, n + 1) /\ FlattenSeq(FirstOf(e, n + 1)) = g[n + 1]
  <2> n + 1 \in Nat \ {0}
      OBVIOUS
  <2> QED BY FlattenIsJoined
<1>3. CASE n = 0
    BY <1>1, <1>2, <1>3, JoinedValue
<1>4. CASE n # 0
  <2>1. PICK h : Joined(h, e, n) /\ FlattenSeq(FirstOf(e, n)) = h[n]
      BY <1>4, FlattenIsJoined
  <2>2. g[n] = h[n]
      BY <1>2, <1>4, <2>1, JoinedAgree
  <2>3. g[n + 1] = g[n] \o e[n + 1]
    <3>1. n \in Nat \ {0} /\ Joined(g, e, n + 1)
        BY <1>2, <1>4
    <3> QED BY <3>1, JoinedFurther
  <2> QED BY <1>1, <1>2, <2>1, <2>2, <2>3
<1> QED BY <1>3, <1>4

\* Sequences over S flatten to a sequence over S.
LEMMA FlattenType ==
    ASSUME NEW S, NEW e, NEW n \in Nat, \A i \in 1 .. n : e[i] \in Seq(S)
    PROVE  FlattenSeq(FirstOf(e, n)) \in Seq(S)
<1> DEFINE Good == {m \in Nat : m <= n => FlattenSeq(FirstOf(e, m)) \in Seq(S)}
<1>1. 0 \in Good
    BY DEF FlattenSeq, FirstOf
<1>2. ASSUME NEW m \in Nat, m \in Good PROVE m + 1 \in Good
  <2> SUFFICES ASSUME m + 1 <= n PROVE FlattenSeq(FirstOf(e, m + 1)) \in Seq(S)
      OBVIOUS
  <2>1. FlattenSeq(FirstOf(e, m)) \in Seq(S) /\ e[m + 1] \in Seq(S)
      BY <1>2
  <2>2. FlattenSeq(FirstOf(e, m + 1)) = FlattenSeq(FirstOf(e, m)) \o e[m + 1]
      BY FlattenFirst
  <2> HIDE DEF Good
  <2> QED BY <2>1, <2>2, ConcatProperties
<1>3. \A m \in Nat : m \in Good
  <2> HIDE DEF Good
  <2> QED BY <1>1, <1>2, NatSetInduction
<1> QED BY <1>3
-----------------------------------------------------------------------------
(* Counting in sequences.                                                  *)

CountIn(s, A) == Cardinality({i \in DOMAIN s : s[i] \in A})

\* The indices of a sequence of n elements are n in number.
LEMMA OneTo == ASSUME NEW n \in Nat PROVE IsFiniteSet(1 .. n) /\ Cardinality(1 .. n) = n
<1>1. n \in Int /\ 1 \in Int /\ (IF 1 > n THEN 0 ELSE n - 1 + 1) = n
    OBVIOUS
<1>2. IsFiniteSet(1 .. n) /\ Cardinality(1 .. n) = IF 1 > n THEN 0 ELSE n - 1 + 1
    BY <1>1, FS_Interval
<1> QED BY <1>1, <1>2

\* A count is a number no larger than the length.
LEMMA CountType ==
    ASSUME NEW S, NEW s \in Seq(S), NEW A
    PROVE  /\ IsFiniteSet({i \in DOMAIN s : s[i] \in A})
           /\ CountIn(s, A) \in Nat /\ CountIn(s, A) <= Len(s)
<1>1. DOMAIN s = 1 .. Len(s) /\ Len(s) \in Nat
    BY LenProperties
<1>2. IsFiniteSet(DOMAIN s) /\ Cardinality(DOMAIN s) = Len(s)
    BY <1>1, OneTo
<1>3. {i \in DOMAIN s : s[i] \in A} \in SUBSET DOMAIN s
    OBVIOUS
<1>4. /\ IsFiniteSet({i \in DOMAIN s : s[i] \in A})
      /\ Cardinality({i \in DOMAIN s : s[i] \in A}) <= Cardinality(DOMAIN s)
    BY <1>2, <1>3, FS_Subset
<1>5. Cardinality({i \in DOMAIN s : s[i] \in A}) \in Nat
    BY <1>4, FS_CardinalityType
<1> QED BY <1>2, <1>4, <1>5 DEF CountIn

\* Nothing is counted in the empty sequence.
LEMMA CountEmpty == ASSUME NEW A PROVE CountIn(<<>>, A) = 0
<1>1. {i \in DOMAIN <<>> : <<>>[i] \in A} = {}
    OBVIOUS
<1>2. CountIn(<<>>, A) = Cardinality({})
    BY <1>1 DEF CountIn
<1> QED BY <1>2, FS_EmptySet

\* All elements are counted when all are of the kind counted.
LEMMA CountAll ==
    ASSUME NEW S, NEW s \in Seq(S), NEW A, \A i \in DOMAIN s : s[i] \in A
    PROVE  CountIn(s, A) = Len(s)
<1>1. DOMAIN s = 1 .. Len(s) /\ Len(s) \in Nat
    BY LenProperties
<1>2. {i \in DOMAIN s : s[i] \in A} = 1 .. Len(s)
    BY <1>1
<1>3. Cardinality(1 .. Len(s)) = Len(s)
    BY <1>1, OneTo
<1> QED BY <1>2, <1>3 DEF CountIn

\* Counts add up when sequences are concatenated.
LEMMA CountConcat ==
    ASSUME NEW S, NEW s \in Seq(S), NEW t \in Seq(S), NEW A
    PROVE  CountIn(s \o t, A) = CountIn(s, A) + CountIn(t, A)
<1> DEFINE B == {i \in DOMAIN s : s[i] \in A}
           C == {i \in DOMAIN t : t[i] \in A}
           D == {i \in DOMAIN (s \o t) : (s \o t)[i] \in A}
           shift == [i \in C |-> i + Len(s)]
           M == {i + Len(s) : i \in C}
<1>1. /\ DOMAIN s = 1 .. Len(s) /\ Len(s) \in Nat
      /\ DOMAIN t = 1 .. Len(t) /\ Len(t) \in Nat
      /\ s \o t \in Seq(S)
      /\ Len(s \o t) = Len(s) + Len(t)
      /\ DOMAIN (s \o t) = 1 .. Len(s) + Len(t)
      /\ \A i \in 1 .. Len(s) + Len(t) :
            (s \o t)[i] = IF i <= Len(s) THEN s[i] ELSE t[i - Len(s)]
    BY LenProperties, ConcatProperties
<1>2. D = B \cup M
  <2>1. ASSUME NEW i \in D PROVE i \in B \cup M
    <3>1. CASE i <= Len(s)
        BY <1>1, <3>1
    <3>2. CASE ~(i <= Len(s))
      <4>1. i - Len(s) \in C /\ i = (i - Len(s)) + Len(s)
          BY <1>1, <3>2
      <4> QED BY <4>1
    <3> QED BY <3>1, <3>2
  <2>2. B \subseteq D
      BY <1>1
  <2>3. M \subseteq D
      BY <1>1
  <2> QED BY <2>1, <2>2, <2>3
<1>3. B \cap M = {}
    BY <1>1
<1>4. IsFiniteSet(B) /\ IsFiniteSet(C)
    BY CountType
<1>5. shift \in Bijection(C, M)
    BY <1>1 DEF Bijection, Injection, Surjection, IsInjective
<1>6. IsFiniteSet(M) /\ Cardinality(M) = Cardinality(C)
  <2> HIDE DEF C, M, shift
  <2> QED BY <1>4, <1>5, FS_Bijection DEF ExistsBijection
<1> HIDE DEF B, C, D, M
<1>7. /\ Cardinality(B \cup M) = Cardinality(B) + Cardinality(M) - Cardinality(B \cap M)
      /\ Cardinality(B \cap M) = 0 /\ Cardinality(B) \in Nat /\ Cardinality(M) \in Nat
    BY <1>3, <1>4, <1>6, FS_Union, FS_EmptySet, FS_CardinalityType
<1>8. Cardinality(D) = Cardinality(B) + Cardinality(C)
    BY <1>2, <1>6, <1>7
<1> QED BY <1>8 DEF B, C, D, CountIn

\* The head of a sequence goes before the rest.
LEMMA HeadTail ==
    ASSUME NEW S, NEW s \in Seq(S), s # <<>>
    PROVE  /\ s = <<Head(s)>> \o Tail(s)
           /\ Head(s) \in S /\ Tail(s) \in Seq(S)
           /\ <<Head(s)>> \in Seq(S)
<1>1. Head(s) \in S /\ Tail(s) \in Seq(S) /\ <<Head(s)>> \in Seq(S)
    BY HeadTailProperties
<1>2. /\ Len(<<Head(s)>>) = 1 /\ Len(s) \in Nat \ {0} /\ Len(Tail(s)) = Len(s) - 1
      /\ \A i \in 1 .. Len(Tail(s)) : Tail(s)[i] = s[i + 1]
      /\ Head(s) = s[1]
    BY HeadTailProperties, EmptySeq
<1>3. /\ <<Head(s)>> \o Tail(s) \in Seq(S)
      /\ Len(<<Head(s)>> \o Tail(s)) = Len(s)
      /\ \A i \in 1 .. Len(s) : (<<Head(s)>> \o Tail(s))[i] = s[i]
    BY <1>1, <1>2, ConcatProperties
<1> QED BY <1>1, <1>3, SeqEqual

-----------------------------------------------------------------------------
(* Concatenation.                                                          *)

\* Concatenation under a name of its own, so that the provers take it as it is.
Cat(s, t) == s \o t

\* The concatenation with the empty sequence changes nothing.
LEMMA CatFacts ==
    ASSUME NEW S, NEW s \in Seq(S), NEW t \in Seq(S)
    PROVE  Cat(s, t) \in Seq(S) /\ Cat(s, <<>>) = s /\ Cat(<<>>, s) = s
BY ConcatProperties, ConcatEmptySeq DEF Cat

\* How concatenations are grouped does not matter.
LEMMA CatAssociative ==
    ASSUME NEW S, NEW s \in Seq(S), NEW t \in Seq(S), NEW w \in Seq(S)
    PROVE  Cat(Cat(s, t), w) = Cat(s, Cat(t, w))
BY SMTT(30), ConcatAssociative DEF Cat

\* To append is to concatenate one element.
LEMMA CatAppend ==
    ASSUME NEW S, NEW s \in Seq(S), NEW x \in S
    PROVE  Append(s, x) = Cat(s, <<x>>) /\ <<x>> \in Seq(S)
<1>1. <<x>> \in Seq(S)
    OBVIOUS
<1>2. Append(s, x) = s \o <<x>>
    BY AppendIsConcat
<1>3. Append(s, x) = Cat(s, <<x>>)
    BY <1>2, Zenon DEF Cat
<1> QED BY <1>1, <1>3

\* A sequence is its head and then its tail.
LEMMA CatHead ==
    ASSUME NEW S, NEW s \in Seq(S), s # <<>>
    PROVE  /\ s = Cat(<<Head(s)>>, Tail(s))
           /\ Head(s) \in S /\ Tail(s) \in Seq(S) /\ <<Head(s)>> \in Seq(S)
<1>1. s = <<Head(s)>> \o Tail(s)
    BY HeadTail
<1>2. s = Cat(<<Head(s)>>, Tail(s))
    BY <1>1, Zenon DEF Cat
<1> QED BY <1>2, HeadTail

\* What goes before W in F \o W is F.
LEMMA PrefixOfConcat ==
    ASSUME NEW S, NEW F \in Seq(S), NEW W \in Seq(S)
    PROVE  SubSeq(F \o W, 1, Len(F \o W) - Len(W)) = F
<1> DEFINE R == F \o W
           P == SubSeq(R, 1, Len(F))
<1>1. /\ R \in Seq(S) /\ Len(R) = Len(F) + Len(W) /\ Len(F) \in Nat /\ Len(W) \in Nat
      /\ \A i \in 1 .. Len(F) : R[i] = F[i]
    BY ConcatProperties, LenProperties
<1>2. Len(R) - Len(W) = Len(F)
    BY <1>1
<1> HIDE DEF R
<1>3. /\ \A i \in 1 .. Len(F) : R[i] \in S
    BY <1>1, ElementOfSeq
<1>4. P \in Seq(S) /\ Len(P) = Len(F) /\ \A i \in 1 .. Len(F) : P[i] = R[i]
    BY <1>1, <1>3, SubSeqProperties
<1>5. P = F
  <2> HIDE DEF P
  <2> QED BY <1>1, <1>4, SeqEqual
<1> QED BY <1>2, <1>5 DEF R

\* Where b ends in b \o w, w begins.
LEMMA SplitAt ==
    ASSUME NEW S, NEW b \in Seq(S), NEW w \in Seq(S)
    PROVE  /\ Len(b) \in 0 .. Len(b \o w)
           /\ SubSeq(b \o w, 1, Len(b)) = b
           /\ SubSeq(b \o w, Len(b) + 1, Len(b \o w)) = w
<1> DEFINE R == b \o w
           P == SubSeq(R, Len(b) + 1, Len(R))
<1>1. /\ R \in Seq(S) /\ Len(R) = Len(b) + Len(w) /\ Len(b) \in Nat /\ Len(w) \in Nat
      /\ \A i \in 1 .. Len(w) : R[Len(b) + i] = w[i]
    BY ConcatProperties, LenProperties
<1>2. SubSeq(R, 1, Len(R) - Len(w)) = b
    BY PrefixOfConcat
<1> HIDE DEF R
<1>3. \A i \in Len(b) + 1 .. Len(R) : R[i] \in S
    BY <1>1, ElementOfSeq
<1>4. P \in Seq(S) /\ Len(P) = Len(w) /\ \A i \in 1 .. Len(w) : P[i] = R[Len(b) + i]
  <2>1. /\ Len(b) + 1 \in Int /\ Len(R) \in Int /\ Len(R) - (Len(b) + 1) + 1 = Len(w)
        /\ \A i \in 1 .. Len(w) : Len(b) + 1 + i - 1 = Len(b) + i
      BY <1>1
  <2> QED BY <1>1, <1>3, <2>1, SubSeqProperties
<1>5. P = w
  <2> HIDE DEF P
  <2> QED BY <1>1, <1>4, SeqEqual
<1>6. Len(R) - Len(w) = Len(b) /\ Len(b) \in 0 .. Len(R)
    BY <1>1
<1> QED BY <1>2, <1>5, <1>6 DEF R, P
===============================================================================
