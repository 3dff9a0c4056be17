--------------------------- MODULE SequenceLemmas ---------------------------
(***************************************************************************)
(* Facts about natural numbers, sums and sequences that the proofs of      *)
(* several components need.                                                *)
(***************************************************************************)
EXTENDS Naturals, Sequences, SequencesExt, FiniteSets, FiniteSetsExt, TLAPS,
        FunctionTheorems, SequenceTheorems, FiniteSetTheorems,
        WellFoundedInduction

(* A non-empty set of natural numbers has a least member.                  *)
LEMMA LeastMember ==
  ASSUME NEW T, T \subseteq Nat, T # {}
  PROVE  \E i \in T : \A j \in T : i <= j
<1> DEFINE R == StrictSubsetOrdering(Nat)
           F == FiniteSubsetsOf(Nat)
           U == {1 .. i : i \in T}
<1>1. IsWellFoundedOn(R, F)
  BY FS_StrictSubsetOrderingWellFounded
<1>2. U \subseteq F /\ U # {}
  <2>1. \A i \in T : i \in Int /\ 1 \in Int
    OBVIOUS
  <2>2. \A i \in T : IsFiniteSet(1 .. i)
    BY <2>1, FS_Interval
  <2>3. \A i \in T : 1 .. i \in SUBSET Nat
    OBVIOUS
  <2>4. \A i \in T : 1 .. i \in F
    BY <2>2, <2>3 DEF FiniteSubsetsOf
  <2>5. PICK k : k \in T
    OBVIOUS
  <2> HIDE DEF F
  <2>6. 1 .. k \in U
    BY <2>5
  <2>7. U \subseteq F
    BY <2>4
  <2> QED BY <2>6, <2>7
<1>3. \A i, j \in Nat : j < i => <<1 .. j, 1 .. i>> \in R
  <2> SUFFICES ASSUME NEW i \in Nat, NEW j \in Nat, j < i
               PROVE  <<1 .. j, 1 .. i>> \in R
    OBVIOUS
  <2>1. i \in 1 .. i /\ i \notin 1 .. j
    OBVIOUS
  <2>2. /\ 1 .. j \in SUBSET Nat /\ 1 .. i \in SUBSET Nat
        /\ 1 .. j \subseteq 1 .. i
    OBVIOUS
  <2> QED BY <2>1, <2>2 DEF StrictSubsetOrdering
<1>4. \A j \in T : 1 .. j \in U
  OBVIOUS
<1> HIDE DEF R, F, U
<1>5. PICK X \in U : \A Y \in U : <<Y, X>> \notin R
  BY <1>1, <1>2, WFMin
<1>6. PICK i \in T : X = 1 .. i
  BY <1>5 DEF U
<1>7. \A j \in T : ~(j < i)
  BY <1>3, <1>4, <1>5, <1>6
<1>8. \A j \in T : i <= j
  BY <1>7
<1> QED BY <1>8

(* The end of a sequence, as vector's back() and pop_back() give it. *)
LEMMA LastAndFront ==
  ASSUME NEW S, NEW s \in Seq(S), s # <<>>
  PROVE  Last(s) \in S /\ Front(s) \in Seq(S)
<1>1. Len(s) \in Nat /\ Len(s) >= 1
  BY EmptySeq
<1>2. Last(s) \in S
  BY <1>1, ElementOfSeq DEF Last
<1>3. Front(s) \in Seq(S)
  BY <1>1, SubSeqProperties DEF Front
<1> QED BY <1>2, <1>3

(* The members of a finite set of numbers can be listed in their order:    *)
(* the position of each is the number of those that are not greater.       *)
LEMMA AscendingExists ==
  ASSUME NEW S, S \subseteq Nat, IsFiniteSet(S)
  PROVE  \E s \in [1 .. Cardinality(S) -> S] :
           \A i, j \in 1 .. Cardinality(S) : i < j => s[i] < s[j]
<1> DEFINE n == Cardinality(S)
           below(x) == {y \in S : y <= x}
           rank == [x \in S |-> Cardinality(below(x))]
<1>1. n \in Nat
  BY FS_CardinalityType
<1>2. ASSUME NEW x \in S
      PROVE  IsFiniteSet(below(x)) /\ Cardinality(below(x)) \in 1 .. n
  <2>1. /\ below(x) \in SUBSET S /\ below(x) # {}
    OBVIOUS
  <2> HIDE DEF below
  <2>2. /\ IsFiniteSet(below(x)) /\ Cardinality(below(x)) <= n
        /\ Cardinality(below(x)) \in Nat /\ Cardinality(below(x)) # 0
    BY <2>1, FS_Subset, FS_CardinalityType, FS_EmptySet
  <2> QED BY <1>1, <2>2
<1>3. ASSUME NEW x \in S, NEW y \in S, x < y
      PROVE  rank[x] < rank[y]
  <2>1. below(x) \in SUBSET below(y) /\ below(x) # below(y)
    <3>1. y \in below(y) /\ ~(y <= x)
      BY <1>3
    <3>2. \A z \in S : z <= x => z <= y
      BY <1>3
    <3> QED BY <3>1, <3>2
  <2>2. /\ IsFiniteSet(below(y)) /\ Cardinality(below(y)) \in Nat
        /\ IsFiniteSet(below(x)) /\ Cardinality(below(x)) \in Nat
    BY <1>2
  <2>3. rank[x] = Cardinality(below(x)) /\ rank[y] = Cardinality(below(y))
    OBVIOUS
  <2> HIDE DEF below, rank
  <2>4. /\ Cardinality(below(x)) <= Cardinality(below(y))
        /\ Cardinality(below(x)) # Cardinality(below(y))
    BY <2>1, <2>2, FS_Subset
  <2> QED BY <2>2, <2>3, <2>4
<1>4. rank \in [S -> 1 .. n]
  BY <1>2
<1> HIDE DEF n, rank
<1>5. \A x, y \in S : x < y \/ y < x \/ x = y
  OBVIOUS
<1>6. \A x, y \in S : rank[x] = rank[y] => x = y
  BY <1>1, <1>3, <1>4, <1>5
<1>7. rank \in Surjection(S, 1 .. n)
  <2>1. rank \in Injection(S, 1 .. n)
    BY <1>4, <1>6, Fun_IsInj
  <2>2. IsFiniteSet(1 .. n) /\ Cardinality(1 .. n) = n
    BY <1>1, FS_Interval
  <2> QED BY <2>1, <2>2, FS_Injection DEF n
<1>8. \A i \in 1 .. n : \E x \in S : rank[x] = i
  BY <1>7 DEF Surjection
<1> DEFINE s == [i \in 1 .. n |-> CHOOSE x \in S : rank[x] = i]
<1>9. s \in [1 .. n -> S] /\ \A i \in 1 .. n : rank[s[i]] = i
  BY <1>8
<1> HIDE DEF s
<1>10. \A i, j \in 1 .. n : i < j => s[i] < s[j]
  <2> SUFFICES ASSUME NEW i \in 1 .. n, NEW j \in 1 .. n, i < j
               PROVE  s[i] < s[j]
    OBVIOUS
  <2>1. s[i] \in S /\ s[j] \in S /\ rank[s[i]] = i /\ rank[s[j]] = j
    BY <1>9
  <2>2. ~(s[j] < s[i]) /\ s[j] # s[i]
    <3>1. ~(j < i) /\ j # i
      BY <1>1
    <3> QED BY <1>3, <2>1, <3>1
  <2> QED BY <1>5, <2>1, <2>2
<1> QED BY <1>9, <1>10 DEF n

(* A sequence that lists as many members as there are, none twice, lists   *)
(* all of them.                                                            *)
LEMMA ListsAll ==
  ASSUME NEW S, IsFiniteSet(S), NEW s \in [1 .. Cardinality(S) -> S],
         IsInjective(s)
  PROVE  /\ s \in Seq(S) /\ Len(s) = Cardinality(S)
         /\ DOMAIN s = 1 .. Len(s) /\ Range(s) = S
<1>1. Cardinality(S) \in Nat
  BY FS_CardinalityType
<1>2. s \in Seq(S) /\ Len(s) = Cardinality(S)
  BY <1>1
<1>3. s \in Surjection(1 .. Cardinality(S), S)
  <2>1. s \in Injection(1 .. Cardinality(S), S)
    BY DEF Injection
  <2>2. /\ IsFiniteSet(1 .. Cardinality(S))
        /\ Cardinality(1 .. Cardinality(S)) = Cardinality(S)
    BY <1>1, FS_Interval
  <2> QED BY <2>1, <2>2, FS_Injection
<1>4. Range(s) = S
  BY <1>3, Fun_SurjectionProperties
<1> QED BY <1>1, <1>2, <1>4

(* A sequence without repetition is as long as its range has members.      *)
LEMMA LengthOfDistinct ==
  ASSUME NEW S, NEW s \in Seq(S), IsInjective(s)
  PROVE  /\ IsFiniteSet(Range(s)) /\ Len(s) = Cardinality(Range(s))
<1>1. Len(s) \in Nat /\ s \in [1 .. Len(s) -> Range(s)] /\ DOMAIN s = 1 .. Len(s)
  BY LenProperties DEF Range
<1>2. s \in Bijection(1 .. Len(s), Range(s))
  BY <1>1 DEF IsInjective, Bijection, Injection, Surjection, Range
<1>3. IsFiniteSet(1 .. Len(s)) /\ Cardinality(1 .. Len(s)) = Len(s)
  <2>1. 1 \in Int /\ Len(s) \in Int /\ ~(1 > Len(s) /\ Len(s) # 0)
    BY <1>1
  <2>2. CASE Len(s) = 0
    <3>1. 1 .. Len(s) = {}
      BY <2>2
    <3> QED BY <2>2, <3>1, FS_EmptySet
  <2>3. CASE Len(s) # 0
    BY <1>1, <2>1, <2>3, FS_Interval
  <2> QED BY <2>2, <2>3
<1> QED BY <1>2, <1>3, FS_Bijection DEF ExistsBijection

(* The sum of a function that is zero but at v. *)
LEMMA SumOfOne ==
  ASSUME NEW S, IsFiniteSet(S), NEW f \in [S -> Nat], NEW v \in S,
         \A x \in S : x # v => f[x] = 0
  PROVE  SumFunction(f) = f[v]
<1> DEFINE some(s) == CHOOSE x \in s : TRUE
           Step(g, s) == IF s = {} THEN 0 ELSE f[some(s)] + g[s \ {some(s)}]
           Sums(g) == g = [s \in SUBSET S |-> Step(g, s)]
           h == [s \in SUBSET S |-> IF v \in s THEN f[v] ELSE 0]
<1>1. SumFunction(f) = (CHOOSE g : Sums(g))[S]
  BY DEF SumFunction, SumFunctionOnSet, FoldFunctionOnSet, MapThenFoldSet
<1>2. \A s \in SUBSET S : s # {} =>
        some(s) \in s /\ some(s) \in S /\ s \ {some(s)} \in SUBSET S
  OBVIOUS
<1> HIDE DEF some
<1>3. ASSUME NEW s \in SUBSET S PROVE h[s] = Step(h, s)
  <2>1. f[v] \in Nat
    OBVIOUS
  <2>2. CASE s = {}
    BY <2>2
  <2>3. CASE s # {}
    <3>1. some(s) \in s /\ some(s) \in S /\ s \ {some(s)} \in SUBSET S
      BY <1>2, <2>3
    <3> DEFINE t == s \ {some(s)}
    <3>2. h[t] = IF v \in t THEN f[v] ELSE 0
      BY <3>1
    <3>3. CASE some(s) = v
      BY <2>1, <2>3, <3>1, <3>2, <3>3
    <3>4. CASE some(s) # v
      BY <2>1, <2>3, <3>1, <3>2, <3>4
    <3> QED BY <3>3, <3>4
  <2> QED BY <2>2, <2>3
<1>4. Sums(h)
  BY <1>3
<1> DEFINE g == CHOOSE k : Sums(k)
<1> HIDE DEF h
<1>5. Sums(g)
  <2> HIDE DEF Sums
  <2> QED BY <1>4
<1> HIDE DEF g
<1> DEFINE Odd == {n \in Nat : \E s \in SUBSET S :
                      g[s] # h[s] /\ Cardinality(s) = n}
<1>6. ASSUME Odd # {} PROVE FALSE
  <2>1. PICK n \in Odd : \A m \in Odd : n <= m
    BY <1>6, LeastMember
  <2>2. PICK s \in SUBSET S : g[s] # h[s] /\ Cardinality(s) = n
    OBVIOUS
  <2>3. s # {}
    BY <1>4, <1>5, <2>2
  <2> DEFINE t == s \ {some(s)}
  <2>4. some(s) \in s /\ t \in SUBSET S
    BY <1>2, <2>3
  <2>5. Cardinality(t) = n - 1 /\ n \in Nat /\ Cardinality(t) \in Nat
    <3>1. IsFiniteSet(s)
      BY FS_Subset
    <3>2. IsFiniteSet(t) /\ Cardinality(t) = Cardinality(s) - 1
      BY <2>4, <3>1, FS_RemoveElement
    <3> QED BY <2>2, <3>2, FS_CardinalityType
  <2>6. g[t] = h[t]
    BY <2>1, <2>4, <2>5
  <2>7. g[s] = Step(g, s) /\ h[s] = Step(h, s)
    BY <1>3, <1>5
  <2> QED BY <2>2, <2>3, <2>6, <2>7
<1>7. S \in SUBSET S /\ Cardinality(S) \in Nat
  BY FS_CardinalityType
<1>8. g[S] = h[S] /\ h[S] = f[v]
  BY <1>6, <1>7 DEF h
<1> QED BY <1>1, <1>8 DEF g
(* A list with one member more. *)
LEMMA ListAppend ==
  ASSUME NEW S, NEW s \in Seq(S), NEW x \in S
  PROVE  /\ Append(s, x) \in Seq(S)
         /\ Range(Append(s, x)) = Range(s) \cup {x}
         /\ IsInjective(s) /\ x \notin Range(s) => IsInjective(Append(s, x))
<1> DEFINE t == Append(s, x)
<1>1. /\ t \in Seq(S) /\ Len(t) = Len(s) + 1 /\ Len(s) \in Nat
      /\ \A i \in 1 .. Len(s) : t[i] = s[i]
      /\ t[Len(s) + 1] = x
      /\ DOMAIN s = 1 .. Len(s) /\ DOMAIN t = 1 .. Len(s) + 1
  BY AppendProperties
<1> HIDE DEF t
<1>2. Range(t) = Range(s) \cup {x}
  <2>1. \A i \in DOMAIN t : i \in DOMAIN s \/ i = Len(s) + 1
    BY <1>1
  <2> QED BY <1>1, <2>1 DEF Range
<1>3. IsInjective(s) /\ x \notin Range(s) => IsInjective(t)
  BY <1>1 DEF Range, IsInjective
<1> QED BY <1>1, <1>2, <1>3 DEF t

(* A function on an initial segment of the numbers may be defined by a     *)
(* step.                                                                   *)
Takes(X, x0, n, step, f) ==
  /\ f \in [0 .. n -> X] /\ f[0] = x0
  /\ \A i \in 1 .. n : f[i] = step[i][f[i - 1]]

LEMMA StepsExist ==
  ASSUME NEW X, NEW x0 \in X, NEW n \in Nat, NEW step \in [1 .. n -> [X -> X]]
  PROVE  \E f : Takes(X, x0, n, step, f)
<1> DEFINE Does(k, f) == f[0] = x0 /\ \A i \in 1 .. k : f[i] = step[i][f[i - 1]]
           T == {k \in Nat : k <= n /\ ~\E f \in [0 .. k -> X] : Does(k, f)}
<1>1. T = {}
  <2>1. SUFFICES ASSUME T # {} PROVE FALSE
    OBVIOUS
  <2>2. PICK k \in T : \A j \in T : k <= j
    BY <2>1, LeastMember
  <2>3. k \in Nat /\ k <= n /\ ~\E f \in [0 .. k -> X] : Does(k, f)
    BY <2>2
  <2>4. CASE k = 0
    <3>1. [i \in 0 .. 0 |-> x0] \in [0 .. 0 -> X] /\ Does(0, [i \in 0 .. 0 |-> x0])
      OBVIOUS
    <3> QED BY <2>3, <2>4, <3>1
  <2>5. CASE k # 0
    <3>1. k - 1 \in Nat /\ k - 1 <= n /\ ~(k <= k - 1)
      BY <2>3, <2>5
    <3>2. PICK f \in [0 .. k - 1 -> X] : Does(k - 1, f)
      BY <2>2, <3>1
    <3> DEFINE g == [i \in 0 .. k |-> IF i = k THEN step[k][f[k - 1]] ELSE f[i]]
    <3>3. k \in 1 .. n /\ k - 1 \in 0 .. k - 1 /\ 0 \in 0 .. k - 1
      BY <2>3, <2>5, <3>1
    <3>4. step[k][f[k - 1]] \in X
      BY <3>2, <3>3
    <3>5. g \in [0 .. k -> X]
      BY <2>3, <3>2, <3>4
    <3>6. /\ g[k] = step[k][f[k - 1]]
          /\ \A i \in 0 .. k - 1 : g[i] = f[i]
      BY <2>3
    <3> HIDE DEF g
    <3>7. ASSUME NEW i \in 1 .. k
          PROVE  g[i] = step[i][g[i - 1]]
      <4>1. i - 1 \in 0 .. k - 1 /\ (i # k => i \in 1 .. k - 1 /\ i \in 0 .. k - 1)
        BY <2>3
      <4> QED BY <3>2, <3>6, <4>1
    <3>8. Does(k, g)
      BY <3>2, <3>3, <3>6, <3>7
    <3> HIDE DEF Does
    <3> QED BY <2>3, <3>5, <3>8
  <2> QED BY <2>4, <2>5
<1>2. n \in Nat /\ n <= n
  OBVIOUS
<1>3. \E f \in [0 .. n -> X] : Does(n, f)
  <2>1. n \notin T
    <3> HIDE DEF T
    <3> QED BY <1>1
  <2> HIDE DEF Does
  <2> QED BY <1>2, <2>1
<1> QED BY <1>3 DEF Takes

(* s put together, as the last of the sequences that one gets on the way.  *)
Joins(S, s, f) ==
  /\ f \in [0 .. Len(s) -> Seq(S)]
  /\ f[0] = <<>> /\ \A i \in 1 .. Len(s) : f[i] = f[i - 1] \o s[i]

IsFlatten(s, g) ==
  g = [i \in 1 .. Len(s) |-> IF i = 1 THEN s[i] ELSE g[i - 1] \o s[i]]

LEMMA JoinsIsFlatten ==
  ASSUME NEW S, NEW s \in Seq(Seq(S)), NEW f, Joins(S, s, f)
  PROVE  IsFlatten(s, [i \in 1 .. Len(s) |-> f[i]])
<1> DEFINE g == [i \in 1 .. Len(s) |-> f[i]]
<1>1. Len(s) \in Nat /\ \A i \in 1 .. Len(s) : s[i] \in Seq(S)
  BY LenProperties
<1>2. ASSUME NEW i \in 1 .. Len(s)
      PROVE  g[i] = IF i = 1 THEN s[i] ELSE g[i - 1] \o s[i]
  <2>1. g[i] = f[i - 1] \o s[i]
    BY DEF Joins
  <2>2. CASE i = 1
    <3>1. f[i - 1] = <<>>
      BY <2>2 DEF Joins
    <3> QED BY <1>1, <2>1, <2>2, <3>1, ConcatEmptySeq
  <2>3. CASE i # 1
    <3>1. i - 1 \in 1 .. Len(s)
      BY <1>1, <2>3
    <3>2. g[i - 1] = f[i - 1]
      BY <3>1
    <3> HIDE DEF g
    <3> QED BY <2>1, <2>3, <3>2
  <2> QED BY <2>2, <2>3
<1> QED BY <1>2 DEF IsFlatten

LEMMA FlattenJoins ==
  ASSUME NEW S, NEW s \in Seq(Seq(S)), NEW g, IsFlatten(s, g)
  PROVE  Joins(S, s, [i \in 0 .. Len(s) |-> IF i = 0 THEN <<>> ELSE g[i]])
<1> DEFINE f == [i \in 0 .. Len(s) |-> IF i = 0 THEN <<>> ELSE g[i]]
           n == Len(s)
<1>1. n \in Nat /\ \A i \in 1 .. n : s[i] \in Seq(S)
  BY LenProperties
<1>2. f[0] = <<>> /\ \A i \in 1 .. n : f[i] = g[i]
  BY <1>1
<1>3. \A i \in 1 .. n : g[i] = IF i = 1 THEN s[i] ELSE g[i - 1] \o s[i]
  BY DEF IsFlatten
<1>4. f = [i \in 0 .. n |-> f[i]]
  OBVIOUS
<1> HIDE DEF f, n
<1>5. ASSUME NEW i \in 1 .. n
      PROVE  f[i] = f[i - 1] \o s[i]
  <2>1. CASE i = 1
    <3>1. s[i] \in Seq(S) /\ f[i - 1] = <<>> /\ f[i] = s[i]
      BY <1>1, <1>2, <1>3, <2>1
    <3> QED BY <3>1, ConcatEmptySeq
  <2>2. CASE i # 1
    <3>1. i - 1 \in 1 .. n
      BY <1>1, <2>2
    <3> QED BY <1>2, <1>3, <2>2, <3>1
  <2> QED BY <2>1, <2>2
<1>6. \A i \in 0 .. n : f[i] \in Seq(S)
  <2> DEFINE T == {i \in Nat : i <= n /\ f[i] \notin Seq(S)}
  <2>1. SUFFICES ASSUME T # {} PROVE FALSE
    BY <1>1
  <2>2. PICK i \in T : \A j \in T : i <= j
    <3>1. T \subseteq Nat
      OBVIOUS
    <3> HIDE DEF T
    <3> QED BY <2>1, <3>1, LeastMember
  <2>3. i \in Nat /\ i <= n /\ f[i] \notin Seq(S)
    BY <2>2
  <2>4. i # 0
    BY <1>2, <2>3, EmptySeq
  <2>5. i - 1 \in Nat /\ i - 1 <= n /\ ~(i <= i - 1) /\ i \in 1 .. n
    BY <1>1, <2>3, <2>4
  <2>6. f[i - 1] \in Seq(S)
    BY <2>2, <2>5
  <2>7. f[i - 1] \o s[i] \in Seq(S)
    BY <1>1, <2>5, <2>6, ConcatProperties
  <2> QED BY <1>5, <2>3, <2>5, <2>7
<1>7. f \in [0 .. n -> Seq(S)]
  BY <1>4, <1>6
<1> QED BY <1>2, <1>5, <1>7 DEF Joins, f, n

LEMMA FlattenSeqIs ==
  ASSUME NEW S, NEW s \in Seq(Seq(S))
  PROVE  \E f : Joins(S, s, f) /\ FlattenSeq(s) = f[Len(s)]
<1> DEFINE n == Len(s)
           g == CHOOSE g : IsFlatten(s, g)
           f == [i \in 0 .. n |-> IF i = 0 THEN <<>> ELSE g[i]]
<1>1. n \in Nat /\ \A i \in 1 .. n : s[i] \in Seq(S)
  BY LenProperties
<1>2. \E h : Joins(S, s, h)
  <2> DEFINE step == [i \in 1 .. n |-> [x \in Seq(S) |-> x \o s[i]]]
  <2>1. step \in [1 .. n -> [Seq(S) -> Seq(S)]]
    BY <1>1, ConcatProperties
  <2>2. <<>> \in Seq(S)
    BY EmptySeq
  <2>3. \A i \in 1 .. n, x \in Seq(S) : step[i][x] = x \o s[i]
    OBVIOUS
  <2> HIDE DEF step, n, f, g
  <2>4. PICK h : Takes(Seq(S), <<>>, n, step, h)
    <3>1. n \in Nat
      BY <1>1
    <3> QED BY <2>1, <2>2, <3>1, StepsExist
  <2>5. \A i \in 1 .. n : h[i - 1] \in Seq(S)
    <3>1. \A i \in 1 .. n : i - 1 \in 0 .. n
      BY <1>1
    <3> QED BY <2>4, <3>1 DEF Takes
  <2>6. \A i \in 1 .. n : h[i] = h[i - 1] \o s[i]
    BY <2>3, <2>4, <2>5 DEF Takes
  <2>7. Joins(S, s, h)
    BY <2>4, <2>6 DEF Joins, Takes, n
  <2> QED BY <2>7
<1>3. IsFlatten(s, g)
  BY <1>2, JoinsIsFlatten
<1>4. Joins(S, s, f)
  BY <1>3, FlattenJoins
<1>5. FlattenSeq(s) = f[n]
  <2>1. n \in 0 .. n /\ f[n] = IF n = 0 THEN <<>> ELSE g[n]
    BY <1>1
  <2>2. n = 0 => s = <<>>
    BY EmptySeq
  <2> QED BY <2>1, <2>2 DEF FlattenSeq, IsFlatten
<1> QED BY <1>4, <1>5

(* Where two sequences differ first, or one of them ends.                  *)
Differ(p, q, i) ==
  /\ i \in Nat /\ i >= 1 /\ i - 1 <= Len(p) /\ i - 1 <= Len(q)
  /\ \A k \in 1 .. i - 1 : p[k] = q[k]
  /\ \/ i <= Len(p) /\ i <= Len(q) /\ p[i] # q[i]
     \/ i - 1 = Len(p) /\ i <= Len(q)
     \/ i - 1 = Len(q) /\ i <= Len(p)

LEMMA FirstDifference ==
  ASSUME NEW S, NEW p \in Seq(S), NEW q \in Seq(S), p # q
  PROVE  \E i : Differ(p, q, i)
<1> DEFINE same(i) == i <= Len(p) /\ i <= Len(q) /\ p[i] = q[i]
           T == {i \in Nat : i >= 1 /\ (i <= Len(p) \/ i <= Len(q)) /\ ~same(i)}
<1>1. Len(p) \in Nat /\ Len(q) \in Nat
  BY LenProperties
<1>2. T # {}
  <2>1. SUFFICES ASSUME T = {} PROVE FALSE
    OBVIOUS
  <2>2. \A i \in Nat : i >= 1 /\ (i <= Len(p) \/ i <= Len(q)) => same(i)
    BY <2>1
  <2>3. Len(p) = Len(q)
    <3>1. ~(Len(p) < Len(q))
      BY <1>1, <2>2
    <3>2. ~(Len(q) < Len(p))
      BY <1>1, <2>2
    <3> QED BY <1>1, <3>1, <3>2
  <2>4. \A i \in 1 .. Len(p) : p[i] = q[i]
    BY <1>1, <2>2
  <2> QED BY <2>3, <2>4, SeqEqual
<1>3. PICK i \in T : \A j \in T : i <= j
  <2>1. T \subseteq Nat
    OBVIOUS
  <2> HIDE DEF T
  <2> QED BY <1>2, <2>1, LeastMember
<1>4. i \in Nat /\ i >= 1 /\ (i <= Len(p) \/ i <= Len(q)) /\ ~same(i)
  BY <1>3
<1>5. ASSUME NEW k \in 1 .. i - 1
      PROVE  same(k)
  <2>1. k \in Nat /\ k >= 1 /\ ~(i <= k) /\ (k <= Len(p) \/ k <= Len(q))
    BY <1>1, <1>4
  <2>2. k \notin T
    <3> HIDE DEF T
    <3> QED BY <1>3, <2>1
  <2> QED BY <2>1, <2>2
<1>6. i - 1 <= Len(p) /\ i - 1 <= Len(q)
  <2>1. CASE i = 1
    BY <1>1, <2>1
  <2>2. CASE i # 1
    <3>1. i - 1 \in 1 .. i - 1
      BY <1>4, <2>2
    <3> QED BY <1>5, <3>1
  <2> QED BY <2>1, <2>2
<1>7. \A k \in 1 .. i - 1 : p[k] = q[k]
  BY <1>5
<1>8. Differ(p, q, i)
  BY <1>1, <1>4, <1>6, <1>7 DEF Differ
<1> QED BY <1>8

(* u is found in w after its first n elements.                             *)
FoundAfter(w, n, u) ==
  /\ n + Len(u) <= Len(w)
  /\ \A k \in 1 .. Len(u) : w[n + k] = u[k]

LEMMA ConcatIs ==
  ASSUME NEW S, NEW u \in Seq(S), NEW v \in Seq(S)
  PROVE  /\ Len(u) \in Nat /\ Len(v) \in Nat /\ u \o v \in Seq(S)
         /\ Len(u \o v) = Len(u) + Len(v)
         /\ FoundAfter(u \o v, 0, u) /\ FoundAfter(u \o v, Len(u), v)
<1> DEFINE w == u \o v
<1>1. /\ Len(u) \in Nat /\ Len(v) \in Nat /\ w \in Seq(S)
      /\ Len(w) = Len(u) + Len(v)
  BY ConcatProperties, LenProperties
<1>2. \A i \in 1 .. Len(w) : w[i] = IF i <= Len(u) THEN u[i] ELSE v[i - Len(u)]
  BY <1>1, ConcatProperties
<1> HIDE DEF w
<1>3. ASSUME NEW k \in 1 .. Len(v)
      PROVE  w[Len(u) + k] = v[k]
  <2>1. Len(u) + k \in 1 .. Len(w) /\ ~(Len(u) + k <= Len(u))
        /\ (Len(u) + k) - Len(u) = k
    BY <1>1
  <2> QED BY <1>2, <2>1
<1>4. ASSUME NEW k \in 1 .. Len(u)
      PROVE  w[0 + k] = u[k]
  <2>1. 0 + k = k /\ k \in 1 .. Len(w) /\ k <= Len(u)
    BY <1>1
  <2> QED BY <1>2, <2>1
<1>5. FoundAfter(w, 0, u) /\ FoundAfter(w, Len(u), v)
  BY <1>1, <1>3, <1>4 DEF FoundAfter
<1> QED BY <1>1, <1>5 DEF w

LEMMA FoundIn ==
  ASSUME NEW S, NEW u \in Seq(S), NEW v \in Seq(S), NEW w \in Seq(S),
         NEW m \in Nat, NEW n \in Nat,
         FoundAfter(v, m, u), FoundAfter(w, n, v)
  PROVE  FoundAfter(w, n + m, u)
<1>1. Len(u) \in Nat /\ Len(v) \in Nat /\ Len(w) \in Nat
  BY LenProperties
<1>2. m + Len(u) <= Len(v) /\ n + Len(v) <= Len(w)
  BY DEF FoundAfter
<1>3. ASSUME NEW k \in 1 .. Len(u)
      PROVE  w[(n + m) + k] = u[k]
  <2>1. m + k \in 1 .. Len(v) /\ n + (m + k) = (n + m) + k
    BY <1>1, <1>2
  <2>2. v[m + k] = u[k] /\ w[n + (m + k)] = v[m + k]
    BY <2>1 DEF FoundAfter
  <2> QED BY <2>1, <2>2
<1> QED BY <1>1, <1>2, <1>3 DEF FoundAfter

LEMMA JoinsGrow ==
  ASSUME NEW S, NEW s \in Seq(Seq(S)), NEW f, Joins(S, s, f),
         NEW i \in 0 .. Len(s), NEW j \in 0 .. Len(s), i <= j
  PROVE  FoundAfter(f[j], 0, f[i])
<1> DEFINE T == {k \in Nat : i <= k /\ k <= Len(s) /\ ~FoundAfter(f[k], 0, f[i])}
<1>1. Len(s) \in Nat /\ \A k \in 1 .. Len(s) : s[k] \in Seq(S)
  BY LenProperties
<1>2. \A k \in 0 .. Len(s) : f[k] \in Seq(S) /\ Len(f[k]) \in Nat
  BY LenProperties DEF Joins
<1>3. T = {}
  <2>1. SUFFICES ASSUME T # {} PROVE FALSE
    OBVIOUS
  <2>2. PICK k \in T : \A m \in T : k <= m
    <3>1. T \subseteq Nat
      OBVIOUS
    <3> HIDE DEF T
    <3> QED BY <2>1, <3>1, LeastMember
  <2>3. k \in Nat /\ i <= k /\ k <= Len(s) /\ ~FoundAfter(f[k], 0, f[i])
    BY <2>2
  <2>4. k # i
    BY <1>1, <1>2, <2>3 DEF FoundAfter
  <2>5. k - 1 \in Nat /\ i <= k - 1 /\ k - 1 <= Len(s) /\ ~(k <= k - 1)
    BY <1>1, <2>3, <2>4
  <2>6. FoundAfter(f[k - 1], 0, f[i])
    <3>1. k - 1 \notin T
      <4> HIDE DEF T
      <4> QED BY <2>2, <2>5
    <3> QED BY <2>5, <3>1
  <2>7. k \in 1 .. Len(s) /\ k - 1 \in 0 .. Len(s)
    BY <1>1, <2>3, <2>5
  <2>8. f[k] = f[k - 1] \o s[k]
    BY <2>7 DEF Joins
  <2>9. FoundAfter(f[k], 0, f[k - 1])
    <3>1. f[k - 1] \in Seq(S) /\ s[k] \in Seq(S)
      BY <1>1, <1>2, <2>7
    <3>2. FoundAfter(f[k - 1] \o s[k], 0, f[k - 1])
      BY <3>1, ConcatIs
    <3> QED BY <2>8, <3>2
  <2>10. FoundAfter(f[k], 0, f[i])
    <3> DEFINE u == f[i]
               v == f[k - 1]
               w == f[k]
    <3>1. /\ u \in Seq(S) /\ v \in Seq(S) /\ w \in Seq(S)
          /\ FoundAfter(v, 0, u) /\ FoundAfter(w, 0, v)
      BY <1>2, <2>6, <2>7, <2>9
    <3> HIDE DEF u, v, w
    <3>2. FoundAfter(w, 0 + 0, u) /\ 0 + 0 = 0
      BY <3>1, FoundIn
    <3> QED BY <3>2 DEF u, v, w
  <2> QED BY <2>3, <2>10
<1>4. j \in Nat /\ j <= Len(s)
  BY <1>1
<1> QED BY <1>3, <1>4

(* The i-th of the sequences is found after those before it.               *)
LEMMA JoinsFound ==
  ASSUME NEW S, NEW s \in Seq(Seq(S)), NEW f, Joins(S, s, f),
         NEW i \in 1 .. Len(s)
  PROVE  /\ Len(f[i - 1]) \in Nat /\ Len(f[Len(s)]) \in Nat
         /\ FoundAfter(f[Len(s)], Len(f[i - 1]), s[i])
         /\ Len(f[i]) = Len(f[i - 1]) + Len(s[i])
         /\ Len(f[i]) <= Len(f[Len(s)])
<1>1. Len(s) \in Nat /\ s[i] \in Seq(S) /\ Len(s[i]) \in Nat
  BY LenProperties
<1>2. i \in 0 .. Len(s) /\ i - 1 \in 0 .. Len(s) /\ Len(s) \in 0 .. Len(s)
  BY <1>1
<1>3. /\ f[i - 1] \in Seq(S) /\ Len(f[i - 1]) \in Nat /\ f[i] \in Seq(S)
      /\ Len(f[i]) \in Nat /\ Len(f[Len(s)]) \in Nat
  BY <1>2, LenProperties DEF Joins
<1>4. f[i] = f[i - 1] \o s[i]
  BY DEF Joins
<1>5. /\ Len(f[i]) = Len(f[i - 1]) + Len(s[i])
      /\ FoundAfter(f[i], Len(f[i - 1]), s[i])
  <2> DEFINE u == f[i - 1]
             v == s[i]
             w == f[i]
  <2>1. u \in Seq(S) /\ v \in Seq(S) /\ w = u \o v
    BY <1>1, <1>3, <1>4
  <2> HIDE DEF u, v, w
  <2>2. FoundAfter(w, Len(u), v)
    BY <2>1, ConcatIs
  <2>3. Len(w) = Len(u) + Len(v)
    BY <2>1, ConcatIs
  <2> QED BY <2>2, <2>3 DEF u, v, w
<1>6. FoundAfter(f[Len(s)], 0, f[i])
  <2>1. i <= Len(s)
    BY <1>1
  <2> QED BY <1>2, <2>1, JoinsGrow
<1>7. /\ FoundAfter(f[Len(s)], 0 + Len(f[i - 1]), s[i])
      /\ 0 + Len(f[i - 1]) = Len(f[i - 1])
  <2> DEFINE m == Len(f[i - 1])
             v == f[i]
             w == f[Len(s)]
  <2>1. /\ w \in Seq(S) /\ v \in Seq(S) /\ m \in Nat
        /\ FoundAfter(v, m, s[i]) /\ FoundAfter(w, 0, v)
    BY <1>2, <1>3, <1>5, <1>6 DEF Joins
  <2> HIDE DEF m, v, w
  <2>2. FoundAfter(w, 0 + m, s[i])
    BY <1>1, <2>1, FoundIn
  <2>3. 0 + m = m
    BY <2>1
  <2> QED BY <2>2, <2>3 DEF m, w
<1>8. Len(f[i]) <= Len(f[Len(s)])
  BY <1>3, <1>6 DEF FoundAfter
<1> QED BY <1>3, <1>5, <1>7, <1>8

(* What is put together is the same as long as the parts are.              *)
LEMMA JoinsAgree ==
  ASSUME NEW S, NEW s \in Seq(Seq(S)), NEW f, Joins(S, s, f),
         NEW t \in Seq(Seq(S)), NEW g, Joins(S, t, g),
         NEW n \in Nat, n <= Len(s), n <= Len(t), \A k \in 1 .. n : s[k] = t[k]
  PROVE  f[n] = g[n]
<1> DEFINE T == {k \in Nat : k <= n /\ f[k] # g[k]}
<1>1. Len(s) \in Nat /\ Len(t) \in Nat
  BY LenProperties
<1>2. T = {}
  <2>1. SUFFICES ASSUME T # {} PROVE FALSE
    OBVIOUS
  <2>2. PICK k \in T : \A m \in T : k <= m
    <3>1. T \subseteq Nat
      OBVIOUS
    <3> HIDE DEF T
    <3> QED BY <2>1, <3>1, LeastMember
  <2>3. k \in Nat /\ k <= n /\ f[k] # g[k]
    BY <2>2
  <2>4. k # 0
    BY <2>3 DEF Joins
  <2>5. k - 1 \in Nat /\ k - 1 <= n /\ ~(k <= k - 1)
    BY <2>3, <2>4
  <2>6. k - 1 \notin T
    <3> HIDE DEF T
    <3> QED BY <2>2, <2>5
  <2>7. f[k - 1] = g[k - 1]
    BY <2>5, <2>6
  <2>8. k \in 1 .. Len(s) /\ k \in 1 .. Len(t) /\ k \in 1 .. n
    BY <1>1, <2>3, <2>4
  <2>9. f[k] = f[k - 1] \o s[k] /\ g[k] = g[k - 1] \o t[k]
    BY <2>8 DEF Joins
  <2> QED BY <2>3, <2>7, <2>8, <2>9
<1> QED BY <1>2
=============================================================================
