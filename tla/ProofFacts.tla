----------------------------- MODULE ProofFacts ------------------------------
(***************************************************************************)
(* Facts that the proofs of several components need, about the data their  *)
(* models are built from: a set of row numbers has a newest and an oldest  *)
(* one, a finite set of ids can be listed in order, a list loses its head  *)
(* or gains an element, a sum over a finite set takes one in. Each is      *)
(* stated over sets, lists and functions, so that it can be used without   *)
(* instantiating an operator, and what needs induction takes a smallest    *)
(* counterexample.                                                         *)
(***************************************************************************)
EXTENDS Integers, Sequences, Functions, FiniteSetTheorems, SequenceTheorems, TLAPS

-----------------------------------------------------------------------------
(* Sets of numbers.                                                        *)

\* A non-empty family of subsets of a finite set has one that contains no other.
LEMMA SmallestMember ==
    ASSUME NEW S, IsFiniteSet(S), NEW F \in SUBSET SUBSET S, F # {}
    PROVE  \E T \in F : \A U \in F : U \subseteq T => U = T
<1>1. IsWellFoundedOn(StrictSubsetOrdering(S), SUBSET S)
  BY FS_StrictSubsetOrderingWellFounded, FS_FiniteSubsetsOfFinite
<1>2. \E T \in F : \A U \in F : ~ (<<U, T>> \in StrictSubsetOrdering(S))
  BY <1>1, WFMin
<1>3. PICK T \in F : \A U \in F : ~ (<<U, T>> \in StrictSubsetOrdering(S))
  BY <1>2
<1>4. ASSUME NEW U \in F, U \subseteq T, U # T PROVE <<U, T>> \in StrictSubsetOrdering(S)
  BY <1>4 DEF StrictSubsetOrdering
<1>5. \A U \in F : U \subseteq T => U = T
  BY <1>3, <1>4
<1> QED BY <1>5

\* The numbers between 0 and n, and any set of them, are finite.
LEMMA FiniteUpTo ==
    ASSUME NEW n \in Nat
    PROVE  IsFiniteSet(0..n) /\ \A S \in SUBSET (0..n) : IsFiniteSet(S)
<1>1. 0 \in Int /\ n \in Int
  OBVIOUS
<1>2. IsFiniteSet(0..n)
  BY <1>1, FS_Interval
<1> QED
  BY <1>2, FS_Subset

\* A non-empty finite set of integers has a least element.
LEMMA LeastOfFinite ==
    ASSUME NEW S, IsFiniteSet(S), S # {}, \A x \in S : x \in Int
    PROVE  \E x \in S : \A y \in S : x <= y
<1> DEFINE UpTo(x) == {y \in S : y <= x}
           F == {UpTo(x) : x \in S}
<1>1. F \in SUBSET SUBSET S /\ F # {}
  <2>1. \A x \in S : UpTo(x) \in SUBSET S
    OBVIOUS
  <2>2. PICK x \in S : TRUE
    OBVIOUS
  <2>3. UpTo(x) \in F
    OBVIOUS
  <2> QED BY <2>1, <2>3
<1>2. PICK T \in F : \A U \in F : U \subseteq T => U = T
  <2> HIDE DEF F
  <2> QED BY <1>1, SmallestMember
<1>3. PICK x \in S : T = UpTo(x)
  BY <1>2
<1>4. \A y \in S : x <= y
  <2> SUFFICES ASSUME NEW y \in S, ~(x <= y) PROVE FALSE
    OBVIOUS
  <2>1. x \in Int /\ y \in Int /\ y < x
    OBVIOUS
  <2>2. UpTo(y) \in F
    OBVIOUS
  <2>3. UpTo(y) \subseteq T
    <3>1. ASSUME NEW z \in UpTo(y) PROVE z \in UpTo(x)
      <4>1. z \in S /\ z \in Int /\ z <= y
        OBVIOUS
      <4> QED BY <2>1, <4>1
    <3> QED BY <1>3, <3>1
  <2>4. UpTo(y) = UpTo(x)
    BY <1>2, <1>3, <2>2, <2>3
  <2>5. x \in UpTo(x) /\ x \notin UpTo(y)
    BY <2>1
  <2> QED BY <2>4, <2>5
<1> QED BY <1>4

\* A non-empty set of numbers up to n has a least one.
LEMMA LeastNumber ==
    ASSUME NEW n \in Nat, NEW S \in SUBSET (0..n), S # {}
    PROVE  \E x \in S : \A y \in S : x <= y
<1>1. IsFiniteSet(S)
  BY FiniteUpTo
<1>2. \A x \in S : x \in Int
  OBVIOUS
<1> QED BY <1>1, <1>2, LeastOfFinite

\* And a greatest one.
LEMMA GreatestNumber ==
    ASSUME NEW n \in Nat, NEW S \in SUBSET (0..n), S # {}
    PROVE  \E x \in S : \A y \in S : y <= x
<1> DEFINE R == {r \in 0..n : n - r \in S}
<1>1. R \in SUBSET (0..n)
  OBVIOUS
<1>2. R # {}
  <2>1. PICK x \in S : TRUE
    OBVIOUS
  <2>2. n - x \in 0..n /\ n - (n - x) = x
    OBVIOUS
  <2> QED BY <2>2
<1>3. PICK r \in R : \A y \in R : r <= y
  <2> HIDE DEF R
  <2> QED BY <1>1, <1>2, LeastNumber
<1>4. \A y \in S : n - y \in R
  OBVIOUS
<1>5. n - r \in S /\ \A y \in S : y <= n - r
  BY <1>3, <1>4
<1> QED BY <1>5

\* A finite set of numbers can be listed in increasing order.
LEMMA IncreasingList ==
    ASSUME NEW n \in Nat, NEW S \in SUBSET (1..n)
    PROVE  \E s \in [1..Cardinality(S) -> S] : \A i, j \in DOMAIN s : i < j => s[i] < s[j]
<1> DEFINE Part(k) == {x \in S : x <= k}
           Listed(k) == \E s \in [1..Cardinality(Part(k)) -> Part(k)] :
                            \A i, j \in DOMAIN s : i < j => s[i] < s[j]
           Bad == {k \in 0..n : ~Listed(k)}
<1>0. \A x \in S : x \in Int /\ x \in 1..n
  OBVIOUS
<1>1. \A k \in 0..n : IsFiniteSet(Part(k)) /\ Cardinality(Part(k)) \in Nat
  <2> SUFFICES ASSUME NEW k \in 0..n PROVE IsFiniteSet(Part(k)) /\ Cardinality(Part(k)) \in Nat
    OBVIOUS
  <2>1. Part(k) \in SUBSET (0..n)
    <3>1. S \subseteq 0..n
      BY 1..n \subseteq 0..n
    <3> QED BY <3>1
  <2>2. IsFiniteSet(Part(k))
    BY <2>1, FiniteUpTo
  <2> QED BY <2>2, FS_CardinalityType
<1>2. Listed(0)
  <2>1. Part(0) = {}
    <3>1. \A x \in S : x \in Int /\ ~(x <= 0)
      OBVIOUS
    <3> QED BY <3>1
  <2>2. Cardinality(Part(0)) = 0
    BY <2>1, FS_EmptySet
  <2>3. [i \in 1..0 |-> 0] \in [1..0 -> {}]
    OBVIOUS
  <2> HIDE DEF Part
  <2> QED BY <2>1, <2>2, <2>3
<1>3. ASSUME NEW k \in 1..n, Listed(k - 1) PROVE Listed(k)
  <2>1. PICK s \in [1..Cardinality(Part(k - 1)) -> Part(k - 1)] :
             \A i, j \in DOMAIN s : i < j => s[i] < s[j]
    BY <1>3
  <2>2. CASE k \notin S
    <3>1. \A x \in S : x <= k <=> x <= k - 1
      BY <2>2, <1>0
    <3>2. Part(k) = Part(k - 1)
      BY <3>1
    <3> HIDE DEF Part
    <3> QED BY <3>2, <1>3
  <2>3. CASE k \in S
    <3> DEFINE c == Cardinality(Part(k - 1))
               t == [i \in 1..(c + 1) |-> IF i <= c THEN s[i] ELSE k]
    <3>1. Part(k) = Part(k - 1) \union {k} /\ k \notin Part(k - 1)
      <4>1. \A x \in S : x <= k <=> x <= k - 1 \/ x = k
        BY <1>0
      <4>2. ~(k <= k - 1)
        OBVIOUS
      <4>3. Part(k) \subseteq Part(k - 1) \union {k}
        BY <4>1
      <4>4. Part(k - 1) \union {k} \subseteq Part(k)
        BY <2>3, <4>1
      <4> QED BY <4>2, <4>3, <4>4
    <3>2. IsFiniteSet(Part(k - 1)) /\ c \in Nat
      <4>1. k - 1 \in 0..n
        OBVIOUS
      <4> HIDE DEF Part
      <4> QED BY <4>1, <1>1
    <3>3. Cardinality(Part(k)) = c + 1
      <4> HIDE DEF Part
      <4> QED BY <3>1, <3>2, FS_AddElement
    <3>4. \A x \in Part(k - 1) : x \in Int /\ x < k
      BY <1>0
    <3>5. s \in [1..c -> Part(k - 1)]
      OBVIOUS
    <3> HIDE DEF c, Part
    <3>6. \A i \in 1..c : s[i] \in Part(k) /\ s[i] \in Int /\ s[i] < k
      BY <3>1, <3>4, <3>5
    <3>7. k \in Part(k) /\ k \in Int
      BY <3>1
    <3>8. t \in [1..(c + 1) -> Part(k)]
      BY <3>2, <3>6, <3>7
    <3>9. \A i, j \in DOMAIN t : i < j => t[i] < t[j]
      <4> SUFFICES ASSUME NEW i \in 1..(c + 1), NEW j \in 1..(c + 1), i < j PROVE t[i] < t[j]
        OBVIOUS
      <4>1. i \in 1..c /\ t[i] = s[i]
        BY <3>2
      <4>2. CASE j \in 1..c
        <5>1. DOMAIN s = 1..c
          BY <3>5
        <5>2. s[i] < s[j]
          BY <2>1, <4>1, <4>2, <5>1
        <5>3. t[j] = s[j]
          BY <3>2, <4>2
        <5> QED BY <4>1, <5>2, <5>3
      <4>3. CASE j = c + 1
        BY <3>2, <3>6, <4>1, <4>3
      <4> QED BY <3>2, <4>2, <4>3
    <3> QED BY <3>3, <3>8, <3>9
  <2> QED BY <2>2, <2>3
<1>4. Bad = {}
  <2> SUFFICES ASSUME Bad # {} PROVE FALSE
    OBVIOUS
  <2>1. Bad \in SUBSET (0..n)
    OBVIOUS
  <2>2. PICK k \in Bad : \A j \in Bad : k <= j
    <3> HIDE DEF Bad
    <3> QED BY <2>1, LeastNumber
  <2>3. k \in 0..n /\ ~Listed(k) /\ (\A j \in 0..n : ~Listed(j) => k <= j)
    <3> HIDE DEF Listed
    <3> QED BY <2>2
  <2>4. k # 0
    <3> HIDE DEF Listed
    <3> QED BY <1>2, <2>3
  <2>5. k - 1 \in 0..n /\ k \in 1..n /\ ~(k <= k - 1)
    BY <2>3, <2>4
  <2> HIDE DEF Listed
  <2>6. Listed(k - 1)
    BY <2>3, <2>5
  <2> QED BY <1>3, <2>3, <2>5, <2>6
<1>5. Listed(n)
  <2>1. n \in 0..n
    OBVIOUS
  <2> HIDE DEF Listed
  <2> QED BY <1>4, <2>1
<1>6. Part(n) = S
  <2>1. \A x \in S : x <= n
    BY <1>0
  <2> QED BY <2>1
<1> HIDE DEF Part
<1> QED BY <1>5, <1>6

-----------------------------------------------------------------------------
(* Lists.                                                                  *)

\* A list that is not empty has a first element, and the rest after it.
LEMMA ListFacts ==
    ASSUME NEW S, NEW s \in Seq(S)
    PROVE  /\ Len(s) \in Nat /\ DOMAIN s = 1..Len(s)
           /\ \A i \in 1..Len(s) : s[i] \in S
           /\ s # <<>> <=> Len(s) > 0
           /\ s # <<>> => /\ Head(s) = s[1] /\ s[1] \in S /\ 1 \in DOMAIN s
                          /\ Tail(s) \in Seq(S) /\ Len(Tail(s)) = Len(s) - 1
                          /\ DOMAIN Tail(s) = 1..(Len(s) - 1)
                          /\ \A i \in 1..(Len(s) - 1) : Tail(s)[i] = s[i + 1]
<1>1. Len(s) \in Nat /\ DOMAIN s = 1..Len(s) /\ \A i \in 1..Len(s) : s[i] \in S
  BY LenProperties, ElementOfSeq
<1>2. s # <<>> <=> Len(s) > 0
  BY EmptySeq
<1>3. ASSUME s # <<>>
      PROVE  /\ Head(s) = s[1] /\ s[1] \in S /\ 1 \in DOMAIN s
             /\ Tail(s) \in Seq(S) /\ Len(Tail(s)) = Len(s) - 1
             /\ DOMAIN Tail(s) = 1..(Len(s) - 1)
             /\ \A i \in 1..(Len(s) - 1) : Tail(s)[i] = s[i + 1]
  <2>1. Tail(s) \in Seq(S) /\ Len(Tail(s)) = Len(s) - 1
        /\ \A i \in 1..Len(Tail(s)) : Tail(s)[i] = s[i + 1]
    BY <1>3, HeadTailProperties
  <2>2. DOMAIN Tail(s) = 1..Len(Tail(s))
    BY <2>1, LenProperties
  <2>3. 1 \in 1..Len(s)
    BY <1>1, <1>2, <1>3
  <2> QED BY <1>1, <2>1, <2>2, <2>3
<1> QED BY <1>1, <1>2, <1>3

\* One more element at the end of a list.
LEMMA AppendFacts ==
    ASSUME NEW S, NEW s \in Seq(S), NEW e \in S
    PROVE  /\ Append(s, e) \in Seq(S) /\ Len(Append(s, e)) = Len(s) + 1
           /\ DOMAIN Append(s, e) = 1..(Len(s) + 1)
           /\ \A i \in 1..Len(s) : Append(s, e)[i] = s[i]
           /\ Append(s, e)[Len(s) + 1] = e
<1>1. Append(s, e) \in Seq(S) /\ Len(Append(s, e)) = Len(s) + 1
  BY AppendProperties
<1>2. DOMAIN Append(s, e) = 1..Len(Append(s, e))
  BY <1>1, LenProperties
<1> QED BY <1>1, <1>2, AppendProperties

-----------------------------------------------------------------------------
(* Sums: the library's SumFunctionOnSet, taken element by element.         *)

\* A function that sums f over the subsets of S the way the library does.
Chosen(s) == CHOOSE x \in s : TRUE
Sums(g, f, S) ==
    g = [s \in SUBSET S |-> IF s = {} THEN 0 ELSE f[Chosen(s)] + g[s \ {Chosen(s)}]]

SumsOver(g, f, S) ==
    \A s \in SUBSET S : g[s] = IF s = {} THEN 0 ELSE f[Chosen(s)] + g[s \ {Chosen(s)}]

\* What one may show of the subsets of a finite set by taking a smallest counterexample.
LEMMA SmallestSubset ==
    ASSUME NEW S, IsFiniteSet(S), NEW F \in SUBSET SUBSET S, F # {}
    PROVE  \E T \in F : \A x \in T : T \ {x} \notin F
<1>1. PICK T \in F : \A U \in F : U \subseteq T => U = T
  BY SmallestMember
<1>2. \A x \in T : T \ {x} \subseteq T /\ T \ {x} # T
  OBVIOUS
<1> QED BY <1>1, <1>2

\* Two such functions agree where they sum the same.
LEMMA SumsAgree ==
    ASSUME NEW S, IsFiniteSet(S), NEW T \in SUBSET S, NEW f, NEW g, NEW h, NEW k,
           \A x \in T : f[x] = g[x],
           SumsOver(h, f, T), SumsOver(k, g, T)
    PROVE  \A s \in SUBSET T : h[s] = k[s]
<1> DEFINE F == {s \in SUBSET T : h[s] # k[s]}
<1> SUFFICES ASSUME F # {} PROVE FALSE
  OBVIOUS
<1>1. IsFiniteSet(T) /\ F \in SUBSET SUBSET T
  BY FS_Subset
<1>2. PICK s \in F : \A x \in s : s \ {x} \notin F
  <2> HIDE DEF F
  <2> QED BY <1>1, SmallestSubset
<1>3. s \in SUBSET T /\ h[s] # k[s] /\ s # {}
  <2>1. h[{}] = 0 /\ k[{}] = 0
    BY DEF SumsOver
  <2> QED BY <1>2, <2>1
<1>4. Chosen(s) \in s
  BY <1>3 DEF Chosen
<1>5. s \ {Chosen(s)} \in SUBSET T /\ h[s \ {Chosen(s)}] = k[s \ {Chosen(s)}]
  BY <1>2, <1>3, <1>4
<1>6. f[Chosen(s)] = g[Chosen(s)]
  BY <1>3, <1>4
<1>7. /\ h[s] = f[Chosen(s)] + h[s \ {Chosen(s)}]
      /\ k[s] = g[Chosen(s)] + k[s \ {Chosen(s)}]
  BY <1>3 DEF SumsOver
<1> QED BY <1>3, <1>5, <1>6, <1>7

\* The library chooses such a function.
LEMMA SumIsChosen ==
    ASSUME NEW f, NEW S
    PROVE  SumFunctionOnSet(f, S) = (CHOOSE g : Sums(g, f, S))[S]
<1> DEFINE iter[s \in SUBSET S] ==
               IF s = {} THEN 0
               ELSE f[CHOOSE x \in s : TRUE] + iter[s \ {CHOOSE x \in s : TRUE}]
<1>1. SumFunctionOnSet(f, S) = iter[S]
  BY DEF SumFunctionOnSet, FoldFunctionOnSet, MapThenFoldSet
<1>2. iter = CHOOSE g : Sums(g, f, S)
  BY DEF Sums, Chosen
<1> HIDE DEF iter
<1> QED BY <1>1, <1>2

\* There is one.
LEMMA SumsExist ==
    ASSUME NEW S, IsFiniteSet(S), NEW f
    PROVE  \A T \in SUBSET S : \E g : Sums(g, f, T)
<1> DEFINE F == {T \in SUBSET S : ~ \E g : Sums(g, f, T)}
           G(u) == CHOOSE g : Sums(g, f, u)
<1> SUFFICES ASSUME F # {} PROVE FALSE
  OBVIOUS
<1>1. PICK T \in F : \A U \in F : U \subseteq T => U = T
  <2>1. F \in SUBSET SUBSET S
    OBVIOUS
  <2> HIDE DEF F
  <2> QED BY <2>1, SmallestMember
<1>2. T \in SUBSET S /\ ~ \E g : Sums(g, f, T)
  BY <1>1
<1>3. ASSUME NEW u \in SUBSET T, u # T PROVE Sums(G(u), f, u)
  <2>1. u \notin F /\ u \in SUBSET S
    BY <1>1, <1>2, <1>3
  <2> QED BY <2>1
<1> DEFINE g == [s \in SUBSET T |->
                    IF s = {} THEN 0
                    ELSE f[Chosen(s)] + G(s \ {Chosen(s)})[s \ {Chosen(s)}]]
<1> HIDE DEF G, F
<1>4. ASSUME NEW u \in SUBSET T, u # T, NEW v \in SUBSET u PROVE G(u)[v] = G(v)[v]
  <2>1. v \in SUBSET T /\ v # T /\ v \in SUBSET S
    BY <1>2, <1>4
  <2>2. PICK h : h = G(u) /\ Sums(h, f, u)
    BY <1>3, <1>4
  <2>3. PICK k : k = G(v) /\ Sums(k, f, v)
    BY <1>3, <2>1
  <2>4. SumsOver(h, f, v)
    BY <2>2 DEF Sums, SumsOver
  <2>5. SumsOver(k, f, v)
    BY <2>3 DEF Sums, SumsOver
  <2>6. h[v] = k[v]
    BY <2>1, <2>4, <2>5, SumsAgree
  <2> QED BY <2>2, <2>3, <2>6
<1>5. ASSUME NEW u \in SUBSET T, u # T PROVE G(u)[u] = g[u]
  <2>1. G(u)[u] = IF u = {} THEN 0 ELSE f[Chosen(u)] + G(u)[u \ {Chosen(u)}]
    BY <1>3, <1>5 DEF Sums
  <2>2. u # {} => G(u)[u \ {Chosen(u)}] = G(u \ {Chosen(u)})[u \ {Chosen(u)}]
    BY <1>4, <1>5
  <2> QED BY <2>1, <2>2
<1>6. Sums(g, f, T)
  <2>1. ASSUME NEW s \in SUBSET T, s # {}
        PROVE  G(s \ {Chosen(s)})[s \ {Chosen(s)}] = g[s \ {Chosen(s)}]
    <3>1. Chosen(s) \in s
      BY <2>1 DEF Chosen
    <3>2. s \ {Chosen(s)} \in SUBSET T /\ s \ {Chosen(s)} # T
      BY <3>1
    <3> QED BY <1>5, <3>2
  <2>2. g = [s \in SUBSET T |-> IF s = {} THEN 0 ELSE f[Chosen(s)] + g[s \ {Chosen(s)}]]
    BY <2>1
  <2> QED BY <2>2 DEF Sums
<1> QED BY <1>2, <1>6

\* So the library's sum is what its definition says.
LEMMA SumEquation ==
    ASSUME NEW S, IsFiniteSet(S), NEW f
    PROVE  SumFunctionOnSet(f, S) =
               IF S = {} THEN 0 ELSE f[Chosen(S)] + SumFunctionOnSet(f, S \ {Chosen(S)})
<1> DEFINE G(u) == CHOOSE g : Sums(g, f, u)
<1>1. \A u \in SUBSET S : Sums(G(u), f, u) /\ SumFunctionOnSet(f, u) = G(u)[u]
  BY SumsExist, SumIsChosen
<1> HIDE DEF G
<1>2. PICK h : h = G(S) /\ SumsOver(h, f, S)
  BY <1>1 DEF Sums, SumsOver
<1>3. PICK rest \in SUBSET S : rest = S \ {Chosen(S)}
  OBVIOUS
<1>4. PICK k : k = G(rest) /\ SumsOver(k, f, rest)
  BY <1>1 DEF Sums, SumsOver
<1>5. SumsOver(h, f, rest)
  BY <1>2 DEF SumsOver
<1>6. h[rest] = k[rest]
  BY <1>4, <1>5, SumsAgree
<1>7. SumFunctionOnSet(f, S) = h[S] /\ SumFunctionOnSet(f, rest) = k[rest]
  BY <1>1, <1>2, <1>4
<1>8. h[S] = IF S = {} THEN 0 ELSE f[Chosen(S)] + h[rest]
  BY <1>2, <1>3 DEF SumsOver
<1> QED BY <1>3, <1>6, <1>7, <1>8

\* Two functions that agree on a set have the same sum over it.
LEMMA SumOfSame ==
    ASSUME NEW S, IsFiniteSet(S), NEW f, NEW g, \A x \in S : f[x] = g[x]
    PROVE  SumFunctionOnSet(f, S) = SumFunctionOnSet(g, S)
<1> DEFINE F == {s \in SUBSET S : SumFunctionOnSet(f, s) # SumFunctionOnSet(g, s)}
<1> SUFFICES ASSUME F # {} PROVE FALSE
  OBVIOUS
<1>1. PICK s \in F : \A x \in s : s \ {x} \notin F
  <2>1. F \in SUBSET SUBSET S
    OBVIOUS
  <2> HIDE DEF F
  <2> QED BY <2>1, SmallestSubset
<1>2. s \in SUBSET S /\ IsFiniteSet(s) /\ SumFunctionOnSet(f, s) # SumFunctionOnSet(g, s)
  BY <1>1, FS_Subset
<1>3. /\ SumFunctionOnSet(f, s) = IF s = {} THEN 0 ELSE f[Chosen(s)] + SumFunctionOnSet(f, s \ {Chosen(s)})
      /\ SumFunctionOnSet(g, s) = IF s = {} THEN 0 ELSE g[Chosen(s)] + SumFunctionOnSet(g, s \ {Chosen(s)})
  BY <1>2, SumEquation
<1>4. Chosen(s) \in s
  BY <1>2, <1>3 DEF Chosen
<1>5. SumFunctionOnSet(f, s \ {Chosen(s)}) = SumFunctionOnSet(g, s \ {Chosen(s)})
  BY <1>1, <1>2, <1>4
<1>6. f[Chosen(s)] = g[Chosen(s)]
  BY <1>2, <1>4
<1> QED BY <1>2, <1>3, <1>5, <1>6

\* The sum of integers is one.
LEMMA SumIsInt ==
    ASSUME NEW S, IsFiniteSet(S), NEW f, \A x \in S : f[x] \in Int
    PROVE  SumFunctionOnSet(f, S) \in Int
<1> DEFINE F == {s \in SUBSET S : SumFunctionOnSet(f, s) \notin Int}
<1> SUFFICES ASSUME F # {} PROVE FALSE
  OBVIOUS
<1>1. PICK s \in F : \A x \in s : s \ {x} \notin F
  <2>1. F \in SUBSET SUBSET S
    OBVIOUS
  <2> HIDE DEF F
  <2> QED BY <2>1, SmallestSubset
<1>2. s \in SUBSET S /\ IsFiniteSet(s) /\ SumFunctionOnSet(f, s) \notin Int
  BY <1>1, FS_Subset
<1>3. SumFunctionOnSet(f, s) = IF s = {} THEN 0 ELSE f[Chosen(s)] + SumFunctionOnSet(f, s \ {Chosen(s)})
  BY <1>2, SumEquation
<1>4. s # {} /\ Chosen(s) \in s
  BY <1>2, <1>3 DEF Chosen
<1>5. SumFunctionOnSet(f, s \ {Chosen(s)}) \in Int /\ f[Chosen(s)] \in Int
  BY <1>1, <1>2, <1>4
<1> QED BY <1>2, <1>3, <1>4, <1>5

\* Any element can be taken out of a sum.
LEMMA SumTakesOut ==
    ASSUME NEW S, IsFiniteSet(S), NEW f, \A x \in S : f[x] \in Int, NEW x \in S
    PROVE  /\ SumFunctionOnSet(f, S \ {x}) \in Int
           /\ SumFunctionOnSet(f, S) = f[x] + SumFunctionOnSet(f, S \ {x})
<1> DEFINE sum(s) == SumFunctionOnSet(f, s)
           F == {s \in SUBSET S : \E y \in s : sum(s) # f[y] + sum(s \ {y})}
<1>1. \A s \in SUBSET S : IsFiniteSet(s) /\ sum(s) \in Int
  <2> SUFFICES ASSUME NEW s \in SUBSET S PROVE IsFiniteSet(s) /\ sum(s) \in Int
    OBVIOUS
  <2>1. IsFiniteSet(s) /\ \A y \in s : f[y] \in Int
    BY FS_Subset
  <2> QED BY <2>1, SumIsInt
<1>2. \A s \in SUBSET S : sum(s) = IF s = {} THEN 0 ELSE f[Chosen(s)] + sum(s \ {Chosen(s)})
  BY <1>1, SumEquation
<1>3. F = {} => sum(S) = f[x] + sum(S \ {x})
  <2> HIDE DEF sum
  <2> QED OBVIOUS
<1> HIDE DEF sum
<1>4. ASSUME F # {} PROVE FALSE
  <2>1. PICK s \in F : \A y \in s : s \ {y} \notin F
    <3>1. F \in SUBSET SUBSET S
      OBVIOUS
    <3> HIDE DEF F
    <3> QED BY <1>4, <3>1, SmallestSubset
  <2>2. PICK y \in s : sum(s) # f[y] + sum(s \ {y})
    BY <2>1
  <2>3. PICK z \in s : z = Chosen(s)
    BY DEF Chosen
  <2>4. s \in SUBSET S /\ s \ {z} \in SUBSET S /\ s \ {y} \in SUBSET S
    BY <2>1
  <2>5. sum(s) = f[z] + sum(s \ {z}) /\ y # z
    BY <1>2, <2>2, <2>3, <2>4
  <2>6. s \ {z} \notin F /\ s \ {y} \notin F
    BY <2>1
  <2>7. PICK rest \in SUBSET S : rest = (s \ {z}) \ {y} /\ rest = (s \ {y}) \ {z}
    BY <2>4
  <2>8. sum(s \ {z}) = f[y] + sum(rest)
    BY <2>4, <2>5, <2>6, <2>7
  <2>9. sum(s \ {y}) = f[z] + sum(rest)
    BY <2>4, <2>5, <2>6, <2>7
  <2>10. f[y] \in Int /\ f[z] \in Int /\ sum(rest) \in Int
    BY <1>1, <2>4
  <2> QED BY <2>2, <2>5, <2>8, <2>9, <2>10
<1>5. S \ {x} \in SUBSET S
  OBVIOUS
<1> QED BY <1>1, <1>3, <1>4, <1>5 DEF sum

\* The sum of naturals is one.
LEMMA SumIsNat ==
    ASSUME NEW S, IsFiniteSet(S), NEW f, \A x \in S : f[x] \in Nat
    PROVE  SumFunctionOnSet(f, S) \in Nat
<1> DEFINE F == {s \in SUBSET S : SumFunctionOnSet(f, s) \notin Nat}
<1> SUFFICES ASSUME F # {} PROVE FALSE
  OBVIOUS
<1>1. PICK s \in F : \A x \in s : s \ {x} \notin F
  <2>1. F \in SUBSET SUBSET S
    OBVIOUS
  <2> HIDE DEF F
  <2> QED BY <2>1, SmallestSubset
<1>2. s \in SUBSET S /\ IsFiniteSet(s) /\ SumFunctionOnSet(f, s) \notin Nat
  BY <1>1, FS_Subset
<1>3. SumFunctionOnSet(f, s) = IF s = {} THEN 0 ELSE f[Chosen(s)] + SumFunctionOnSet(f, s \ {Chosen(s)})
  BY <1>2, SumEquation
<1>4. s # {} /\ Chosen(s) \in s
  BY <1>2, <1>3 DEF Chosen
<1>5. SumFunctionOnSet(f, s \ {Chosen(s)}) \in Nat /\ f[Chosen(s)] \in Nat
  BY <1>1, <1>2, <1>4
<1> QED BY <1>2, <1>3, <1>4, <1>5

\* An element more in a sum.
LEMMA SumTakesIn ==
    ASSUME NEW S, IsFiniteSet(S), NEW x, x \notin S,
           NEW f, \A y \in S \union {x} : f[y] \in Int
    PROVE  SumFunctionOnSet(f, S \union {x}) = SumFunctionOnSet(f, S) + f[x]
<1>1. PICK T : T = S \union {x} /\ IsFiniteSet(T) /\ x \in T /\ T \ {x} = S
  <2>1. IsFiniteSet(S \union {x})
    BY FS_AddElement
  <2>2. (S \union {x}) \ {x} = S
    OBVIOUS
  <2> QED BY <2>1, <2>2
<1>2. SumFunctionOnSet(f, T) = f[x] + SumFunctionOnSet(f, S) /\ SumFunctionOnSet(f, S) \in Int
  BY <1>1, SumTakesOut
<1> QED BY <1>1, <1>2

\* A sum in which one element changes.
LEMMA SumChanges ==
    ASSUME NEW S, IsFiniteSet(S), NEW x \in S, NEW f, NEW g,
           \A y \in S : f[y] \in Int /\ g[y] \in Int /\ (y # x => f[y] = g[y])
    PROVE  SumFunctionOnSet(g, S) = SumFunctionOnSet(f, S) - f[x] + g[x]
<1>1. IsFiniteSet(S \ {x})
  BY FS_Subset
<1>2. SumFunctionOnSet(f, S \ {x}) = SumFunctionOnSet(g, S \ {x})
  BY <1>1, SumOfSame
<1>3. /\ SumFunctionOnSet(f, S) = f[x] + SumFunctionOnSet(f, S \ {x})
      /\ SumFunctionOnSet(f, S \ {x}) \in Int
  BY SumTakesOut
<1>4. SumFunctionOnSet(g, S) = g[x] + SumFunctionOnSet(g, S \ {x})
  BY SumTakesOut
<1>5. f[x] \in Int /\ g[x] \in Int
  OBVIOUS
<1> QED BY <1>2, <1>3, <1>4, <1>5

\* The members that count for nothing may be left out of a sum.
LEMMA SumWithoutZeros ==
    ASSUME NEW S, IsFiniteSet(S), NEW T \in SUBSET S, NEW f, \A x \in S : f[x] \in Int,
           \A x \in S \ T : f[x] = 0
    PROVE  SumFunctionOnSet(f, S) = SumFunctionOnSet(f, T)
<1> DEFINE sum(s) == SumFunctionOnSet(f, s)
           F == {s \in SUBSET S : T \subseteq s /\ sum(s) # sum(T)}
<1> SUFFICES ASSUME F # {} PROVE FALSE
  <2>1. S \in SUBSET S /\ T \subseteq S
    OBVIOUS
  <2>2. F = {} => sum(S) = sum(T)
    <3> HIDE DEF sum
    <3> QED BY <2>1
  <2> QED BY <2>2
<1> HIDE DEF sum
<1>1. PICK s \in F : \A x \in s : s \ {x} \notin F
  <2>1. F \in SUBSET SUBSET S
    OBVIOUS
  <2> HIDE DEF F
  <2> QED BY <2>1, SmallestSubset
<1>2. PICK x \in s : x \notin T
  BY <1>1
<1>3. s \in SUBSET S /\ IsFiniteSet(s) /\ T \subseteq s \ {x} /\ s \ {x} \in SUBSET S
  BY <1>1, <1>2, FS_Subset
<1>4. sum(s \ {x}) = sum(T)
  BY <1>1, <1>2, <1>3
<1>5. /\ sum(s) = f[x] + sum(s \ {x})
      /\ sum(s \ {x}) \in Int
  <2>1. \A y \in s : f[y] \in Int
    BY <1>3
  <2> QED BY <1>2, <1>3, <2>1, SumTakesOut DEF sum
<1>6. f[x] = 0
  BY <1>2, <1>3
<1> QED BY <1>1, <1>4, <1>5, <1>6

\* A bound on each member is one on their sum.
LEMMA SumIsBounded ==
    ASSUME NEW S, IsFiniteSet(S), NEW f, NEW g, NEW k \in Int,
           \A x \in S : f[x] \in Int /\ g[x] \in Int /\ f[x] <= k * g[x]
    PROVE  SumFunctionOnSet(f, S) <= k * SumFunctionOnSet(g, S)
<1> DEFINE a(s) == SumFunctionOnSet(f, s)
           b(s) == SumFunctionOnSet(g, s)
           F == {s \in SUBSET S : ~ (a(s) <= k * b(s))}
<1> SUFFICES ASSUME F # {} PROVE FALSE
  OBVIOUS
<1>1. PICK s \in F : \A x \in s : s \ {x} \notin F
  <2>1. F \in SUBSET SUBSET S
    OBVIOUS
  <2> HIDE DEF F
  <2> QED BY <2>1, SmallestSubset
<1>2. s \in SUBSET S /\ IsFiniteSet(s) /\ ~ (a(s) <= k * b(s))
  BY <1>1, FS_Subset
<1>3. s # {}
  <2> SUFFICES ASSUME s = {} PROVE FALSE
    OBVIOUS
  <2>1. a({}) = 0 /\ b({}) = 0
    BY FS_EmptySet, SumEquation
  <2> HIDE DEF a, b
  <2> QED BY <1>2, <2>1
<1>4. PICK x \in s : TRUE
  BY <1>3
<1>5. /\ a(s) = f[x] + a(s \ {x}) /\ a(s \ {x}) \in Int
      /\ b(s) = g[x] + b(s \ {x}) /\ b(s \ {x}) \in Int
  BY <1>2, <1>4, SumTakesOut
<1>6. a(s \ {x}) <= k * b(s \ {x})
  BY <1>1, <1>2, <1>4
<1>7. f[x] \in Int /\ g[x] \in Int /\ f[x] <= k * g[x]
  BY <1>2, <1>4
<1>8. k * (g[x] + b(s \ {x})) = k * g[x] + k * b(s \ {x})
  <2> HIDE DEF b
  <2> QED BY <1>5, <1>7
<1> HIDE DEF a, b, F
<1> QED BY <1>2, <1>5, <1>6, <1>7, <1>8


\* Ones add up to the number of members.
LEMMA SumOfOnes ==
    ASSUME NEW S, IsFiniteSet(S), NEW f, \A x \in S : f[x] = 1
    PROVE  SumFunctionOnSet(f, S) = Cardinality(S)
<1> DEFINE F == {s \in SUBSET S : SumFunctionOnSet(f, s) # Cardinality(s)}
<1> SUFFICES ASSUME F # {} PROVE FALSE
  OBVIOUS
<1>1. PICK s \in F : \A x \in s : s \ {x} \notin F
  <2>1. F \in SUBSET SUBSET S
    OBVIOUS
  <2> HIDE DEF F
  <2> QED BY <2>1, SmallestSubset
<1>2. s \in SUBSET S /\ IsFiniteSet(s) /\ SumFunctionOnSet(f, s) # Cardinality(s)
  BY <1>1, FS_Subset
<1>3. SumFunctionOnSet(f, s) = IF s = {} THEN 0 ELSE f[Chosen(s)] + SumFunctionOnSet(f, s \ {Chosen(s)})
  BY <1>2, SumEquation
<1>4. s # {}
  BY <1>2, <1>3, FS_EmptySet
<1>5. PICK x \in s : x = Chosen(s)
  BY <1>4 DEF Chosen
<1>6. SumFunctionOnSet(f, s \ {x}) = Cardinality(s \ {x}) /\ f[x] = 1
  BY <1>1, <1>2
<1>7. Cardinality(s \ {x}) = Cardinality(s) - 1 /\ Cardinality(s) \in Nat
  BY <1>2, FS_RemoveElement, FS_CardinalityType
<1> QED BY <1>2, <1>3, <1>4, <1>5, <1>6, <1>7

\* A sum below zero has a member below zero; one above the bound of each, a member above it.
LEMMA SumHasAWitness ==
    ASSUME NEW S, IsFiniteSet(S), NEW f, \A x \in S : f[x] \in Int
    PROVE  /\ SumFunctionOnSet(f, S) \in Int
           /\ SumFunctionOnSet(f, S) < 0 => \E x \in S : f[x] < 0
           /\ \A k \in Int : SumFunctionOnSet(f, S) > k * Cardinality(S) => \E x \in S : f[x] > k
<1>1. SumFunctionOnSet(f, S) \in Int /\ Cardinality(S) \in Nat
  BY SumIsInt, FS_CardinalityType
<1>2. ASSUME \A x \in S : ~ (f[x] < 0) PROVE ~ (SumFunctionOnSet(f, S) < 0)
  <2>1. \A x \in S : f[x] \in Nat
    BY <1>2
  <2>2. SumFunctionOnSet(f, S) \in Nat
    BY <2>1, SumIsNat
  <2> QED BY <2>2
<1>3. ASSUME NEW k \in Int, \A x \in S : ~ (f[x] > k)
      PROVE  ~ (SumFunctionOnSet(f, S) > k * Cardinality(S))
  <2>1. PICK one : one = [x \in S |-> 1]
    OBVIOUS
  <2>2. SumFunctionOnSet(one, S) = Cardinality(S)
    BY <2>1, SumOfOnes
  <2>3. \A x \in S : f[x] \in Int /\ one[x] \in Int /\ f[x] <= k * one[x]
    BY <1>3, <2>1
  <2>4. SumFunctionOnSet(f, S) <= k * SumFunctionOnSet(one, S)
    BY <2>3, SumIsBounded
  <2>5. k * Cardinality(S) \in Int
    BY <1>1
  <2> QED BY <1>1, <2>2, <2>4, <2>5
<1> QED BY <1>1, <1>2, <1>3
=============================================================================
