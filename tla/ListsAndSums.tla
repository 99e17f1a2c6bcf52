---------------------------- MODULE ListsAndSums ----------------------------
(***************************************************************************)
(* Lemmas about the operators on lists and sums that the other modules are *)
(* built from.  Facts that need an induction are proved by the least       *)
(* counterexample.                                                         *)
(***************************************************************************)
EXTENDS Integers, SequencesExt, FiniteSetsExt,
        SequenceTheorems, FiniteSetTheorems, WellFoundedInduction, TLAPS

\* A set of numbers that is not empty has a least one.
LEMMA LeastOf ==
  ASSUME NEW I \in SUBSET Nat, I # {}
  PROVE  /\ Min(I) \in I
         /\ \A m \in I : Min(I) <= m
<1> DEFINE R == {p \in Nat \X Nat : p[1] < p[2]}
<1>1. IsWellFoundedOn(R, Nat)
  BY NatLessThanWellFounded DEF OpToRel
<1>2. \E n \in I : \A m \in I : n <= m
  <2>1. \E n \in I : \A m \in I : ~ <<m, n>> \in R
    <3>1. I \subseteq Nat
      OBVIOUS
    <3> HIDE DEF R
    <3> QED BY <1>1, <3>1, WFMin, Zenon
  <2>2. ASSUME NEW m \in Nat, NEW n \in Nat, m < n PROVE <<m, n>> \in R
    BY <2>2
  <2> HIDE DEF R
  <2>3. PICK n \in I : \A m \in I : ~ <<m, n>> \in R
    BY <2>1
  <2>4. ASSUME NEW m \in I PROVE n <= m
    <3>1. m \in Nat /\ n \in Nat /\ ~ (m < n)
      BY <2>2, <2>3
    <3> QED BY <3>1
  <2> QED BY <2>4
<1> QED BY <1>2 DEF Min

\* What holds of 0 and passes from each number to the next holds up to N.
LEMMA UpTo ==
  ASSUME NEW N \in Nat, NEW Good \in SUBSET Nat, 0 \in Good,
         \A n \in 1..N : n - 1 \in Good => n \in Good
  PROVE  0..N \subseteq Good
<1> DEFINE Bad == {n \in 0..N : n \notin Good}
<1> SUFFICES ASSUME Bad # {} PROVE FALSE
  OBVIOUS
<1>1. Bad \in SUBSET Nat
  OBVIOUS
<1>2. PICK n \in Bad : \A m \in Bad : n <= m
  <2> HIDE DEF Bad
  <2> QED BY <1>1, LeastOf
<1>3. n \in 1..N /\ n - 1 \in 0..N
  BY <1>2
<1>4. n - 1 \notin Bad
  BY <1>2, <1>3
<1> QED BY <1>2, <1>3, <1>4

\* f counts up from first to N, step by step.
Recurs(f, N, S, first, step) ==
  f \in [0..N -> S] /\ f[0] = first /\ \A n \in 1..N : f[n] = step[<<n, f[n - 1]>>]

\* A function that computes each value from the one before exists.
LEMMA Recursion ==
  ASSUME NEW N \in Nat, NEW S, NEW first \in S, NEW step \in [(1..N) \X S -> S]
  PROVE  \E f : Recurs(f, N, S, first, step)
<1> DEFINE Good == {k \in Nat : k <= N => \E f \in [0..k -> S] :
                      f[0] = first /\ \A n \in 1..k : f[n] = step[<<n, f[n - 1]>>]}
<1>1. 0 \in Good
  <2> DEFINE f == [n \in 0..0 |-> first]
  <2>1. f \in [0..0 -> S] /\ f[0] = first
    OBVIOUS
  <2>2. \A n \in 1..0 : f[n] = step[<<n, f[n - 1]>>]
    OBVIOUS
  <2> HIDE DEF f
  <2> QED BY <2>1, <2>2
<1>2. ASSUME NEW k \in 1..N, k - 1 \in Good PROVE k \in Good
  <2>1. PICK f \in [0..(k - 1) -> S] :
          f[0] = first /\ \A n \in 1..(k - 1) : f[n] = step[<<n, f[n - 1]>>]
    BY <1>2
  <2> DEFINE g == [n \in 0..k |-> IF n = k THEN step[<<k, f[k - 1]>>] ELSE f[n]]
  <2>2. f[k - 1] \in S
    OBVIOUS
  <2>3. step[<<k, f[k - 1]>>] \in S
    BY <2>2
  <2>4. g \in [0..k -> S]
    BY <2>3
  <2>5. g[0] = first
    BY <2>1
  <2>6. ASSUME NEW n \in 1..k PROVE g[n] = step[<<n, g[n - 1]>>]
    <3>0. n \in 0..k /\ n - 1 \in 0..k /\ n - 1 # k
      OBVIOUS
    <3>a. g[n - 1] = f[n - 1]
      BY <3>0
    <3>1. CASE n = k
      BY <3>0, <3>1, <3>a
    <3>2. CASE n # k
      BY <2>1, <3>0, <3>2, <3>a
    <3> QED BY <3>1, <3>2
  <2> HIDE DEF g
  <2> QED BY <2>4, <2>5, <2>6
<1> HIDE DEF Good
<1>3. 0..N \subseteq Good
  <2>1. Good \in SUBSET Nat
    BY DEF Good
  <2> QED BY <1>1, <1>2, <2>1, UpTo
<1>4. N \in Good
  BY <1>3
<1>5. \E f \in [0..N -> S] : f[0] = first /\ \A n \in 1..N : f[n] = step[<<n, f[n - 1]>>]
  BY <1>4 DEF Good
<1> QED BY <1>5 DEF Recurs

-----------------------------------------------------------------------------
(* SumFunction of a function with a finite domain.                         *)

\* g sums f over every subset of S, taking out one element after the other.
SumsBy(g, f, S) ==
  /\ g \in [SUBSET S -> Int] /\ g[{}] = 0
  /\ \A s \in SUBSET S : s # {} => LET x == CHOOSE x \in s : TRUE IN g[s] = f[x] + g[s \ {x}]

\* Subsets of a finite set, by size.
LEMMA SizeOfPart ==
  ASSUME NEW S, IsFiniteSet(S), NEW s \in SUBSET S
  PROVE  /\ IsFiniteSet(s) /\ Cardinality(s) \in 0..Cardinality(S) /\ Cardinality(S) \in Nat
         /\ \A x \in s : Cardinality(s \ {x}) = Cardinality(s) - 1 /\ Cardinality(s) >= 1
         /\ Cardinality(s) = 0 => s = {}
<1>1. IsFiniteSet(s) /\ Cardinality(s) <= Cardinality(S) /\ Cardinality(s) \in Nat /\ Cardinality(S) \in Nat
  BY FS_Subset, FS_CardinalityType
<1>2. ASSUME NEW x \in s PROVE Cardinality(s \ {x}) = Cardinality(s) - 1 /\ Cardinality(s) >= 1
  <2>1. IsFiniteSet(s \ {x}) /\ Cardinality(s \ {x}) = Cardinality(s) - 1
    BY <1>1, FS_RemoveElement
  <2>2. Cardinality(s \ {x}) \in Nat
    BY <2>1, FS_CardinalityType
  <2> QED BY <1>1, <2>1, <2>2
<1>3. Cardinality(s) = 0 => s = {}
  BY <1>1, FS_EmptySet
<1> QED BY <1>1, <1>2, <1>3

\* A sum over a finite set can be computed in some order.
LEMMA SumExists ==
  ASSUME NEW S, IsFiniteSet(S), NEW f \in [S -> Int]
  PROVE  \E g : SumsBy(g, f, S)
<1> DEFINE Part(n) == {s \in SUBSET S : Cardinality(s) <= n}
           Sure(s) == CHOOSE x \in s : TRUE
           Right(g, n) == /\ g \in [Part(n) -> Int] /\ g[{}] = 0
                          /\ \A s \in Part(n) : s # {} => g[s] = f[Sure(s)] + g[s \ {Sure(s)}]
           Good == {n \in Nat : \E g : Right(g, n)}
<1>0. \A s \in SUBSET S : s # {} => Sure(s) \in s
  OBVIOUS
<1>1. 0 \in Good
  <2>1. Part(0) = {{}}
    <3>1. \A s \in SUBSET S : Cardinality(s) <= 0 => s = {}
      BY SizeOfPart
    <3>2. Cardinality({}) = 0
      BY FS_EmptySet
    <3> QED BY <3>1, <3>2
  <2> DEFINE g == [s \in Part(0) |-> 0]
  <2>2. Right(g, 0)
    <3> HIDE DEF Sure
    <3> QED BY <2>1
  <2> HIDE DEF g, Right
  <2> QED BY <2>2
<1>2. ASSUME NEW n \in 1..Cardinality(S), n - 1 \in Good PROVE n \in Good
  <2>1. PICK g : Right(g, n - 1)
    BY <1>2
  <2>2. n \in Nat
    BY SizeOfPart
  <2> DEFINE h == [s \in Part(n) |-> IF s \in Part(n - 1) THEN g[s] ELSE f[Sure(s)] + g[s \ {Sure(s)}]]
  <2>3. \A s \in Part(n) : s # {} => Sure(s) \in s /\ s \ {Sure(s)} \in Part(n - 1) /\ s \ {Sure(s)} \in Part(n)
    <3> HIDE DEF Sure
    <3>1. ASSUME NEW s \in Part(n), s # {} PROVE Cardinality(s \ {Sure(s)}) = Cardinality(s) - 1 /\ Cardinality(s) \in Nat
      BY <1>0, <3>1, SizeOfPart
    <3> QED BY <1>0, <2>2, <3>1
  <2>4. {} \in Part(n - 1) /\ {} \in Part(n)
    BY <2>2, FS_EmptySet
  <2>5. h \in [Part(n) -> Int]
    <3>1. ASSUME NEW s \in Part(n) PROVE h[s] \in Int
      <4>1. CASE s \in Part(n - 1)
        <5> HIDE DEF Part
        <5> QED BY <2>1, <4>1
      <4>2. CASE s \notin Part(n - 1)
        <5>1. s # {} /\ s \in SUBSET S
          BY <2>4, <4>2
        <5>2. f[Sure(s)] \in Int
          BY <1>0, <5>1
        <5> HIDE DEF Part
        <5>3. g[s \ {Sure(s)}] \in Int
          BY <2>1, <2>3, <5>1
        <5> HIDE DEF Sure
        <5>4. h[s] = f[Sure(s)] + g[s \ {Sure(s)}]
          BY <4>2
        <5> QED BY <5>2, <5>3, <5>4
      <4> QED BY <4>1, <4>2
    <3> HIDE DEF Part, Sure
    <3> QED BY <3>1
  <2>6. h[{}] = 0
    <3> HIDE DEF Part, Sure
    <3> QED BY <2>1, <2>4
  <2>7. ASSUME NEW s \in Part(n), s # {} PROVE h[s] = f[Sure(s)] + h[s \ {Sure(s)}]
    <3> HIDE DEF Part, Sure
    <3>1. h[s \ {Sure(s)}] = g[s \ {Sure(s)}]
      BY <2>3, <2>7
    <3> QED BY <2>1, <2>7, <3>1
  <2>8. Right(h, n)
    <3> HIDE DEF h, Part, Sure
    <3> QED BY <2>5, <2>6, <2>7
  <2> HIDE DEF Right, h
  <2> QED BY <2>2, <2>8
<1>3. Cardinality(S) \in Good /\ Cardinality(S) \in Nat
  <2>1. Cardinality(S) \in Nat
    BY FS_CardinalityType
  <2>2. Good \in SUBSET Nat
    OBVIOUS
  <2> HIDE DEF Good
  <2>3. 0..Cardinality(S) \subseteq Good
    BY <1>1, <1>2, <2>1, <2>2, UpTo
  <2> QED BY <2>1, <2>3
<1>4. PICK g : Right(g, Cardinality(S))
  BY <1>3
<1>5. Part(Cardinality(S)) = SUBSET S
  BY SizeOfPart
<1> QED BY <1>4, <1>5 DEF SumsBy

\* The order does not matter.
LEMMA SumAnyOrder ==
  ASSUME NEW S, IsFiniteSet(S), NEW f \in [S -> Int], NEW g, SumsBy(g, f, S)
  PROVE  \A s \in SUBSET S : \A x \in s : g[s] = f[x] + g[s \ {x}]
<1> DEFINE Sure(s) == CHOOSE x \in s : TRUE
           Good == {n \in Nat : \A s \in SUBSET S : Cardinality(s) = n => \A x \in s : g[s] = f[x] + g[s \ {x}]}
<1>g. /\ \A s \in SUBSET S : s # {} => g[s] = f[Sure(s)] + g[s \ {Sure(s)}] /\ Sure(s) \in s
      /\ \A s \in SUBSET S : g[s] \in Int
  BY DEF SumsBy
<1>f. \A x \in S : f[x] \in Int
  OBVIOUS
<1> HIDE DEF Sure
<1>1. 0 \in Good
  <2>1. \A s \in SUBSET S : Cardinality(s) = 0 => s = {}
    BY SizeOfPart
  <2> QED BY <2>1
<1>2. ASSUME NEW n \in 1..Cardinality(S), n - 1 \in Good PROVE n \in Good
  <2>1. n \in Nat /\ \A s \in SUBSET S : Cardinality(s) = n - 1 => \A x \in s : g[s] = f[x] + g[s \ {x}]
    BY <1>2, SizeOfPart
  <2> HIDE DEF Good
  <2>2. ASSUME NEW s \in SUBSET S, Cardinality(s) = n, NEW x \in s PROVE g[s] = f[x] + g[s \ {x}]
    <3>1. PICK y \in s : g[s] = f[y] + g[s \ {y}]
      BY <1>g
    <3>2. CASE x = y
      BY <3>1, <3>2
    <3>3. CASE x # y
      <4>1. Cardinality(s \ {x}) = n - 1 /\ Cardinality(s \ {y}) = n - 1
        BY <2>2, <3>1, SizeOfPart
      <4>2. s \ {x} \in SUBSET S /\ s \ {y} \in SUBSET S /\ y \in s \ {x} /\ x \in s \ {y}
        BY <3>1, <3>3
      <4>3. g[s \ {x}] = f[y] + g[(s \ {x}) \ {y}]
        BY <2>1, <4>1, <4>2
      <4>4. g[s \ {y}] = f[x] + g[(s \ {y}) \ {x}]
        BY <2>1, <4>1, <4>2
      <4>5. (s \ {x}) \ {y} = (s \ {y}) \ {x}
        OBVIOUS
      <4>6. PICK rest \in Int : rest = g[(s \ {x}) \ {y}]
        BY <1>g
      <4>7. g[s \ {x}] = f[y] + rest /\ g[s \ {y}] = f[x] + rest
        BY <4>3, <4>4, <4>5, <4>6
      <4>8. f[x] \in Int /\ f[y] \in Int
        BY <1>f, <3>1
      <4> QED BY <3>1, <4>7, <4>8
    <3> QED BY <3>2, <3>3
  <2> QED BY <2>1, <2>2 DEF Good
<1>3. Good \in SUBSET Nat
  OBVIOUS
<1> HIDE DEF Good
<1>4. 0..Cardinality(S) \subseteq Good
  <2>1. Cardinality(S) \in Nat
    BY FS_CardinalityType
  <2> QED BY <1>1, <1>2, <1>3, <2>1, UpTo
<1>5. ASSUME NEW s \in SUBSET S, NEW x \in s PROVE g[s] = f[x] + g[s \ {x}]
  <2>1. Cardinality(s) \in Good
    BY <1>4, SizeOfPart
  <2> QED BY <2>1 DEF Good
<1> QED BY <1>5

\* g and h sum f over the subsets of S from the same start, in the same order.
SumAlike(g, h, f, S) ==
  /\ g[{}] = h[{}]
  /\ \A s \in SUBSET S : s # {} => \E x \in s : g[s] = f[x] + g[s \ {x}] /\ h[s] = f[x] + h[s \ {x}]

\* Then they agree.
LEMMA SumUnique ==
  ASSUME NEW S, IsFiniteSet(S), NEW f, NEW g, NEW h, SumAlike(g, h, f, S)
  PROVE  \A s \in SUBSET S : g[s] = h[s]
<1>0. /\ g[{}] = h[{}]
      /\ \A s \in SUBSET S : s # {} => \E x \in s : g[s] = f[x] + g[s \ {x}] /\ h[s] = f[x] + h[s \ {x}]
  BY DEF SumAlike
<1> DEFINE Good == {n \in Nat : \A s \in SUBSET S : Cardinality(s) = n => g[s] = h[s]}
<1>1. 0 \in Good
  <2>1. \A s \in SUBSET S : Cardinality(s) = 0 => s = {}
    BY SizeOfPart
  <2> QED BY <1>0, <2>1
<1>2. ASSUME NEW n \in 1..Cardinality(S), n - 1 \in Good PROVE n \in Good
  <2>1. n \in Nat /\ \A s \in SUBSET S : Cardinality(s) = n - 1 => g[s] = h[s]
    BY <1>2, SizeOfPart
  <2> HIDE DEF Good
  <2>2. ASSUME NEW s \in SUBSET S, Cardinality(s) = n PROVE g[s] = h[s]
    <3>1. s # {}
      <4>1. Cardinality({}) = 0
        BY FS_EmptySet
      <4>2. n # 0
        OBVIOUS
      <4>3. s = {} => Cardinality(s) = 0
        BY <4>1
      <4> QED BY <2>2, <4>2, <4>3
    <3>2. PICK x \in s : g[s] = f[x] + g[s \ {x}] /\ h[s] = f[x] + h[s \ {x}]
      BY <1>0, <3>1
    <3>3. Cardinality(s \ {x}) = n - 1 /\ s \ {x} \in SUBSET S
      BY <2>2, SizeOfPart
    <3> QED BY <2>1, <3>2, <3>3
  <2> QED BY <2>1, <2>2 DEF Good
<1>3. Good \in SUBSET Nat
  OBVIOUS
<1> HIDE DEF Good
<1>4. 0..Cardinality(S) \subseteq Good
  <2>1. Cardinality(S) \in Nat
    BY FS_CardinalityType
  <2> QED BY <1>1, <1>2, <1>3, <2>1, UpTo
<1>5. ASSUME NEW s \in SUBSET S PROVE g[s] = h[s]
  <2>1. Cardinality(s) \in Good
    BY <1>4, SizeOfPart
  <2> QED BY <2>1 DEF Good
<1> QED BY <1>5

\* SumFunction is such a sum.
LEMMA SumIs ==
  ASSUME NEW S, IsFiniteSet(S), NEW f \in [S -> Int], NEW g, SumsBy(g, f, S)
  PROVE  SumFunction(f) = g[S]
<1> DEFINE Sure(s) == CHOOSE x \in s : TRUE
           Of(i) == [s \in SUBSET S |-> IF s = {} THEN 0 ELSE f[Sure(s)] + i[s \ {Sure(s)}]]
           iter == CHOOSE i : i = Of(i)
<1>1. SumFunction(f) = iter[S]
  BY DEF SumFunction, SumFunctionOnSet, FoldFunctionOnSet, MapThenFoldSet
<1> HIDE DEF Sure
<1>2. g = Of(g)
  <2>1. \A s \in SUBSET S : g[s] = IF s = {} THEN 0 ELSE f[Sure(s)] + g[s \ {Sure(s)}]
    BY DEF SumsBy, Sure
  <2>2. g \in [SUBSET S -> Int]
    BY DEF SumsBy
  <2> QED BY <2>1, <2>2
<1>3. iter = Of(iter)
  <2> HIDE DEF Of
  <2> QED BY <1>2
<1> HIDE DEF iter
<1>4. \A s \in SUBSET S : iter[s] = IF s = {} THEN 0 ELSE f[Sure(s)] + iter[s \ {Sure(s)}]
  BY <1>3
<1>5. \A s \in SUBSET S : g[s] = IF s = {} THEN 0 ELSE f[Sure(s)] + g[s \ {Sure(s)}]
  BY <1>2
<1>6. \A s \in SUBSET S : s # {} => Sure(s) \in s
  BY DEF Sure
<1> HIDE DEF Of
<1>7. iter[{}] = g[{}]
  BY <1>4, <1>5
<1>8. \A s \in SUBSET S : s # {} =>
        \E x \in s : iter[s] = f[x] + iter[s \ {x}] /\ g[s] = f[x] + g[s \ {x}]
  BY <1>4, <1>5, <1>6
<1>9. iter[S] = g[S]
  <2>1. SumAlike(iter, g, f, S)
    BY <1>7, <1>8 DEF SumAlike
  <2>2. \A s \in SUBSET S : iter[s] = g[s]
    BY <2>1, SumUnique
  <2> QED BY <2>2
<1> QED BY <1>1, <1>9

\* A sum is that of one value and the others.
LEMMA SumWithout ==
  ASSUME NEW S, IsFiniteSet(S), NEW f \in [S -> Int]
  PROVE  /\ SumFunction(f) \in Int
         /\ S = {} => SumFunction(f) = 0
         /\ \A x \in S : SumFunction(f) = f[x] + SumFunction([y \in S \ {x} |-> f[y]])
<1>1. PICK g : SumsBy(g, f, S)
  BY SumExists
<1>2. SumFunction(f) = g[S] /\ g[S] \in Int /\ (S = {} => g[S] = 0)
  <2>1. SumFunction(f) = g[S]
    BY <1>1, SumIs, Zenon
  <2>2. g[S] \in Int /\ (S = {} => g[S] = 0)
    BY <1>1 DEF SumsBy
  <2> QED BY <2>1, <2>2
<1>3. ASSUME NEW x \in S PROVE SumFunction(f) = f[x] + SumFunction([y \in S \ {x} |-> f[y]])
  <2> DEFINE T == S \ {x}
             e == [y \in T |-> f[y]]
  <2>1. IsFiniteSet(T) /\ e \in [T -> Int]
    BY FS_RemoveElement
  <2> HIDE DEF T, e
  <2>2. PICK h : SumsBy(h, e, T)
    BY <2>1, SumExists
  <2>3. SumFunction(e) = h[T]
    BY <2>1, <2>2, SumIs
  <2>4. g[S] = f[x] + g[T]
    BY <1>1, SumAnyOrder DEF T
  <2>5. \A s \in SUBSET T : s # {} => \E y \in s : g[s] = f[y] + g[s \ {y}] /\ h[s] = f[y] + h[s \ {y}]
    <3>1. ASSUME NEW s \in SUBSET T, s # {} PROVE \E y \in s : g[s] = f[y] + g[s \ {y}] /\ h[s] = f[y] + h[s \ {y}]
      <4>1. PICK y \in s : TRUE
        BY <3>1
      <4>2. h[s] = e[y] + h[s \ {y}]
        BY <2>1, <2>2, SumAnyOrder
      <4>3. g[s] = f[y] + g[s \ {y}]
        <5>1. s \in SUBSET S
          BY DEF T
        <5> QED BY <1>1, <5>1, SumAnyOrder
      <4>4. e[y] = f[y]
        BY DEF e
      <4> QED BY <4>2, <4>3, <4>4
    <3> QED BY <3>1
  <2>6. g[{}] = h[{}]
    BY <1>1, <2>2 DEF SumsBy
  <2>7. \A s \in SUBSET T : g[s] = h[s]
    <3>1. SumAlike(g, h, f, T)
      BY <2>5, <2>6 DEF SumAlike
    <3> QED BY <2>1, <3>1, SumUnique
  <2>8. g[T] = h[T]
    BY <2>7
  <2> QED BY <1>2, <2>3, <2>4, <2>8 DEF T, e
<1> QED BY <1>2, <1>3

-----------------------------------------------------------------------------
(* Lists.                                                                  *)

\* The list without the element at p.
LEMMA RemoveAtIs ==
  ASSUME NEW S, NEW s \in Seq(S), NEW p \in 1..Len(s)
  PROVE  /\ RemoveAt(s, p) \in Seq(S)
         /\ Len(RemoveAt(s, p)) = Len(s) - 1
         /\ \A k \in 1..Len(s) - 1 : RemoveAt(s, p)[k] = IF k < p THEN s[k] ELSE s[k + 1]
<1> DEFINE front == SubSeq(s, 1, p - 1)
           back  == SubSeq(s, p + 1, Len(s))
<1>0. Len(s) \in Nat /\ \A k \in 1..Len(s) : s[k] \in S
  BY LenProperties, ElementOfSeq
<1>1. /\ front \in Seq(S) /\ Len(front) = p - 1
      /\ \A k \in 1..p - 1 : front[k] = s[k]
  <2>1. \A k \in 1..p - 1 : s[k] \in S
    BY <1>0
  <2> QED BY <1>0, <2>1, SubSeqProperties
<1>2. /\ back \in Seq(S) /\ Len(back) = Len(s) - p
      /\ \A k \in 1..Len(s) - p : back[k] = s[p + k]
  <2>1. \A k \in p + 1..Len(s) : s[k] \in S
    BY <1>0
  <2> QED BY <1>0, <2>1, SubSeqProperties
<1> HIDE DEF front, back
<1>3. /\ front \o back \in Seq(S) /\ Len(front \o back) = Len(s) - 1
      /\ \A k \in 1..Len(s) - 1 : (front \o back)[k] = IF k <= p - 1 THEN front[k] ELSE back[k - (p - 1)]
  <2>1. (p - 1) + (Len(s) - p) = Len(s) - 1
    BY <1>0
  <2>2. /\ front \o back \in Seq(S) /\ Len(front \o back) = Len(front) + Len(back)
        /\ \A k \in 1..Len(front) + Len(back) :
             (front \o back)[k] = IF k <= Len(front) THEN front[k] ELSE back[k - Len(front)]
    BY <1>1, <1>2, ConcatProperties
  <2> QED BY <1>1, <1>2, <2>1, <2>2
<1>4. ASSUME NEW k \in 1..Len(s) - 1 PROVE (front \o back)[k] = IF k < p THEN s[k] ELSE s[k + 1]
  <2>1. CASE k < p
    BY <1>0, <1>1, <1>3, <2>1
  <2>2. CASE ~ (k < p)
    <3>1. k - (p - 1) \in 1..Len(s) - p /\ p + (k - (p - 1)) = k + 1
      BY <1>0, <2>2
    <3> QED BY <1>0, <1>2, <1>3, <2>2, <3>1
  <2> QED BY <2>1, <2>2
<1>5. RemoveAt(s, p) = front \o back
  BY DEF RemoveAt, front, back
<1> QED BY <1>3, <1>4, <1>5

\* The list without the first occurrence of e.
LEMMA RemoveFirstIs ==
  ASSUME NEW S, NEW s \in Seq(S), NEW e, \E k \in 1..Len(s) : s[k] = e
  PROVE  \E p \in 1..Len(s) :
           /\ s[p] = e /\ \A k \in 1..p - 1 : s[k] # e
           /\ RemoveFirst(s, e) = RemoveAt(s, p)
<1> DEFINE I == {i \in 1..Len(s) : s[i] = e}
<1>1. Len(s) \in Nat /\ I \in SUBSET Nat /\ I # {}
  BY LenProperties
<1>2. Min(I) \in I /\ \A m \in I : Min(I) <= m
  <2> HIDE DEF I
  <2> QED BY <1>1, LeastOf
<1>3. SelectInSeq(s, LAMBDA v : v = e) = Min(I)
  BY <1>1 DEF SelectInSeq
<1>4. RemoveFirst(s, e) = RemoveAt(s, Min(I))
  BY <1>3 DEF RemoveFirst
<1>5. \A k \in 1..Min(I) - 1 : s[k] # e
  <2> SUFFICES ASSUME NEW k \in 1..Min(I) - 1, s[k] = e PROVE FALSE
    OBVIOUS
  <2>1. Min(I) \in Nat /\ Min(I) <= Len(s)
    BY <1>1, <1>2
  <2> HIDE DEF I
  <2>2. k \in 1..Len(s) /\ ~ (Min(I) <= k)
    BY <1>1, <2>1
  <2>3. k \in I
    BY <2>2 DEF I
  <2> QED BY <1>2, <2>2, <2>3
<1> QED BY <1>2, <1>4, <1>5

\* r is s with e at place p.
Widened(r, s, p, e) ==
  /\ Len(r) = Len(s) + 1 /\ r[p] = e
  /\ \A k \in 1..p - 1 : r[k] = s[k]
  /\ \A k \in p..Len(s) : r[k + 1] = s[k]

\* The list with e put at p.
LEMMA InsertAtIs ==
  ASSUME NEW S, NEW s \in Seq(S), NEW p \in 1..Len(s) + 1, NEW e \in S
  PROVE  InsertAt(s, p, e) \in Seq(S) /\ Widened(InsertAt(s, p, e), s, p, e)
<1> DEFINE front == SubSeq(s, 1, p - 1)
           back  == SubSeq(s, p, Len(s))
<1>0. Len(s) \in Nat /\ \A k \in 1..Len(s) : s[k] \in S
  BY LenProperties, ElementOfSeq
<1>1. /\ front \in Seq(S) /\ Len(front) = p - 1
      /\ \A k \in 1..p - 1 : front[k] = s[k]
  <2>1. \A k \in 1..p - 1 : s[k] \in S
    BY <1>0
  <2> QED BY <1>0, <2>1, SubSeqProperties
<1>2. /\ back \in Seq(S) /\ Len(back) = Len(s) + 1 - p
      /\ \A k \in 1..Len(s) + 1 - p : back[k] = s[p + k - 1]
  <2>1. \A k \in p..Len(s) : s[k] \in S
    BY <1>0
  <2> QED BY <1>0, <2>1, SubSeqProperties
<1> HIDE DEF front, back
<1>3. <<e>> \in Seq(S) /\ Len(<<e>>) = 1 /\ <<e>>[1] = e
  OBVIOUS
<1>m. PICK middle : middle = <<e>>
  OBVIOUS
<1>4. /\ front \o middle \in Seq(S) /\ Len(front \o middle) = p
      /\ \A k \in 1..p : (front \o middle)[k] = IF k <= p - 1 THEN front[k] ELSE middle[k - (p - 1)]
  BY <1>0, <1>1, <1>3, <1>m, ConcatProperties
<1>f. PICK fm : fm = front \o middle
  OBVIOUS
<1>5. /\ fm \o back \in Seq(S) /\ Len(fm \o back) = Len(s) + 1
      /\ \A k \in 1..Len(s) + 1 : (fm \o back)[k] = IF k <= p THEN fm[k] ELSE back[k - p]
  <2>1. p + (Len(s) + 1 - p) = Len(s) + 1
    BY <1>0
  <2>2. /\ fm \o back \in Seq(S) /\ Len(fm \o back) = Len(fm) + Len(back)
        /\ \A k \in 1..Len(fm) + Len(back) :
             (fm \o back)[k] = IF k <= Len(fm) THEN fm[k] ELSE back[k - Len(fm)]
    <3>1. fm \in Seq(S) /\ back \in Seq(S)
      BY <1>2, <1>4, <1>f
    <3> QED BY <3>1, ConcatProperties
  <2>3. Len(fm) = p /\ Len(back) = Len(s) + 1 - p
    BY <1>2, <1>4, <1>f
  <2> QED BY <2>1, <2>2, <2>3
<1>6. ASSUME NEW k \in 1..Len(s) + 1
      PROVE  (fm \o back)[k] = IF k < p THEN s[k] ELSE IF k = p THEN e ELSE s[k - 1]
  <2>1. CASE k < p
    <3>1. k \in 1..p - 1 /\ k \in 1..p /\ k <= p
      BY <1>0, <2>1
    <3> QED BY <1>1, <1>4, <1>5, <1>f, <2>1, <3>1
  <2>2. CASE k = p
    <3>1. k - (p - 1) = 1 /\ ~ (k <= p - 1) /\ k \in 1..p
      BY <2>2
    <3> QED BY <1>3, <1>m, <1>4, <1>5, <1>f, <2>2, <3>1
  <2>3. CASE k > p
    <3>1. k - p \in 1..Len(s) + 1 - p /\ p + (k - p) - 1 = k - 1
      BY <1>0, <2>3
    <3>2. ~ (k <= p) /\ ~ (k < p) /\ k # p
      BY <1>0, <2>3
    <3>3. (fm \o back)[k] = back[k - p]
      BY <1>5, <3>2
    <3>4. back[k - p] = s[p + (k - p) - 1]
      BY <1>2, <3>1
    <3>5. s[p + (k - p) - 1] = s[k - 1]
      BY <3>1
    <3> QED BY <3>2, <3>3, <3>4, <3>5
  <2>4. k < p \/ k = p \/ k > p
    BY <1>0
  <2> QED BY <2>1, <2>2, <2>3, <2>4
<1>7. InsertAt(s, p, e) = fm \o back
  BY <1>m, <1>f DEF InsertAt, front, back
<1>8. p \in 1..Len(s) + 1 /\ ~ (p < p)
  BY <1>0
<1>9. \A k \in 1..p - 1 : k \in 1..Len(s) + 1 /\ k < p
  BY <1>0
<1>10. \A k \in p..Len(s) : k + 1 \in 1..Len(s) + 1 /\ ~ (k + 1 < p) /\ k + 1 # p /\ k + 1 - 1 = k
  BY <1>0
<1> HIDE DEF back
<1>11. (fm \o back)[p] = e
  BY <1>6, <1>8
<1>12. \A k \in 1..p - 1 : (fm \o back)[k] = s[k]
  BY <1>6, <1>9
<1>13. ASSUME NEW k \in p..Len(s) PROVE (fm \o back)[k + 1] = s[k]
  <2>1. PICK m \in 1..Len(s) + 1 : m = k + 1
    BY <1>10
  <2>2. (fm \o back)[m] = s[m - 1]
    BY <1>6, <1>10, <2>1
  <2> QED BY <1>10, <2>1, <2>2
<1> QED BY <1>5, <1>7, <1>11, <1>12, <1>13 DEF Widened

\* The list without its head.
LEMMA TailIs ==
  ASSUME NEW S, NEW s \in Seq(S), s # <<>>
  PROVE  /\ Head(s) = s[1] /\ Tail(s) \in Seq(S) /\ Len(Tail(s)) = Len(s) - 1 /\ Len(s) \in Nat \ {0}
         /\ \A k \in 1..Len(s) - 1 : Tail(s)[k] = s[k + 1]
  BY HeadTailProperties, LenProperties, EmptySeq

\* The list with e behind the others.
LEMMA AppendIs ==
  ASSUME NEW S, NEW s \in Seq(S), NEW e \in S
  PROVE  /\ Append(s, e) \in Seq(S) /\ Len(Append(s, e)) = Len(s) + 1 /\ Len(s) \in Nat
         /\ \A k \in 1..Len(s) : Append(s, e)[k] = s[k]
         /\ Append(s, e)[Len(s) + 1] = e
  BY AppendProperties, LenProperties

-----------------------------------------------------------------------------

\* The sum of f over a set, and over the set with one element more or less.
LEMMA SumMore ==
  ASSUME NEW U, NEW f \in [U -> Int], NEW S \in SUBSET U, IsFiniteSet(S)
  PROVE  /\ SumFunction([y \in S |-> f[y]]) \in Int
         /\ S = {} => SumFunction([y \in S |-> f[y]]) = 0
         /\ \A x \in U \ S : SumFunction([y \in S \cup {x} |-> f[y]]) = f[x] + SumFunction([y \in S |-> f[y]])
         /\ \A x \in S : SumFunction([y \in S |-> f[y]]) = f[x] + SumFunction([y \in S \ {x} |-> f[y]])
<1> DEFINE On(T) == [y \in T |-> f[y]]
<1>0. \A T \in SUBSET U : On(T) \in [T -> Int]
  OBVIOUS
<1>1. SumFunction(On(S)) \in Int /\ (S = {} => SumFunction(On(S)) = 0)
  <2>1. On(S) \in [S -> Int]
    BY <1>0
  <2> HIDE DEF On
  <2> QED BY <2>1, SumWithout
<1>2. ASSUME NEW T \in SUBSET U, IsFiniteSet(T), NEW x \in T
      PROVE  SumFunction(On(T)) = f[x] + SumFunction(On(T \ {x}))
  <2>1. On(T) \in [T -> Int] /\ On(T)[x] = f[x]
    BY <1>0
  <2>2. [y \in T \ {x} |-> On(T)[y]] = On(T \ {x})
    OBVIOUS
  <2>3. SumFunction(On(T)) = On(T)[x] + SumFunction([y \in T \ {x} |-> On(T)[y]])
    <3> HIDE DEF On
    <3> QED BY <1>2, <2>1, SumWithout
  <2> QED BY <2>1, <2>2, <2>3
<1>3. ASSUME NEW x \in U \ S PROVE SumFunction(On(S \cup {x})) = f[x] + SumFunction(On(S))
  <2>1. IsFiniteSet(S \cup {x}) /\ S \cup {x} \in SUBSET U /\ (S \cup {x}) \ {x} = S
    BY FS_AddElement
  <2>2. SumFunction(On(S \cup {x})) = f[x] + SumFunction(On((S \cup {x}) \ {x}))
    <3> HIDE DEF On
    <3> QED BY <1>2, <2>1
  <2> QED BY <2>1, <2>2
<1>4. \A x \in S : SumFunction(On(S)) = f[x] + SumFunction(On(S \ {x}))
  <2> HIDE DEF On
  <2> QED BY <1>2
<1> QED BY <1>1, <1>3, <1>4

-----------------------------------------------------------------------------
(* How often an element occurs in a list, behind its first n places.       *)

PlacesOf(s, e, n) == {i \in 1..Len(s) : i > n /\ s[i] = e}
Often(s, e, n) == Cardinality(PlacesOf(s, e, n))

\* How often is a number.
LEMMA OftenType ==
  ASSUME NEW S, NEW s \in Seq(S), NEW e, NEW n \in Nat
  PROVE  /\ IsFiniteSet(PlacesOf(s, e, n)) /\ Often(s, e, n) \in Nat
         /\ n >= Len(s) => Often(s, e, n) = 0
         /\ n = 0 => Often(s, e, n) = Cardinality({i \in DOMAIN s : s[i] = e})
         /\ Often(s, e, n) = 0 => \A i \in 1..Len(s) : i > n => s[i] # e
<1>1. Len(s) \in Nat /\ DOMAIN s = 1..Len(s)
  BY LenProperties
<1>2. IsFiniteSet(1..Len(s))
  BY <1>1, FS_Interval
<1>3. IsFiniteSet(PlacesOf(s, e, n)) /\ Often(s, e, n) \in Nat
  BY <1>2, FS_Subset, FS_CardinalityType DEF PlacesOf, Often
<1>4. ASSUME n >= Len(s) PROVE Often(s, e, n) = 0
  <2>1. PlacesOf(s, e, n) = {}
    BY <1>1, <1>4 DEF PlacesOf
  <2> QED BY <2>1, FS_EmptySet DEF Often
<1>5. ASSUME n = 0 PROVE Often(s, e, n) = Cardinality({i \in DOMAIN s : s[i] = e})
  <2>1. PlacesOf(s, e, n) = {i \in DOMAIN s : s[i] = e}
    BY <1>1, <1>5 DEF PlacesOf
  <2> QED BY <2>1 DEF Often
<1>6. ASSUME Often(s, e, n) = 0, NEW i \in 1..Len(s), i > n PROVE s[i] # e
  <2>1. PlacesOf(s, e, n) = {}
    BY <1>3, <1>6, FS_EmptySet DEF Often
  <2> QED BY <1>6, <2>1 DEF PlacesOf
<1> QED BY <1>3, <1>4, <1>5, <1>6

\* In all the list.
LEMMA OftenAll ==
  ASSUME NEW S, NEW s \in Seq(S), NEW e
  PROVE  Often(s, e, 0) = Cardinality({i \in DOMAIN s : s[i] = e})
<1>1. Len(s) \in Nat /\ DOMAIN s = 1..Len(s)
  BY LenProperties
<1>2. PlacesOf(s, e, 0) = {i \in DOMAIN s : s[i] = e}
  BY <1>1 DEF PlacesOf
<1> QED BY <1>2 DEF Often

\* Nothing is in the empty sequence.
LEMMA OftenEmpty ==
  ASSUME NEW e, NEW n \in Nat
  PROVE  Often(<<>>, e, n) = 0
<1>1. PlacesOf(<<>>, e, n) = {}
  BY DEF PlacesOf
<1> QED BY <1>1, FS_EmptySet DEF Often

\* With x behind the others.
LEMMA OftenAppend ==
  ASSUME NEW S, NEW s \in Seq(S), NEW x \in S, NEW e, NEW n \in Nat
  PROVE  Often(Append(s, x), e, n) = Often(s, e, n) + (IF x = e /\ n <= Len(s) THEN 1 ELSE 0)
<1>1. /\ Append(s, x) \in Seq(S) /\ Len(Append(s, x)) = Len(s) + 1 /\ Len(s) \in Nat
      /\ \A k \in 1..Len(s) : Append(s, x)[k] = s[k]
      /\ Append(s, x)[Len(s) + 1] = x
  BY AppendIs
<1>2. CASE x = e /\ n <= Len(s)
  <2>1. PlacesOf(Append(s, x), e, n) = PlacesOf(s, e, n) \cup {Len(s) + 1} /\ Len(s) + 1 \notin PlacesOf(s, e, n)
    BY <1>1, <1>2 DEF PlacesOf
  <2>2. Cardinality(PlacesOf(s, e, n) \cup {Len(s) + 1}) = Cardinality(PlacesOf(s, e, n)) + 1
    BY <2>1, OftenType, FS_AddElement
  <2> QED BY <1>2, <2>1, <2>2 DEF Often
<1>3. CASE ~ (x = e /\ n <= Len(s))
  <2>1. PlacesOf(Append(s, x), e, n) = PlacesOf(s, e, n)
    BY <1>1, <1>3 DEF PlacesOf
  <2>2. Often(Append(s, x), e, n) = Often(s, e, n)
    BY <2>1 DEF Often
  <2>3. Often(s, e, n) \in Nat
    BY OftenType
  <2> QED BY <1>3, <2>2, <2>3
<1> QED BY <1>2, <1>3

\* Behind one place more.
LEMMA OftenStep ==
  ASSUME NEW S, NEW s \in Seq(S), NEW e, NEW n \in Nat, n < Len(s)
  PROVE  Often(s, e, n) = Often(s, e, n + 1) + (IF s[n + 1] = e THEN 1 ELSE 0)
<1>1. Len(s) \in Nat /\ n + 1 \in Nat
  BY LenProperties
<1>2. CASE s[n + 1] = e
  <2>1. PlacesOf(s, e, n) = PlacesOf(s, e, n + 1) \cup {n + 1} /\ n + 1 \notin PlacesOf(s, e, n + 1)
    BY <1>1, <1>2 DEF PlacesOf
  <2>2. Cardinality(PlacesOf(s, e, n + 1) \cup {n + 1}) = Cardinality(PlacesOf(s, e, n + 1)) + 1
    BY <1>1, <2>1, OftenType, FS_AddElement
  <2> QED BY <1>2, <2>1, <2>2 DEF Often
<1>3. CASE s[n + 1] # e
  <2>1. PlacesOf(s, e, n) = PlacesOf(s, e, n + 1)
    <3>1. \A i \in 1..Len(s) : i > n /\ i # n + 1 => i > n + 1
      BY <1>1
    <3>2. \A i \in 1..Len(s) : i > n + 1 => i > n
      BY <1>1
    <3> QED BY <1>3, <3>1, <3>2 DEF PlacesOf
  <2>2. Often(s, e, n + 1) \in Nat
    BY <1>1, OftenType
  <2>3. Often(s, e, n) = Often(s, e, n + 1)
    BY <2>1 DEF Often
  <2> QED BY <1>3, <2>2, <2>3
<1> QED BY <1>2, <1>3

\* With one element taken out, anywhere.
LEMMA OftenRemove ==
  ASSUME NEW S, NEW s \in Seq(S), NEW p \in 1..Len(s), NEW e, NEW n \in Nat
  PROVE  Often(RemoveAt(s, p), e, n) <= Often(s, e, n)
<1>1. /\ RemoveAt(s, p) \in Seq(S) /\ Len(RemoveAt(s, p)) = Len(s) - 1
      /\ \A k \in 1..Len(s) - 1 : RemoveAt(s, p)[k] = IF k < p THEN s[k] ELSE s[k + 1]
      /\ Len(s) \in Nat
  BY RemoveAtIs, LenProperties
<1>2. PICK r : r = RemoveAt(s, p)
  OBVIOUS
<1> DEFINE f == [i \in PlacesOf(r, e, n) |-> IF i < p THEN i ELSE i + 1]
<1>3. ASSUME NEW i \in PlacesOf(r, e, n) PROVE f[i] \in PlacesOf(s, e, n) /\ f[i] = IF i < p THEN i ELSE i + 1
  <2>1. i \in 1..Len(s) - 1 /\ i > n /\ r[i] = e /\ r[i] = (IF i < p THEN s[i] ELSE s[i + 1])
    BY <1>1, <1>2 DEF PlacesOf
  <2>2. i \in 1..Len(s) /\ i + 1 \in 1..Len(s) /\ i + 1 > n
    BY <1>1, <2>1
  <2>3. CASE i < p
    BY <2>1, <2>2, <2>3 DEF PlacesOf
  <2>4. CASE ~ (i < p)
    BY <2>1, <2>2, <2>4 DEF PlacesOf
  <2> QED BY <2>3, <2>4
<1>4. f \in Injection(PlacesOf(r, e, n), PlacesOf(s, e, n))
  <2>1. f \in [PlacesOf(r, e, n) -> PlacesOf(s, e, n)]
    BY <1>3
  <2>2. \A i, j \in PlacesOf(r, e, n) : f[i] = f[j] => i = j
    <3>1. PlacesOf(r, e, n) \subseteq Int
      BY DEF PlacesOf
    <3> QED BY <1>3, <3>1
  <2> HIDE DEF f
  <2> QED BY <2>1, <2>2 DEF Injection, IsInjective
<1>5. IsFiniteSet(PlacesOf(s, e, n))
  BY OftenType
<1> HIDE DEF f
<1>6. Cardinality(PlacesOf(r, e, n)) <= Cardinality(PlacesOf(s, e, n))
  BY <1>4, <1>5, FS_Injection
<1> QED BY <1>2, <1>6 DEF Often

-----------------------------------------------------------------------------
(* Sums over lists: of the first n entries, one entry after the other.     *)

\* The sum over n + 1 entries is that over the first n and the last.
LEMMA SumLast ==
  ASSUME NEW n \in Nat, NEW f \in [1..n + 1 -> Int]
  PROVE  /\ SumFunction([k \in 1..n |-> f[k]]) \in Int /\ SumFunction(f) \in Int
         /\ SumFunction(f) = SumFunction([k \in 1..n |-> f[k]]) + f[n + 1]
<1>1. PICK S : S = 1..n + 1
  OBVIOUS
<1>2. IsFiniteSet(S) /\ f \in [S -> Int] /\ n + 1 \in S
  BY <1>1, FS_Interval
<1>3. SumFunction(f) \in Int /\ SumFunction(f) = f[n + 1] + SumFunction([y \in S \ {n + 1} |-> f[y]])
  <2>1. SumFunction(f) \in Int /\ \A x \in S : SumFunction(f) = f[x] + SumFunction([y \in S \ {x} |-> f[y]])
    BY <1>2, SumWithout
  <2> QED BY <1>2, <2>1
<1>4. PICK T : T = 1..n
  OBVIOUS
<1>5. S \ {n + 1} = T
  BY <1>1, <1>4
<1>6. IsFiniteSet(T) /\ [y \in T |-> f[y]] \in [T -> Int]
  BY <1>1, <1>4, FS_Interval
<1>7. SumFunction([y \in T |-> f[y]]) \in Int
  BY <1>6, SumWithout
<1>8. f[n + 1] \in Int
  BY <1>2
<1>9. [y \in S \ {n + 1} |-> f[y]] = [k \in 1..n |-> f[k]] /\ [y \in T |-> f[y]] = [k \in 1..n |-> f[k]]
  BY <1>4, <1>5
<1>10. PICK rest : rest = [k \in 1..n |-> f[k]]
  OBVIOUS
<1>11. SumFunction(rest) \in Int /\ SumFunction(f) = f[n + 1] + SumFunction(rest)
  BY <1>3, <1>7, <1>9, <1>10
<1>12. SumFunction(f) = SumFunction(rest) + f[n + 1]
  BY <1>8, <1>11
<1> QED BY <1>3, <1>10, <1>11, <1>12

\* The empty sum.
LEMMA SumNone ==
  ASSUME NEW f \in [1..0 -> Int]
  PROVE  SumFunction(f) = 0
<1>1. IsFiniteSet(1..0) /\ 1..0 = {}
  BY FS_Interval
<1> QED BY <1>1, SumWithout

\* The sums over the first n entries of a list follow one another.
LEMMA SumNext ==
  ASSUME NEW N \in Nat, NEW f \in [1..N -> Int], NEW n \in 1..N
  PROVE  /\ SumFunction([k \in 1..n - 1 |-> f[k]]) \in Int /\ SumFunction([k \in 1..n |-> f[k]]) \in Int
         /\ SumFunction([k \in 1..n |-> f[k]]) = SumFunction([k \in 1..n - 1 |-> f[k]]) + f[n]
<1>1. PICK m : m = n - 1
  OBVIOUS
<1>2. m \in Nat /\ m + 1 = n /\ m + 1 \in 1..N
  BY <1>1
<1>3. PICK g : g = [k \in 1..m + 1 |-> f[k]]
  OBVIOUS
<1>4. g \in [1..m + 1 -> Int] /\ g[m + 1] = f[m + 1] /\ [k \in 1..m |-> g[k]] = [k \in 1..m |-> f[k]]
  BY <1>2, <1>3
<1>5. /\ SumFunction([k \in 1..m |-> g[k]]) \in Int /\ SumFunction(g) \in Int
      /\ SumFunction(g) = SumFunction([k \in 1..m |-> g[k]]) + g[m + 1]
  BY <1>2, <1>4, SumLast
<1>6. /\ SumFunction([k \in 1..m |-> f[k]]) \in Int /\ SumFunction([k \in 1..m + 1 |-> f[k]]) \in Int
      /\ SumFunction([k \in 1..m + 1 |-> f[k]]) = SumFunction([k \in 1..m |-> f[k]]) + f[m + 1]
  BY <1>3, <1>4, <1>5
<1> QED BY <1>1, <1>2, <1>6

\* A sum of zeros.
LEMMA SumOfZeros ==
  ASSUME NEW N \in Nat, NEW f \in [1..N -> Int], \A k \in 1..N : f[k] = 0
  PROVE  SumFunction(f) = 0
<1> DEFINE T(n) == SumFunction([k \in 1..n |-> f[k]])
           Good == {n \in Nat : n <= N => T(n) = 0}
<1>1. 0 \in Good
  <2>1. PICK e : e = [k \in 1..0 |-> f[k]]
    OBVIOUS
  <2>2. e \in [1..0 -> Int]
    BY <2>1
  <2>3. SumFunction(e) = 0
    BY <2>2, SumNone
  <2> QED BY <2>1, <2>3
<1>2. ASSUME NEW n \in 1..N, n - 1 \in Good PROVE n \in Good
  <2>1. T(n) = T(n - 1) + f[n]
    BY SumNext
  <2>2. T(n - 1) = 0 /\ f[n] = 0
    BY <1>2
  <2> QED BY <2>1, <2>2
<1>3. N \in Good
  <2> HIDE DEF Good
  <2>1. Good \in SUBSET Nat
    BY DEF Good
  <2> QED BY <1>1, <1>2, <2>1, UpTo
<1>4. [k \in 1..N |-> f[k]] = f
  OBVIOUS
<1> QED BY <1>3, <1>4

\* The sum over a list without the entry at p.
LEMMA SumRemoved ==
  ASSUME NEW n \in Nat, NEW f \in [1..n + 1 -> Int], NEW p \in 1..n + 1
  PROVE  SumFunction([k \in 1..n |-> IF k < p THEN f[k] ELSE f[k + 1]]) = SumFunction(f) - f[p]
<1>1. PICK h : h = [k \in 1..n |-> IF k < p THEN f[k] ELSE f[k + 1]]
  OBVIOUS
<1>2. h \in [1..n -> Int] /\ \A k \in 1..n : h[k] = IF k < p THEN f[k] ELSE f[k + 1]
  BY <1>1
<1> DEFINE T(m) == SumFunction([k \in 1..m |-> f[k]])
           R(m) == SumFunction([k \in 1..m |-> h[k]])
           Good == {m \in Nat : m <= n => R(m) = IF m < p THEN T(m) ELSE T(m + 1) - f[p]}
<1>3. ASSUME NEW m \in 1..n + 1 PROVE T(m - 1) \in Int /\ T(m) \in Int /\ T(m) = T(m - 1) + f[m]
  <2>1. n + 1 \in Nat
    OBVIOUS
  <2> QED BY <2>1, SumNext
<1>4. ASSUME NEW m \in 1..n PROVE R(m - 1) \in Int /\ R(m) \in Int /\ R(m) = R(m - 1) + h[m]
  BY <1>2, SumNext
<1>5. 0 \in Good
  <2>1. [k \in 1..0 |-> f[k]] = [k \in 1..0 |-> h[k]]
    OBVIOUS
  <2> QED BY <2>1
<1>6. ASSUME NEW m \in 1..n, m - 1 \in Good PROVE m \in Good
  <2>1. R(m - 1) = IF m - 1 < p THEN T(m - 1) ELSE T(m - 1 + 1) - f[p]
    BY <1>6
  <2>2. /\ m \in Nat /\ m \in 1..n + 1 /\ m + 1 \in 1..n + 1 /\ m - 1 + 1 = m /\ m + 1 - 1 = m
        /\ f[m] \in Int /\ f[m + 1] \in Int /\ f[p] \in Int
    OBVIOUS
  <2>3. /\ R(m) = R(m - 1) + h[m] /\ h[m] = IF m < p THEN f[m] ELSE f[m + 1]
        /\ T(m - 1) \in Int /\ T(m) \in Int /\ T(m) = T(m - 1) + f[m]
        /\ T(m + 1) = T(m) + f[m + 1]
    <3>1. T(m) \in Int /\ T(m + 1) = T(m) + f[m + 1]
      <4>1. PICK j \in 1..n + 1 : j = m + 1
        BY <2>2
      <4>2. T(j - 1) \in Int /\ T(j) = T(j - 1) + f[j]
        BY <1>3
      <4>3. j - 1 = m
        BY <2>2, <4>1
      <4> QED BY <4>1, <4>2, <4>3
    <3>2. R(m) = R(m - 1) + h[m] /\ h[m] = IF m < p THEN f[m] ELSE f[m + 1]
      BY <1>2, <1>4
    <3>3. T(m - 1) \in Int /\ T(m) \in Int /\ T(m) = T(m - 1) + f[m]
      BY <1>3, <2>2
    <3> QED BY <2>2, <3>1, <3>2, <3>3
  <2> HIDE DEF T, R
  <2>4. R(m - 1) = IF m - 1 < p THEN T(m - 1) ELSE T(m) - f[p]
    BY <2>1, <2>2
  <2>5. R(m) = IF m < p THEN T(m) ELSE T(m + 1) - f[p]
    <3>1. CASE m < p
      BY <2>2, <2>3, <2>4, <3>1
    <3>2. CASE m = p
      BY <2>2, <2>3, <2>4, <3>2
    <3>3. CASE m > p
      BY <2>2, <2>3, <2>4, <3>3
    <3> QED BY <3>1, <3>2, <3>3
  <2> QED BY <2>2, <2>5
<1>7. n \in Good
  <2>1. Good \in SUBSET Nat
    OBVIOUS
  <2> HIDE DEF Good
  <2>2. 0..n \subseteq Good
    BY <1>5, <1>6, <2>1, UpTo
  <2> QED BY <2>2
<1>8. [k \in 1..n + 1 |-> f[k]] = f /\ [k \in 1..n |-> h[k]] = h
  BY <1>2
<1>9. R(n) = IF n < p THEN T(n) ELSE T(n + 1) - f[p]
  BY <1>7
<1>10. n + 1 \in 1..n + 1 /\ n + 1 - 1 = n /\ f[n + 1] \in Int
  OBVIOUS
<1>11. T(n) \in Int /\ T(n + 1) \in Int /\ T(n + 1) = T(n) + f[n + 1]
  BY <1>3, <1>10
<1>12. SumFunction(h) = T(n + 1) - f[p]
  <2>1. SumFunction(h) = R(n)
    BY <1>8
  <2> HIDE DEF T, R
  <2> QED BY <1>9, <1>10, <1>11, <2>1
<1> QED BY <1>1, <1>8, <1>12

\* The sum after one of its parts has changed.
LEMMA SumChanged ==
  ASSUME NEW S, IsFiniteSet(S), NEW f \in [S -> Int], NEW x \in S, NEW v \in Int
  PROVE  SumFunction([f EXCEPT ![x] = v]) = SumFunction(f) - f[x] + v
<1>1. PICK g : g = [f EXCEPT ![x] = v]
  OBVIOUS
<1>2. g \in [S -> Int] /\ g[x] = v /\ f[x] \in Int
  BY <1>1
<1>3. [y \in S \ {x} |-> g[y]] = [y \in S \ {x} |-> f[y]]
  BY <1>1
<1>4. PICK r : r = [y \in S \ {x} |-> f[y]]
  OBVIOUS
<1>5. SumFunction(f) = f[x] + SumFunction(r) /\ SumFunction(g) = g[x] + SumFunction(r)
  BY <1>2, <1>3, <1>4, SumWithout
<1>6. SumFunction(r) \in Int
  <2>1. IsFiniteSet(S \ {x}) /\ r \in [S \ {x} -> Int]
    BY <1>4, FS_Subset
  <2> QED BY <2>1, SumWithout
<1> QED BY <1>1, <1>2, <1>5, <1>6

\* A sum of naturals is none of its parts' lesser, and zero only if they are.
LEMMA SumOfNats ==
  ASSUME NEW S, IsFiniteSet(S), NEW f \in [S -> Nat]
  PROVE  SumFunction(f) \in Nat /\ \A x \in S : f[x] <= SumFunction(f)
<1> DEFINE On(s) == [y \in s |-> f[y]]
           Good == {n \in Nat : \A s \in SUBSET S : Cardinality(s) = n => SumFunction(On(s)) \in Nat}
<1>1. f \in [S -> Int] /\ \A x \in S : f[x] \in Nat
  OBVIOUS
<1>2. \A s \in SUBSET S : IsFiniteSet(s) /\ Cardinality(s) \in 0..Cardinality(S) /\ Cardinality(S) \in Nat
  BY SizeOfPart
<1>3. ASSUME NEW s \in SUBSET S
      PROVE  /\ s = {} => SumFunction(On(s)) = 0
             /\ \A x \in s : SumFunction(On(s)) = f[x] + SumFunction(On(s \ {x}))
  BY <1>1, <1>2, SumMore
<1>4. 0 \in Good
  <2>1. \A s \in SUBSET S : Cardinality(s) = 0 => s = {}
    BY SizeOfPart
  <2> HIDE DEF On
  <2> QED BY <1>3, <2>1
<1>5. ASSUME NEW n \in 1..Cardinality(S), n - 1 \in Good PROVE n \in Good
  <2>1. ASSUME NEW s \in SUBSET S, Cardinality(s) = n PROVE SumFunction(On(s)) \in Nat
    <3>1. n \in Nat /\ n >= 1
      BY <1>2
    <3>2. s # {}
      BY <2>1, <3>1, FS_EmptySet
    <3>3. PICK x : x \in s
      BY <3>2
    <3>4. Cardinality(s \ {x}) = n - 1 /\ s \ {x} \in SUBSET S
      BY <2>1, <3>3, SizeOfPart
    <3>5. SumFunction(On(s \ {x})) \in Nat
      <4> HIDE DEF On
      <4> QED BY <1>5, <3>4
    <3>6. SumFunction(On(s)) = f[x] + SumFunction(On(s \ {x})) /\ f[x] \in Nat
      <4> HIDE DEF On
      <4> QED BY <1>1, <1>3, <3>3
    <3> HIDE DEF On
    <3> QED BY <3>5, <3>6
  <2>2. n \in Nat
    BY <1>2
  <2> HIDE DEF On
  <2> QED BY <2>1, <2>2
<1>6. \A s \in SUBSET S : SumFunction(On(s)) \in Nat
  <2>1. Cardinality(S) \in Nat /\ Good \in SUBSET Nat
    BY FS_CardinalityType
  <2>2. \A n \in 1..Cardinality(S) : n - 1 \in Good => n \in Good
    <3> HIDE DEF Good
    <3> QED BY <1>5
  <2>3. 0..Cardinality(S) \subseteq Good
    <3> HIDE DEF Good
    <3> QED BY <1>4, <2>1, <2>2, UpTo
  <2> HIDE DEF On
  <2> QED BY <1>2, <2>3
<1>7. On(S) = f
  OBVIOUS
<1>8. S \in SUBSET S /\ \A x \in S : S \ {x} \in SUBSET S
  OBVIOUS
<1> HIDE DEF On
<1>9. \A x \in S : SumFunction(f) = f[x] + SumFunction(On(S \ {x})) /\ SumFunction(On(S \ {x})) \in Nat
  BY <1>3, <1>6, <1>7, <1>8
<1>10. SumFunction(f) \in Nat
  BY <1>6, <1>7, <1>8
<1>11. ASSUME NEW x \in S PROVE f[x] <= SumFunction(f)
  <2>1. SumFunction(f) = f[x] + SumFunction(On(S \ {x})) /\ SumFunction(On(S \ {x})) \in Nat /\ f[x] \in Nat
    BY <1>1, <1>9
  <2> QED BY <2>1
<1> QED BY <1>10, <1>11

\* The minimum of two numbers is one of them, and not above either.
LEMMA MinOfTwo ==
  ASSUME NEW x \in Int, NEW y \in Int
  PROVE  Min({x, y}) = IF x <= y THEN x ELSE y
<1>1. \E z \in {x, y} : \A w \in {x, y} : z <= w
  OBVIOUS
<1>2. Min({x, y}) \in {x, y} /\ \A w \in {x, y} : Min({x, y}) <= w
  BY <1>1 DEF Min
<1> QED BY <1>2

\* The maximum of two numbers is one of them, and not below either.
LEMMA MaxOfTwo ==
  ASSUME NEW x \in Int, NEW y \in Int
  PROVE  Max({x, y}) = IF x >= y THEN x ELSE y
<1>1. \E z \in {x, y} : \A w \in {x, y} : z >= w
  OBVIOUS
<1>2. Max({x, y}) \in {x, y} /\ \A w \in {x, y} : Max({x, y}) >= w
  BY <1>1 DEF Max
<1> QED BY <1>2

-----------------------------------------------------------------------------
(* Least elements of a strict order.                                       *)

\* A strict order on a finite set that is not empty has a minimal element.
LEMMA MinimalOf ==
  ASSUME NEW S, IsFiniteSet(S), S # {}, NEW R,
         \A x \in S : <<x, x>> \notin R,
         \A x, y, z \in S : <<x, y>> \in R /\ <<y, z>> \in R => <<x, z>> \in R
  PROVE  \E x \in S : \A y \in S : <<y, x>> \notin R
<1> DEFINE Below(x) == {y \in S : <<y, x>> \in R}
           Counts   == {Cardinality(Below(x)) : x \in S}
<1>1. ASSUME NEW x \in S PROVE IsFiniteSet(Below(x)) /\ Cardinality(Below(x)) \in Nat
  <2>1. Below(x) \in SUBSET S
    OBVIOUS
  <2> HIDE DEF Below
  <2> QED BY <2>1, FS_Subset, FS_CardinalityType
<1>2. Counts \in SUBSET Nat /\ Counts # {}
  <2> HIDE DEF Below
  <2> QED BY <1>1
<1>3. PICK n \in Counts : \A m \in Counts : n <= m
  <2> HIDE DEF Counts
  <2> QED BY <1>2, LeastOf
<1>4. PICK x \in S : n = Cardinality(Below(x))
  <2> HIDE DEF Below
  <2> QED BY <1>3
<1>5. ASSUME NEW y \in S, <<y, x>> \in R PROVE FALSE
  <2>1. Below(y) \in SUBSET Below(x) /\ y \in Below(x) /\ y \notin Below(y)
    BY <1>5
  <2> HIDE DEF Below
  <2>2. Cardinality(Below(y)) \in Counts /\ Cardinality(Below(y)) \in Nat
    BY <1>1
  <2> HIDE DEF Counts
  <2>3. Cardinality(Below(y)) <= Cardinality(Below(x)) /\ Cardinality(Below(x)) <= Cardinality(Below(y))
    BY <1>1, <1>3, <1>4, <2>1, <2>2, FS_Subset
  <2>4. Cardinality(Below(y)) = Cardinality(Below(x))
    BY <1>1, <2>3
  <2>5. Below(y) = Below(x)
    BY <1>1, <2>1, <2>4, FS_Subset
  <2> QED BY <2>1, <2>5
<1> QED BY <1>5

\* The largest of finitely many numbers.
LEMMA MaxOf ==
  ASSUME NEW I \in SUBSET Nat, IsFiniteSet(I), I # {}
  PROVE  Max(I) \in I /\ \A x \in I : Max(I) >= x
<1> DEFINE R == {p \in I \X I : p[1] > p[2]}
<1>1. /\ \A x \in I : <<x, x>> \notin R
      /\ \A x, y, z \in I : <<x, y>> \in R /\ <<y, z>> \in R => <<x, z>> \in R
  OBVIOUS
<1>2. PICK x \in I : \A y \in I : <<y, x>> \notin R
  <2> HIDE DEF R
  <2> QED BY <1>1, MinimalOf
<1>3. \A y \in I : x >= y
  <2>1. ASSUME NEW y \in I PROVE x >= y
    <3>1. x \in Nat /\ y \in Nat
      OBVIOUS
    <3>2. ~ (y > x)
      BY <1>2
    <3> QED BY <3>1, <3>2
  <2> QED BY <2>1
<1>4. \E m \in I : \A y \in I : m >= y
  BY <1>3
<1> QED BY <1>4 DEF Max
=============================================================================
