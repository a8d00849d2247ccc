-------------------------- MODULE E01ReaderProofs --------------------------
(***************************************************************************)
(* Proofs about E01Reader, for every image, every number of threads, every *)
(* read and every capacity of the cache of decoded chunks.                 *)
(***************************************************************************)
EXTENDS E01Reader, FiniteSetTheorems, SequenceTheorems, WellFoundedInduction, TLAPS

-----------------------------------------------------------------------------
(* Induction, as a fact about sets of numbers.                             *)

\* A set of natural numbers has a least element.
LEMMA LeastNatural ==
    ASSUME NEW T \in SUBSET Nat, T # {}
    PROVE  \E x \in T : \A y \in T : x <= y
<1>. DEFINE R == {ss \in Nat \X Nat : ss[1] < ss[2]}
<1>1. IsWellFoundedOn(R, Nat)
  BY NatLessThanWellFounded, Zenon DEF OpToRel
<1>2. \A x, y \in Nat : x < y => <<x, y>> \in R
  OBVIOUS
<1>. HIDE DEF R
<1>3. PICK x \in T : \A y \in T : ~(<<y, x>> \in R)
  BY <1>1, WFMin
<1>4. \A y \in T : ~(y < x)
  BY <1>2, <1>3
<1>. QED  BY <1>4

\* What holds of 0 and of the next number holds of all.
LEMMA Induction ==
    ASSUME NEW S, 0 \in S, \A n \in Nat : n \in S => n + 1 \in S
    PROVE  Nat \subseteq S
<1>. DEFINE T == {n \in Nat : n \notin S}
<1>1. CASE T = {}
  BY <1>1
<1>2. CASE T # {}
  <2>1. PICK x \in T : \A y \in T : x <= y
    BY <1>2, LeastNatural
  <2>2. x - 1 \in Nat /\ x - 1 \in S
    BY <2>1
  <2>. QED  BY <2>1, <2>2
<1>. QED  BY <1>1, <1>2

-----------------------------------------------------------------------------
(* The sum of a function over a finite set.                                *)

Picked(s) == CHOOSE x \in s : TRUE

\* g adds up f over the sets of D.
Adds(f, g, D) == g = [s \in D |-> IF s = {} THEN 0 ELSE f[Picked(s)] + g[s \ {Picked(s)}]]

UpTo(S, n) == {s \in SUBSET S : Cardinality(s) <= n}

\* A non-empty finite set less the element Picked has one element less.
LEMMA LessOne ==
    ASSUME NEW S, IsFiniteSet(S), NEW s \in SUBSET S, s # {}
    PROVE  /\ Picked(s) \in s /\ s \ {Picked(s)} \in SUBSET S
           /\ Cardinality(s) \in Nat
           /\ Cardinality(s \ {Picked(s)}) = Cardinality(s) - 1
<1>1. Picked(s) \in s
  BY DEF Picked
<1>2. IsFiniteSet(s) /\ Cardinality(s) \in Nat
  BY FS_Subset, FS_CardinalityType
<1>. QED  BY <1>1, <1>2, FS_RemoveElement

\* The recursive function of the sum exists on the subsets of a finite set.
LEMMA AddsExists ==
    ASSUME NEW f, NEW S, IsFiniteSet(S)
    PROVE  \E g : Adds(f, g, SUBSET S)
<1>. DEFINE Good == {n \in Nat : \E g : Adds(f, g, UpTo(S, n))}
<1>1. \A s \in SUBSET S : Cardinality(s) \in Nat /\ (Cardinality(s) = 0 <=> s = {})
  BY FS_Subset, FS_CardinalityType, FS_EmptySet
<1>2. 0 \in Good
  <2>1. \A s \in UpTo(S, 0) : s = {}
    BY <1>1 DEF UpTo
  <2>2. Adds(f, [s \in UpTo(S, 0) |-> 0], UpTo(S, 0))
    BY <2>1 DEF Adds
  <2>. QED  BY <2>2
<1>3. ASSUME NEW n \in Nat, n \in Good PROVE n + 1 \in Good
  <2>1. PICK g : Adds(f, g, UpTo(S, n))
    BY <1>3
  <2>. DEFINE h == [s \in UpTo(S, n + 1) |->
                      IF s = {} THEN 0 ELSE f[Picked(s)] + g[s \ {Picked(s)}]]
  <2>2. \A s \in UpTo(S, n) : s \in UpTo(S, n + 1)
    BY <1>1 DEF UpTo
  <2>3. \A s \in UpTo(S, n) : h[s] = g[s]
    BY <2>1, <2>2 DEF Adds
  <2>4. ASSUME NEW s \in UpTo(S, n + 1), s # {} PROVE s \ {Picked(s)} \in UpTo(S, n)
    BY <2>4, LessOne DEF UpTo
  <2>5. Adds(f, h, UpTo(S, n + 1))
    BY <2>3, <2>4 DEF Adds
  <2>. QED  BY <2>5
<1>4. Cardinality(S) \in Good
  <2>1. Cardinality(S) \in Nat
    BY FS_CardinalityType
  <2>. HIDE DEF Good
  <2>. QED  BY <1>2, <1>3, <2>1, Induction
<1>5. UpTo(S, Cardinality(S)) = SUBSET S
  <2>1. \A s \in SUBSET S : Cardinality(s) <= Cardinality(S)
    BY FS_Subset
  <2>. QED  BY <2>1 DEF UpTo
<1>. QED  BY <1>4, <1>5

\* The sum is what such a g says of the whole domain.
LEMMA SumIsAdded ==
    ASSUME NEW S, IsFiniteSet(S), NEW f, DOMAIN f = S
    PROVE  \E g : Adds(f, g, SUBSET S) /\ SumFunction(f) = g[S]
<1>1. SumFunction(f) = (CHOOSE g : Adds(f, g, SUBSET S))[S]
  BY DEF SumFunction, SumFunctionOnSet, FoldFunctionOnSet, MapThenFoldSet, Adds, Picked
<1>. QED  BY <1>1, AddsExists

\* What is true of the empty set, and of a set if it is true of it less one element,
\* is true of every subset.
LEMMA SubsetInduction ==
    ASSUME NEW S, IsFiniteSet(S), NEW G, {} \in G,
           \A s \in SUBSET S : s # {} /\ s \ {Picked(s)} \in G => s \in G
    PROVE  SUBSET S \subseteq G
<1>. DEFINE Good == {n \in Nat : UpTo(S, n) \subseteq G}
<1>1. \A s \in SUBSET S : Cardinality(s) \in Nat /\ (Cardinality(s) = 0 <=> s = {})
  BY FS_Subset, FS_CardinalityType, FS_EmptySet
<1>2. 0 \in Good
  <2>1. ASSUME NEW s \in UpTo(S, 0) PROVE s = {}
    <3>1. s \in SUBSET S /\ Cardinality(s) <= 0
      BY DEF UpTo
    <3>2. Cardinality(s) \in Nat /\ (Cardinality(s) = 0 <=> s = {})
      BY <1>1, <3>1
    <3>. QED  BY <3>1, <3>2
  <2>. QED  BY <2>1
<1>3. ASSUME NEW n \in Nat, n \in Good PROVE n + 1 \in Good
  <2>1. ASSUME NEW s \in UpTo(S, n + 1), s # {} PROVE s \in G
    <3>1. s \ {Picked(s)} \in UpTo(S, n)
      BY <2>1, LessOne DEF UpTo
    <3>. QED  BY <1>3, <2>1, <3>1 DEF UpTo
  <2>. QED  BY <2>1
<1>4. ASSUME NEW s \in SUBSET S PROVE s \in G
  <2>1. Cardinality(s) \in Nat /\ s \in UpTo(S, Cardinality(s))
    BY <1>1 DEF UpTo
  <2>2. Cardinality(s) \in Good
    <3>. HIDE DEF Good
    <3>. QED  BY <1>2, <1>3, <2>1, Induction
  <2>. QED  BY <2>1, <2>2
<1>. QED  BY <1>4

\* A sum of natural numbers is one; no term exceeds it, and it does not exceed as many
\* times a bound of its terms.
LEMMA SumBounds ==
    ASSUME NEW S, IsFiniteSet(S), NEW f \in [S -> Nat],
           NEW B \in Nat, \A x \in S : f[x] <= B
    PROVE  /\ SumFunction(f) \in Nat /\ SumFunction(f) <= Cardinality(S) * B
           /\ \A x \in S : f[x] <= SumFunction(f)
<1>1. PICK g : Adds(f, g, SUBSET S) /\ SumFunction(f) = g[S]
  BY SumIsAdded
<1>. DEFINE G == {s \in SUBSET S : /\ g[s] \in Nat /\ g[s] <= Cardinality(s) * B
                                   /\ \A x \in s : f[x] <= g[s]}
<1>2. {} \in G
  BY <1>1, FS_EmptySet DEF Adds
<1>3. ASSUME NEW s \in SUBSET S, s # {}, s \ {Picked(s)} \in G PROVE s \in G
  <2>. DEFINE r == s \ {Picked(s)}
              c == Cardinality(r)
  <2>1. /\ Picked(s) \in s /\ Picked(s) \in S
        /\ Cardinality(s) \in Nat /\ c = Cardinality(s) - 1
    BY <1>3, LessOne
  <2>2. g[s] = f[Picked(s)] + g[r]
    BY <1>1, <1>3 DEF Adds
  <2>3. c \in Nat /\ Cardinality(s) = c + 1
    <3>1. IsFiniteSet(r)
      BY FS_Subset
    <3>2. c \in Nat
      BY <3>1, FS_CardinalityType
    <3>. HIDE DEF c
    <3>. QED  BY <2>1, <3>2
  <2>4. g[r] \in Nat /\ g[r] <= c * B /\ \A x \in r : f[x] <= g[r]
    BY <1>3
  <2>. HIDE DEF c
  <2>5. f[Picked(s)] \in Nat /\ f[Picked(s)] <= B
    BY <2>1
  <2>6. g[s] \in Nat /\ g[s] <= c * B + B
    <3>1. c * B \in Nat
      BY <2>3
    <3>. QED  BY <2>2, <2>4, <2>5, <3>1
  <2>7. c * B + B = Cardinality(s) * B
    BY <2>3
  <2>8. ASSUME NEW x \in s PROVE f[x] <= g[s]
    <3>1. CASE x = Picked(s)
      BY <2>2, <2>4, <2>5, <3>1
    <3>2. CASE x # Picked(s)
      <4>1. x \in r /\ f[x] \in Nat
        BY <3>2
      <4>2. f[x] <= g[r]
        BY <2>4, <4>1
      <4>. HIDE DEF r
      <4>. QED  BY <2>2, <2>4, <2>5, <4>1, <4>2
    <3>. QED  BY <3>1, <3>2
  <2>. QED  BY <2>6, <2>7, <2>8
<1>4. S \in G
  <2>. HIDE DEF G
  <2>. QED  BY <1>2, <1>3, SubsetInduction
<1>. QED  BY <1>1, <1>4

\* Changing one term changes the sum by as much.
LEMMA SumChange ==
    ASSUME NEW S, IsFiniteSet(S), NEW f \in [S -> Nat], NEW h \in [S -> Nat],
           NEW t \in S, \A x \in S : x # t => h[x] = f[x]
    PROVE  SumFunction(h) = SumFunction(f) - f[t] + h[t]
<1>1. PICK g : Adds(f, g, SUBSET S) /\ SumFunction(f) = g[S]
  BY SumIsAdded
<1>2. PICK k : Adds(h, k, SUBSET S) /\ SumFunction(h) = k[S]
  BY SumIsAdded
<1>. DEFINE G == {s \in SUBSET S : /\ g[s] \in Nat /\ k[s] \in Nat
                                   /\ t \notin s => k[s] = g[s]
                                   /\ t \in s => k[s] = g[s] - f[t] + h[t]}
<1>3. {} \in G
  BY <1>1, <1>2 DEF Adds
<1>4. ASSUME NEW s \in SUBSET S, s # {}, s \ {Picked(s)} \in G PROVE s \in G
  <2>. DEFINE r == s \ {Picked(s)}
  <2>1. Picked(s) \in s /\ Picked(s) \in S
    BY <1>4 DEF Picked
  <2>2. g[s] = f[Picked(s)] + g[r] /\ k[s] = h[Picked(s)] + k[r]
    BY <1>1, <1>2, <1>4 DEF Adds
  <2>3. /\ g[r] \in Nat /\ k[r] \in Nat
        /\ f[Picked(s)] \in Nat /\ h[Picked(s)] \in Nat /\ f[t] \in Nat /\ h[t] \in Nat
    BY <1>4, <2>1
  <2>4. CASE Picked(s) = t
    <3>1. k[r] = g[r]
      BY <1>4, <2>4
    <3>. QED  BY <2>1, <2>2, <2>3, <2>4, <3>1
  <2>5. CASE Picked(s) # t
    <3>1. h[Picked(s)] = f[Picked(s)] /\ (t \in s <=> t \in r)
      BY <2>1, <2>5
    <3>2. t \notin s => k[r] = g[r]
      BY <1>4, <3>1
    <3>3. t \in s => k[r] = g[r] - f[t] + h[t]
      BY <1>4, <3>1
    <3>. QED  BY <2>2, <2>3, <3>1, <3>2, <3>3
  <2>. QED  BY <2>4, <2>5
<1>5. S \in G
  <2>. HIDE DEF G
  <2>. QED  BY <1>3, <1>4, SubsetInduction
<1>. QED  BY <1>1, <1>2, <1>5

-----------------------------------------------------------------------------
(* The order of use.                                                       *)

Distinct(s) == \A i, j \in 1 .. Len(s) : s[i] = s[j] => i = j

Elems(s, n) == {s[i] : i \in 1 .. n}

\* g[n] is what retain leaves of the first n elements.
Keeps(s, k, g, m) ==
    g = [n \in 0 .. m |->
            IF n = 0 THEN <<>>
            ELSE IF s[n] = k THEN g[n - 1] ELSE Append(g[n - 1], s[n])]

\* The recursive function of Without exists up to any length.
LEMMA KeepsExists == ASSUME NEW s, NEW k, NEW m \in Nat PROVE \E g : Keeps(s, k, g, m)
<1>. DEFINE Good == {n \in Nat : \E g : Keeps(s, k, g, n)}
<1>1. 0 \in Good
  <2>. DEFINE h == [n \in 0 .. 0 |-> <<>>]
  <2>1. \A n \in 0 .. 0 : n = 0
    OBVIOUS
  <2>2. h = [n \in 0 .. 0 |-> IF n = 0 THEN <<>>
                             ELSE IF s[n] = k THEN h[n - 1] ELSE Append(h[n - 1], s[n])]
    BY <2>1
  <2>3. Keeps(s, k, h, 0)
    <3>. HIDE DEF h
    <3>. QED  BY <2>2 DEF Keeps
  <2>. QED  BY <2>3
<1>2. ASSUME NEW n \in Nat, n \in Good PROVE n + 1 \in Good
  <2>1. PICK g : Keeps(s, k, g, n)
    BY <1>2
  <2>. DEFINE h == [i \in 0 .. n + 1 |->
                      IF i = 0 THEN <<>>
                      ELSE IF s[i] = k THEN g[i - 1] ELSE Append(g[i - 1], s[i])]
  <2>2. \A i \in 0 .. n : h[i] = g[i]
    <3>1. \A i \in 0 .. n :
            g[i] = IF i = 0 THEN <<>>
                   ELSE IF s[i] = k THEN g[i - 1] ELSE Append(g[i - 1], s[i])
      BY <2>1 DEF Keeps
    <3>2. \A i \in 0 .. n : i \in 0 .. n + 1
      OBVIOUS
    <3>. QED  BY <3>1, <3>2
  <2>3. \A i \in 0 .. n + 1 : i # 0 => i - 1 \in 0 .. n
    OBVIOUS
  <2>4. Keeps(s, k, h, n + 1)
    BY <2>2, <2>3 DEF Keeps
  <2>. QED  BY <2>4
<1>. HIDE DEF Good
<1>3. m \in Good
  BY <1>1, <1>2, Induction
<1>. QED  BY <1>3 DEF Good

\* Without is the last value of its recursive function.
LEMMA WithoutIsKept ==
    ASSUME NEW s, Len(s) \in Nat, NEW k
    PROVE  \E g : Keeps(s, k, g, Len(s)) /\ Without(s, k) = g[Len(s)]
<1>1. Without(s, k) = (CHOOSE g : Keeps(s, k, g, Len(s)))[Len(s)]
  BY DEF Without, Keeps
<1>. QED  BY <1>1, KeepsExists

\* retain takes an element out and leaves the rest.
LEMMA WithoutFacts ==
    ASSUME NEW A, NEW s \in Seq(A), Distinct(s), NEW k
    PROVE  /\ Without(s, k) \in Seq(A) /\ Distinct(Without(s, k))
           /\ Elems(Without(s, k), Len(Without(s, k))) = Elems(s, Len(s)) \ {k}
           /\ Len(Without(s, k)) = IF k \in Elems(s, Len(s)) THEN Len(s) - 1 ELSE Len(s)
<1>1. Len(s) \in Nat
  BY LenProperties
<1>2. PICK g : Keeps(s, k, g, Len(s)) /\ Without(s, k) = g[Len(s)]
  BY <1>1, WithoutIsKept
<1>. DEFINE Fits(n) == /\ g[n] \in Seq(A) /\ Distinct(g[n])
                       /\ Elems(g[n], Len(g[n])) = Elems(s, n) \ {k}
                       /\ Len(g[n]) = IF k \in Elems(s, n) THEN n - 1 ELSE n
            Good == {n \in Nat : n <= Len(s) => Fits(n)}
<1>3. 0 \in Good
  <2>1. g[0] = <<>>
    BY <1>1, <1>2 DEF Keeps
  <2>2. Elems(s, 0) = {} /\ Elems(<<>>, 0) = {} /\ Distinct(<<>>)
    BY DEF Distinct, Elems
  <2>3. Fits(0)
    BY <2>1, <2>2
  <2>. QED  BY <2>3
<1>4. ASSUME NEW n \in Nat, n \in Good PROVE n + 1 \in Good
  <2>. SUFFICES ASSUME n + 1 <= Len(s) PROVE Fits(n + 1)
    OBVIOUS
  <2>. DEFINE r == g[n]
              x == s[n + 1]
  <2>1. /\ r \in Seq(A) /\ Distinct(r) /\ Elems(r, Len(r)) = Elems(s, n) \ {k}
        /\ Len(r) = IF k \in Elems(s, n) THEN n - 1 ELSE n
    BY <1>1, <1>4
  <2>2. x \in A /\ g[n + 1] = IF x = k THEN r ELSE Append(r, x)
    <3>1. n + 1 \in 0 .. Len(s) /\ n + 1 # 0 /\ (n + 1) - 1 = n
      BY <1>1
    <3>2. g[n + 1] = IF s[n + 1] = k THEN g[(n + 1) - 1] ELSE Append(g[(n + 1) - 1], s[n + 1])
      BY <1>2, <3>1 DEF Keeps
    <3>3. x \in A
      BY <3>1
    <3>. QED  BY <3>1, <3>2, <3>3
  <2>3. Elems(s, n + 1) = Elems(s, n) \cup {x}
    BY DEF Elems
  <2>4. x \notin Elems(s, n)
    BY <1>1 DEF Elems, Distinct
  <2>5. CASE x = k
    BY <2>1, <2>2, <2>3, <2>4, <2>5
  <2>6. CASE x # k
    <3>1. /\ g[n + 1] = Append(r, x) /\ Append(r, x) \in Seq(A)
          /\ Len(r) \in Nat /\ Len(Append(r, x)) = Len(r) + 1
          /\ Append(r, x)[Len(r) + 1] = x
          /\ \A i \in 1 .. Len(r) : Append(r, x)[i] = r[i]
      BY <2>1, <2>2, <2>6, AppendProperties, LenProperties
    <3>2. Elems(Append(r, x), Len(r) + 1) = Elems(r, Len(r)) \cup {x}
      BY <3>1 DEF Elems
    <3>3. Distinct(Append(r, x))
      <4>1. \A i \in 1 .. Len(r) : r[i] # x
        <5>1. x \notin Elems(r, Len(r))
          BY <2>1, <2>4
        <5>. QED  BY <5>1 DEF Elems
      <4>2. \A i, j \in 1 .. Len(r) : r[i] = r[j] => i = j
        BY <2>1 DEF Distinct
      <4>. HIDE DEF r, x
      <4>. QED  BY <3>1, <4>1, <4>2 DEF Distinct
    <3>4. k \in Elems(s, n + 1) <=> k \in Elems(s, n)
      BY <2>3, <2>6
    <3>5. Elems(Append(r, x), Len(r) + 1) = Elems(s, n + 1) \ {k}
      BY <2>1, <2>3, <2>6, <3>2
    <3>6. Len(g[n + 1]) = IF k \in Elems(s, n + 1) THEN n ELSE n + 1
      BY <2>1, <3>1, <3>4
    <3>. QED  BY <3>1, <3>3, <3>5, <3>6
  <2>. QED  BY <2>5, <2>6
<1>5. Len(s) \in Good
  <2>. HIDE DEF Good
  <2>. QED  BY <1>1, <1>3, <1>4, Induction
<1>. QED  BY <1>1, <1>2, <1>5

\* A get of an element moves it to the end.
LEMMA TouchedFacts ==
    ASSUME NEW A, NEW s \in Seq(A), Distinct(s), NEW k \in Elems(s, Len(s))
    PROVE  /\ Touched(s, k) \in Seq(A) /\ Distinct(Touched(s, k))
           /\ Len(Touched(s, k)) = Len(s)
           /\ Elems(Touched(s, k), Len(s)) = Elems(s, Len(s))
<1>. DEFINE r == Without(s, k)
<1>1. /\ r \in Seq(A) /\ Distinct(r) /\ Len(r) = Len(s) - 1
      /\ Elems(r, Len(r)) = Elems(s, Len(s)) \ {k}
  BY WithoutFacts
<1>2. k \in A
  BY LenProperties DEF Elems
<1>. HIDE DEF r
<1>3. /\ Append(r, k) \in Seq(A) /\ Len(r) \in Nat /\ Len(Append(r, k)) = Len(r) + 1
      /\ Append(r, k)[Len(r) + 1] = k
      /\ \A i \in 1 .. Len(r) : Append(r, k)[i] = r[i]
  BY <1>1, <1>2, AppendProperties, LenProperties
<1>4. Len(s) \in Nat
  BY LenProperties
<1>5. Elems(Append(r, k), Len(s)) = Elems(r, Len(r)) \cup {k}
  BY <1>1, <1>3, <1>4 DEF Elems
<1>6. Distinct(Append(r, k))
  <2>1. \A i \in 1 .. Len(r) : r[i] # k
    BY <1>1 DEF Elems
  <2>. QED  BY <1>1, <1>3, <2>1 DEF Distinct
<1>. QED  BY <1>1, <1>3, <1>4, <1>5, <1>6 DEF Touched, r

\* g[n] is the order of use after the first n of ks were got.
Touches(s, ks, g, m) ==
    g = [n \in 0 .. m |-> IF n = 0 THEN s ELSE Touched(g[n - 1], ks[n])]

\* The recursive function of AllTouched exists up to any length.
LEMMA TouchesExists == ASSUME NEW s, NEW ks, NEW m \in Nat PROVE \E g : Touches(s, ks, g, m)
<1>. DEFINE Good == {n \in Nat : \E g : Touches(s, ks, g, n)}
<1>1. 0 \in Good
  <2>. DEFINE h == [n \in 0 .. 0 |-> s]
  <2>1. \A n \in 0 .. 0 : n = 0
    OBVIOUS
  <2>2. h = [n \in 0 .. 0 |-> IF n = 0 THEN s ELSE Touched(h[n - 1], ks[n])]
    BY <2>1
  <2>3. Touches(s, ks, h, 0)
    <3>. HIDE DEF h
    <3>. QED  BY <2>2 DEF Touches
  <2>. QED  BY <2>3
<1>2. ASSUME NEW n \in Nat, n \in Good PROVE n + 1 \in Good
  <2>1. PICK g : Touches(s, ks, g, n)
    BY <1>2
  <2>. DEFINE h == [i \in 0 .. n + 1 |-> IF i = 0 THEN s ELSE Touched(g[i - 1], ks[i])]
  <2>2. \A i \in 0 .. n : h[i] = g[i]
    <3>1. \A i \in 0 .. n : g[i] = IF i = 0 THEN s ELSE Touched(g[i - 1], ks[i])
      BY <2>1 DEF Touches
    <3>2. \A i \in 0 .. n : i \in 0 .. n + 1
      OBVIOUS
    <3>. QED  BY <3>1, <3>2
  <2>3. \A i \in 0 .. n + 1 : i # 0 => i - 1 \in 0 .. n
    OBVIOUS
  <2>4. Touches(s, ks, h, n + 1)
    BY <2>2, <2>3 DEF Touches
  <2>. QED  BY <2>4
<1>. HIDE DEF Good
<1>3. m \in Good
  BY <1>1, <1>2, Induction
<1>. QED  BY <1>3 DEF Good

\* Looking up chunks that are there changes their order only.
LEMMA AllTouchedFacts ==
    ASSUME NEW A, NEW s \in Seq(A), Distinct(s), NEW ks, Len(ks) \in Nat,
           \A i \in 1 .. Len(ks) : ks[i] \in Elems(s, Len(s))
    PROVE  /\ AllTouched(s, ks) \in Seq(A) /\ Distinct(AllTouched(s, ks))
           /\ Len(AllTouched(s, ks)) = Len(s)
           /\ Elems(AllTouched(s, ks), Len(s)) = Elems(s, Len(s))
<1>1. PICK g : Touches(s, ks, g, Len(ks)) /\ AllTouched(s, ks) = g[Len(ks)]
  <2>1. AllTouched(s, ks) = (CHOOSE g : Touches(s, ks, g, Len(ks)))[Len(ks)]
    BY DEF AllTouched, Touches
  <2>. QED  BY <2>1, TouchesExists
<1>. DEFINE Fits(n) == /\ g[n] \in Seq(A) /\ Distinct(g[n]) /\ Len(g[n]) = Len(s)
                       /\ Elems(g[n], Len(s)) = Elems(s, Len(s))
            Good == {n \in Nat : n <= Len(ks) => Fits(n)}
<1>2. 0 \in Good
  <2>1. g[0] = s
    BY <1>1 DEF Touches
  <2>. QED  BY <2>1
<1>3. ASSUME NEW n \in Nat, n \in Good PROVE n + 1 \in Good
  <2>. SUFFICES ASSUME n + 1 <= Len(ks) PROVE Fits(n + 1)
    OBVIOUS
  <2>1. Fits(n)
    BY <1>3
  <2>2. n + 1 \in 0 .. Len(ks) /\ n + 1 # 0 /\ (n + 1) - 1 = n /\ n + 1 \in 1 .. Len(ks)
    OBVIOUS
  <2>3. g[n + 1] = Touched(g[n], ks[n + 1])
    <3>1. g[n + 1] = IF n + 1 = 0 THEN s ELSE Touched(g[(n + 1) - 1], ks[n + 1])
      BY <1>1, <2>2 DEF Touches
    <3>. QED  BY <2>2, <3>1
  <2>4. ks[n + 1] \in Elems(g[n], Len(g[n]))
    BY <2>1, <2>2
  <2>. QED  BY <2>1, <2>3, <2>4, TouchedFacts
<1>4. Len(ks) \in Good
  <2>. HIDE DEF Good
  <2>. QED  BY <1>2, <1>3, Induction
<1>. QED  BY <1>1, <1>4

\* A sequence without duplicates has as many elements as places.
LEMMA DistinctCount ==
    ASSUME NEW s, Len(s) \in Nat, Distinct(s)
    PROVE  IsFiniteSet(Elems(s, Len(s))) /\ Cardinality(Elems(s, Len(s))) = Len(s)
<1>. DEFINE T == Elems(s, Len(s))
            f == [i \in 1 .. Len(s) |-> s[i]]
<1>1. f \in Bijection(1 .. Len(s), T)
  <2>1. f \in [1 .. Len(s) -> T] /\ \A i \in 1 .. Len(s) : f[i] = s[i]
    BY DEF Elems
  <2>2. \A x \in T : \E i \in 1 .. Len(s) : f[i] = x
    BY <2>1 DEF Elems
  <2>3. \A i, j \in 1 .. Len(s) : f[i] = f[j] => i = j
    BY <2>1 DEF Distinct
  <2>. HIDE DEF f, T
  <2>4. DOMAIN f = 1 .. Len(s)
    BY <2>1
  <2>5. IsInjective(f)
    BY <2>3, <2>4 DEF IsInjective
  <2>6. f \in Injection(1 .. Len(s), T)
    BY <2>1, <2>5 DEF Injection
  <2>7. f \in Surjection(1 .. Len(s), T)
    BY <2>1, <2>2 DEF Surjection
  <2>. QED  BY <2>6, <2>7 DEF Bijection
<1>2. ExistsBijection(1 .. Len(s), T)
  BY <1>1 DEF ExistsBijection
<1>3. IsFiniteSet(1 .. Len(s)) /\ Cardinality(1 .. Len(s)) = Len(s)
  <2>1. /\ IsFiniteSet(1 .. Len(s))
        /\ Cardinality(1 .. Len(s)) = IF 1 > Len(s) THEN 0 ELSE Len(s) - 1 + 1
    BY FS_Interval
  <2>. HIDE DEF f, T
  <2>. QED  BY <2>1
<1>. HIDE DEF T
<1>4. IsFiniteSet(T) /\ Cardinality(T) = Len(s)
  BY <1>2, <1>3, FS_Bijection
<1>. QED  BY <1>4 DEF T

\* The range of a sequence is the set of its elements up to its length.
LEMMA RangeIsElems == ASSUME NEW A, NEW s \in Seq(A) PROVE Range(s) = Elems(s, Len(s))
<1>1. DOMAIN s = 1 .. Len(s)
  BY LenProperties
<1>. QED  BY <1>1 DEF Range, Elems

-----------------------------------------------------------------------------
(* The cache of decoded chunks.                                            *)

Capacity == DECODED_CHUNK_CACHE_CHUNKS

\* Its two halves agree and it keeps to its capacity.
CacheShape ==
    /\ lru \in Seq(Nat) /\ Distinct(lru)
    /\ Elems(lru, Len(lru)) = DOMAIN chunks
    /\ Len(lru) <= Capacity

\* The queue with the new chunk has it once, and one place more than the cache at most.
LEMMA QueuedFacts ==
    ASSUME CacheShape, NEW k \in Nat
    PROVE  /\ Queued(k) \in Seq(Nat) /\ Distinct(Queued(k))
           /\ Len(Queued(k)) \in Nat
           /\ Elems(Queued(k), Len(Queued(k))) = DOMAIN chunks \cup {k}
<1>. DEFINE r == IF k \in DOMAIN chunks THEN Without(lru, k) ELSE lru
<1>0. lru \in Seq(Nat) /\ Distinct(lru) /\ Elems(lru, Len(lru)) = DOMAIN chunks
  BY DEF CacheShape
<1>1. r \in Seq(Nat) /\ Distinct(r) /\ Elems(r, Len(r)) = DOMAIN chunks \ {k}
  <2>1. CASE k \in DOMAIN chunks
    <3>1. r = Without(lru, k)
      BY <2>1
    <3>. QED  BY <1>0, <3>1, WithoutFacts
  <2>2. CASE k \notin DOMAIN chunks
    BY <1>0, <2>2
  <2>. QED  BY <2>1, <2>2
<1>2. Queued(k) = Append(r, k)
  BY DEF Queued
<1>. HIDE DEF r
<1>3. /\ Append(r, k) \in Seq(Nat) /\ Len(r) \in Nat /\ Len(Append(r, k)) = Len(r) + 1
      /\ Append(r, k)[Len(r) + 1] = k
      /\ \A i \in 1 .. Len(r) : Append(r, k)[i] = r[i]
  BY <1>1, AppendProperties, LenProperties
<1>4. Elems(Append(r, k), Len(r) + 1) = Elems(r, Len(r)) \cup {k}
  BY <1>3 DEF Elems
<1>5. \A i \in 1 .. Len(r) : r[i] # k
  <2>1. k \notin Elems(r, Len(r))
    BY <1>1
  <2>. QED  BY <2>1 DEF Elems
<1>6. Distinct(Append(r, k))
  <2>1. \A i, j \in 1 .. Len(r) : r[i] = r[j] => i = j
    BY <1>1 DEF Distinct
  <2>. QED  BY <1>3, <1>5, <2>1 DEF Distinct
<1>. QED  BY <1>1, <1>2, <1>3, <1>4, <1>6

\* The end of a sequence without duplicates.
LEMMA SuffixFacts ==
    ASSUME NEW A, NEW q \in Seq(A), Distinct(q), NEW n \in 0 .. Len(q)
    PROVE  /\ SubSeq(q, n + 1, Len(q)) \in Seq(A) /\ Distinct(SubSeq(q, n + 1, Len(q)))
           /\ Len(SubSeq(q, n + 1, Len(q))) = Len(q) - n
           /\ Elems(SubSeq(q, n + 1, Len(q)), Len(q) - n)
                = Elems(q, Len(q)) \ Range(SubSeq(q, 1, n))
<1>. DEFINE s == SubSeq(q, n + 1, Len(q))
            p == SubSeq(q, 1, n)
<1>1. Len(q) \in Nat /\ n \in Nat /\ \A i \in 1 .. Len(q) : q[i] \in A
  BY LenProperties
<1>2. /\ s \in Seq(A) /\ Len(s) = Len(q) - n
      /\ \A i \in 1 .. Len(q) - n : s[i] = q[n + i]
  <2>1. \A i \in n + 1 .. Len(q) : q[i] \in A
    BY <1>1
  <2>2. /\ s \in Seq(A) /\ Len(s) = IF n + 1 <= Len(q) THEN Len(q) - (n + 1) + 1 ELSE 0
        /\ \A i \in 1 .. Len(q) - (n + 1) + 1 : s[i] = q[n + 1 + i - 1]
    BY <1>1, <2>1, SubSeqProperties
  <2>. HIDE DEF s
  <2>3. Len(s) = Len(q) - n
    BY <1>1, <2>2
  <2>4. \A i \in 1 .. Len(q) - n : s[i] = q[n + i]
    BY <1>1, <2>2
  <2>. QED  BY <2>2, <2>3, <2>4
<1>3. p \in Seq(A) /\ Len(p) = n /\ \A i \in 1 .. n : p[i] = q[i]
  <2>1. \A i \in 1 .. n : q[i] \in A
    BY <1>1
  <2>2. /\ p \in Seq(A) /\ Len(p) = IF 1 <= n THEN n - 1 + 1 ELSE 0
        /\ \A i \in 1 .. n - 1 + 1 : p[i] = q[1 + i - 1]
    BY <1>1, <2>1, SubSeqProperties
  <2>. HIDE DEF p
  <2>. QED  BY <1>1, <2>2
<1>. HIDE DEF s, p
<1>4. Range(p) = {q[i] : i \in 1 .. n}
  BY <1>3, RangeIsElems DEF Elems
<1>5. Distinct(s)
  BY <1>1, <1>2 DEF Distinct
<1>6. ASSUME NEW x PROVE x \in Elems(s, Len(q) - n) <=> x \in Elems(q, Len(q)) \ Range(p)
  <2>1. ASSUME NEW i \in 1 .. Len(q) - n, x = s[i] PROVE x \in Elems(q, Len(q)) \ Range(p)
    <3>1. n + i \in 1 .. Len(q) /\ x = q[n + i]
      BY <1>1, <1>2, <2>1
    <3>2. \A j \in 1 .. n : j \in 1 .. Len(q) /\ j # n + i
      BY <1>1
    <3>3. \A j \in 1 .. n : q[j] # q[n + i]
      BY <3>1, <3>2 DEF Distinct
    <3>. QED  BY <1>4, <3>1, <3>3 DEF Elems
  <2>2. ASSUME NEW i \in 1 .. Len(q), x = q[i], x \notin Range(p)
        PROVE  x \in Elems(s, Len(q) - n)
    <3>1. i \notin 1 .. n
      BY <1>4, <2>2
    <3>2. i - n \in 1 .. Len(q) - n /\ n + (i - n) = i
      BY <1>1, <3>1
    <3>3. s[i - n] = x
      BY <1>2, <2>2, <3>2
    <3>. QED  BY <3>2, <3>3 DEF Elems
  <2>. QED  BY <2>1, <2>2 DEF Elems
<1>. QED  BY <1>2, <1>5, <1>6 DEF s, p

\* What is evicted brings the count down to the capacity.
LEMMA EvictedFacts ==
    ASSUME CacheShape, NEW k \in Nat
    PROVE  /\ EvictedBy(k) \in 0 .. Len(Queued(k))
           /\ Len(Queued(k)) - EvictedBy(k) <= Capacity
<1>. DEFINE q == Queued(k)
            Left(n) == (DOMAIN chunks \cup {k}) \ Range(SubSeq(q, 1, n))
            T == {n \in 0 .. Len(q) : n = Len(q) \/ Cardinality(Left(n)) <= Capacity}
<1>1. /\ q \in Seq(Nat) /\ Distinct(q) /\ Len(q) \in Nat /\ Capacity \in Nat
      /\ Elems(q, Len(q)) = DOMAIN chunks \cup {k}
  BY QueuedFacts, E01Assumption DEF Capacity
<1>2. EvictedBy(k) = Min(T)
  BY DEF EvictedBy, Capacity
<1>3. Min(T) \in T
  <2>1. T \subseteq Nat /\ Len(q) \in T
    BY <1>1
  <2>. HIDE DEF T
  <2>2. \E x \in T : \A y \in T : x <= y
    BY <2>1, LeastNatural
  <2>. QED  BY <2>2 DEF Min
<1>4. ASSUME NEW n \in T PROVE n \in 0 .. Len(q) /\ Len(q) - n <= Capacity
  <2>. DEFINE s == SubSeq(q, n + 1, Len(q))
  <2>1. n \in 0 .. Len(q)
    OBVIOUS
  <2>2. Distinct(s) /\ Len(s) = Len(q) - n /\ Elems(s, Len(s)) = Left(n)
    <3>. HIDE DEF q
    <3>. QED  BY <1>1, <2>1, SuffixFacts
  <2>3. Len(q) - n \in Nat
    BY <1>1, <2>1
  <2>4. Cardinality(Left(n)) = Len(q) - n
    <3>. HIDE DEF s, q, Left
    <3>. QED  BY <2>2, <2>3, DistinctCount
  <2>5. n = Len(q) \/ Cardinality(Left(n)) <= Capacity
    OBVIOUS
  <2>. HIDE DEF q, Left
  <2>. QED  BY <1>1, <2>1, <2>4, <2>5
<1>. HIDE DEF T
<1>. QED  BY <1>2, <1>3, <1>4

\* An insert keeps the cache in shape, and what it holds is what it held or the new one.
LEMMA InsertFacts ==
    ASSUME CacheShape, NEW k \in Nat, NEW p, Insert(k, p)
    PROVE  /\ CacheShape'
           /\ \A j \in DOMAIN chunks' : \/ j = k /\ chunks'[j] = p
                                        \/ j \in DOMAIN chunks /\ chunks'[j] = chunks[j]
<1>1. CASE Capacity = 0
  BY <1>1 DEF Insert, Capacity, CacheShape
<1>2. CASE Capacity # 0
  <2>. DEFINE q == Queued(k)
              n == EvictedBy(k)
              keep == (DOMAIN chunks \cup {k}) \ Range(SubSeq(q, 1, n))
  <2>1. /\ chunks' = [j \in keep |-> IF j = k THEN p ELSE chunks[j]]
        /\ lru' = SubSeq(q, n + 1, Len(q))
    BY <1>2 DEF Insert, Capacity
  <2>2. /\ q \in Seq(Nat) /\ Distinct(q) /\ Elems(q, Len(q)) = DOMAIN chunks \cup {k}
        /\ n \in 0 .. Len(q) /\ Len(q) - n <= Capacity
    BY QueuedFacts, EvictedFacts
  <2>. HIDE DEF q, n
  <2>3. /\ lru' \in Seq(Nat) /\ Distinct(lru') /\ Len(lru') = Len(q) - n
        /\ Elems(lru', Len(lru')) = keep
    BY <2>1, <2>2, SuffixFacts
  <2>4. DOMAIN chunks' = keep
    BY <2>1
  <2>. QED  BY <2>1, <2>2, <2>3, <2>4 DEF CacheShape, Distinct, Elems, Capacity
<1>. QED  BY <1>1, <1>2

-----------------------------------------------------------------------------
(* Offsets, chunks and their parts.                                        *)

\* The lesser of two numbers.
LEMMA MinPair ==
    ASSUME NEW a \in Int, NEW b \in Int
    PROVE  Min({a, b}) = IF a <= b THEN a ELSE b
<1>1. PICK x \in {a, b} : \A y \in {a, b} : x <= y
  OBVIOUS
<1>2. Min({a, b}) \in {a, b} /\ \A y \in {a, b} : Min({a, b}) <= y
  BY <1>1 DEF Min
<1>. QED  BY <1>2

\* The greater of two numbers.
LEMMA MaxPair ==
    ASSUME NEW a \in Int, NEW b \in Int
    PROVE  Max({a, b}) = IF a <= b THEN b ELSE a
<1>1. PICK x \in {a, b} : \A y \in {a, b} : x >= y
  OBVIOUS
<1>2. Max({a, b}) \in {a, b} /\ \A y \in {a, b} : Max({a, b}) >= y
  BY <1>1 DEF Max
<1>. QED  BY <1>2

\* Euclidean division of naturals, with its remainder.
LEMMA DivBounds ==
    ASSUME NEW a \in Nat, NEW b \in Nat \ {0}
    PROVE  /\ a \div b \in Nat /\ a % b \in Nat
           /\ (a \div b) * b <= a /\ a < (a \div b) * b + b
           /\ a % b = a - (a \div b) * b
BY SMT

\* A product of naturals grows with its first factor.
LEMMA TimesMonotonic ==
    ASSUME NEW a \in Nat, NEW b \in Nat, NEW c \in Nat, a <= b
    PROVE  a * c \in Nat /\ b * c \in Nat /\ a * c <= b * c
<1>1. PICK d \in Nat : b = a + d
  <2>1. b - a \in Nat /\ b = a + (b - a)
    OBVIOUS
  <2>. QED  BY <2>1
<1>2. a * c \in Nat /\ d * c \in Nat
  OBVIOUS
<1>3. b * c = a * c + d * c
  BY <1>1
<1>. QED  BY <1>2, <1>3

\* Multiples of c are in order of their factors.
LEMMA TimesOrder ==
    ASSUME NEW a \in Nat, NEW b \in Nat, NEW c \in Nat, a * c < (b + 1) * c
    PROVE  a <= b
<1>. SUFFICES ASSUME b + 1 <= a PROVE FALSE
  OBVIOUS
<1>1. (b + 1) * c <= a * c /\ (b + 1) * c \in Nat /\ a * c \in Nat
  BY TimesMonotonic
<1>. QED  BY <1>1

\* Chunk k of image im, counted from 1, has the byte at pos.
InChunk(im, k, pos) ==
    (k - 1) * im.chunk_size <= pos /\ pos < (k - 1) * im.chunk_size + im.chunk_size

\* An image whose chunk table covers it.
Covered ==
    /\ img.chunk_size \in Nat \ {0} /\ img.image_size \in Nat
    /\ img.chunks \in Seq(Chunk)
    /\ img.image_size <= Len(img.chunks) * img.chunk_size

\* Every byte lies in one chunk.
LEMMA ChunkOfByte ==
    ASSUME Covered, NEW pos \in Nat
    PROVE  /\ pos \div img.chunk_size \in Nat
           /\ \A k \in Nat \ {0} : InChunk(img, k, pos) <=> k = pos \div img.chunk_size + 1
<1>. DEFINE c == img.chunk_size
            d == pos \div c
<1>1. c \in Nat \ {0}
  BY DEF Covered
<1>2. d \in Nat /\ d * c <= pos /\ pos < d * c + c /\ d * c \in Nat
  <2>1. d \in Nat /\ d * c <= pos /\ pos < d * c + c
    <3>. HIDE DEF c
    <3>. QED  BY <1>1, DivBounds
  <2>. HIDE DEF d, c
  <2>. QED  BY <1>1, <2>1
<1>3. ASSUME NEW k \in Nat \ {0} PROVE InChunk(img, k, pos) <=> k = d + 1
  <2>. DEFINE h == k - 1
  <2>1. h \in Nat /\ h * c \in Nat
    BY <1>1
  <2>2. CASE k = d + 1
    <3>1. h = d
      BY <1>2, <2>2
    <3>. QED  BY <1>2, <2>2, <3>1 DEF InChunk
  <2>3. ASSUME InChunk(img, k, pos) PROVE h = d
    <3>1. h * c <= pos /\ pos < h * c + c
      BY <2>3 DEF InChunk
    <3>2. (d + 1) * c = d * c + c /\ (h + 1) * c = h * c + c
      BY <1>1, <1>2, <2>1
    <3>3. h * c < (d + 1) * c /\ d * c < (h + 1) * c
      <4>. HIDE DEF c, d, h
      <4>. QED  BY <1>1, <1>2, <2>1, <3>1, <3>2
    <3>. HIDE DEF c, d, h
    <3>. QED  BY <1>1, <1>2, <2>1, <3>3, TimesOrder
  <2>. QED  BY <1>2, <2>1, <2>2, <2>3
<1>. QED  BY <1>2, <1>3

\* EndChunk rounds up.
LEMMA EndChunkFacts ==
    ASSUME Covered, NEW e \in Nat, e <= img.image_size
    PROVE  /\ EndChunk(e) \in 0 .. Len(img.chunks)
           /\ e <= EndChunk(e) * img.chunk_size
<1>. DEFINE c == img.chunk_size
            size == img.image_size
            N == Len(img.chunks)
            q == e \div c
            r == e % c
            E == EndChunk(e)
<1>1. c \in Nat \ {0} /\ N \in Nat /\ size \in Nat /\ size <= N * c
  BY LenProperties DEF Covered
<1>2. q \in Nat /\ r \in Nat /\ q * c <= e /\ e < q * c + c /\ r = e - q * c
  <2>. HIDE DEF c
  <2>. QED  BY <1>1, DivBounds
<1>3. E = q + (IF r <= 1 THEN r ELSE 1)
  BY <1>2, MinPair DEF EndChunk
<1>4. q * c \in Nat /\ N * c \in Nat /\ (q + 1) * c = q * c + c
  <2>. HIDE DEF c, q, N
  <2>. QED  BY <1>1, <1>2
<1>. HIDE DEF c, q, N, r, E, size
<1>5. ASSUME r = 0 PROVE E \in 0 .. N /\ e <= E * c
  <2>1. E = q /\ e = q * c
    BY <1>1, <1>2, <1>3, <1>4, <1>5
  <2>2. q * c < (N + 1) * c
    <3>1. (N + 1) * c = N * c + c
      BY <1>1
    <3>. QED  BY <1>1, <1>4, <2>1, <3>1 DEF size
  <2>3. q <= N
    BY <1>1, <1>2, <2>2, TimesOrder
  <2>. QED  BY <1>1, <1>2, <2>1, <2>3
<1>6. ASSUME r # 0 PROVE E \in 0 .. N /\ e <= E * c
  <2>1. E = q + 1 /\ q * c < e /\ e <= (q + 1) * c
    BY <1>1, <1>2, <1>3, <1>4, <1>6
  <2>2. q * c < N * c
    BY <1>1, <1>4, <2>1 DEF size
  <2>3. N # 0
    BY <1>1, <1>2, <2>2
  <2>4. N - 1 \in Nat /\ (N - 1) + 1 = N
    BY <1>1, <2>3
  <2>5. q <= N - 1
    BY <1>1, <1>2, <2>2, <2>4, TimesOrder
  <2>. QED  BY <1>1, <1>2, <2>1, <2>5
<1>7. E \in 0 .. N /\ e <= E * c
  BY <1>5, <1>6
<1>. QED  BY <1>7 DEF c, N, E

\* The buffer is cut to the end of the image.
LEMMA ClampFacts ==
    ASSUME Covered, NEW off \in Nat, NEW len \in Nat, off <= img.image_size
    PROVE  /\ Clamp(off, len) \in 0 .. len
           /\ off + Clamp(off, len) <= img.image_size
<1>1. img.image_size \in Nat /\ img.image_size - off \in Nat
  BY DEF Covered
<1>. QED  BY <1>1, MinPair DEF Clamp

\* Chunk k of im has bytes of a read of n bytes at off.
Touching(im, k, off, n) ==
    /\ k \in 1 .. Len(im.chunks)
    /\ (k - 1) * im.chunk_size < off + n
    /\ off < (k - 1) * im.chunk_size + im.chunk_size

\* A read has one task for each chunk it touches, and at least as many workers.
LEMMA TaskFacts ==
    ASSUME Covered, NEW off \in Nat, NEW n \in Nat, off + n <= img.image_size
    PROVE  /\ BegChunk(off) \in Nat
           /\ EndChunk(off + n) - BegChunk(off) \in 0 .. Len(img.chunks)
           /\ Len(TaskChunks(off, n)) \in 0 .. EndChunk(off + n) - BegChunk(off)
           /\ DOMAIN TaskChunks(off, n) = 1 .. Len(TaskChunks(off, n))
           /\ \A i \in 1 .. Len(TaskChunks(off, n)) :
                /\ TaskChunks(off, n)[i] = BegChunk(off) + i
                /\ Touching(img, BegChunk(off) + i, off, n)
           /\ \A j \in 1 .. n : \E i \in 1 .. Len(TaskChunks(off, n)) :
                InChunk(img, BegChunk(off) + i, off + j - 1)
<1>. DEFINE c == img.chunk_size
            N == Len(img.chunks)
            E == EndChunk(off + n)
            b == BegChunk(off)
<1>1. /\ c \in Nat \ {0} /\ N \in Nat /\ off + n \in Nat
      /\ img.image_size \in Nat /\ img.image_size <= N * c
  BY LenProperties DEF Covered
<1>2. E \in 0 .. N /\ off + n <= E * c
  BY <1>1, EndChunkFacts
<1>3. b \in Nat /\ b * c <= off /\ off < b * c + c
  <2>. HIDE DEF c
  <2>. QED  BY <1>1, DivBounds DEF BegChunk, c
<1>4. b <= E
  <2>. HIDE DEF c, b, E, N
  <2>1. E \in Nat /\ E * c \in Nat /\ b * c \in Nat /\ (E + 1) * c = E * c + c
    BY <1>1, <1>2, <1>3
  <2>2. b * c < (E + 1) * c
    BY <1>1, <1>2, <1>3, <2>1
  <2>. QED  BY <1>1, <1>3, <2>1, <2>2, TimesOrder
<1>5. E - b \in 0 .. N
  <2>. HIDE DEF b, E, N
  <2>. QED  BY <1>1, <1>2, <1>3, <1>4
<1>6. CASE n = 0
  <2>1. TaskChunks(off, n) = <<>> /\ Len(TaskChunks(off, n)) = 0
    BY <1>6 DEF TaskChunks
  <2>2. DOMAIN TaskChunks(off, n) = 1 .. 0
    BY <2>1
  <2>. HIDE DEF b, E, N
  <2>3. 0 \in 0 .. E - b
    BY <1>2, <1>3, <1>4, <1>1
  <2>. QED  BY <1>3, <1>5, <1>6, <2>1, <2>2, <2>3 DEF b, E, N
<1>7. CASE n # 0
  <2>. DEFINE x == off + n - 1
              l == x \div c
              ks == TaskChunks(off, n)
  <2>1. x \in Nat /\ off <= x /\ x < off + n
    BY <1>7
  <2>2. l \in Nat /\ l * c <= x /\ x < l * c + c
    <3>. HIDE DEF c, x
    <3>. QED  BY <1>1, <2>1, DivBounds
  <2>3. b * c \in Nat /\ l * c \in Nat /\ E * c \in Nat /\ (l + 1) * c = l * c + c
    <3>. HIDE DEF c, b, l, E, x
    <3>. QED  BY <1>1, <1>2, <1>3, <2>2
  <2>. HIDE DEF x
  <2>4. b <= l
    <3>. HIDE DEF c, b, l, E
    <3>1. b * c < (l + 1) * c
      BY <1>1, <1>3, <2>1, <2>2, <2>3
    <3>. QED  BY <1>1, <1>3, <2>2, <3>1, TimesOrder
  <2>5. l + 1 <= E
    <3>. HIDE DEF c, b, l, E, N
    <3>1. l * c < E * c
      BY <1>1, <1>2, <2>1, <2>2, <2>3
    <3>2. E # 0
      BY <1>1, <2>2, <2>3, <3>1
    <3>3. E - 1 \in Nat /\ (E - 1) + 1 = E
      BY <1>1, <1>2, <3>2
    <3>4. l <= E - 1
      BY <1>1, <2>2, <3>1, <3>3, TimesOrder
    <3>. QED  BY <1>2, <2>2, <3>4
  <2>6. ks = [i \in 1 .. l - b + 1 |-> b + i]
    BY <1>7 DEF TaskChunks, x
  <2>. HIDE DEF l, ks
  <2>7. /\ l - b + 1 \in Nat /\ Len(ks) = l - b + 1 /\ DOMAIN ks = 1 .. Len(ks)
        /\ \A i \in 1 .. Len(ks) : ks[i] = b + i
    <3>. HIDE DEF b
    <3>. QED  BY <1>3, <2>2, <2>4, <2>6
  <2>8. l - b + 1 <= E - b
    <3>. HIDE DEF b, E, N
    <3>. QED  BY <1>1, <1>2, <1>3, <2>2, <2>5
  <2>9. ASSUME NEW i \in 1 .. Len(ks) PROVE Touching(img, b + i, off, n)
    <3>. DEFINE h == b + i - 1
    <3>1. h \in Nat /\ b <= h /\ h <= l /\ h + 1 = b + i
      <4>. HIDE DEF b, E, N
      <4>. QED  BY <1>3, <2>2, <2>7
    <3>2. b + i \in 1 .. N
      <4>. HIDE DEF b, E, N
      <4>1. i \in 1 .. l - b + 1
        BY <2>7
      <4>2. i <= l - b + 1 /\ 1 <= i /\ l + 1 <= N
        BY <1>1, <1>2, <2>2, <2>5, <2>7, <4>1
      <4>. QED  BY <1>1, <1>3, <2>2, <4>2
    <3>. HIDE DEF h, b, c
    <3>3. h * c \in Nat /\ b * c <= h * c /\ h * c <= l * c
      BY <1>1, <1>3, <2>2, <3>1, TimesMonotonic
    <3>4. h * c < off + n /\ off < h * c + c
      BY <1>1, <1>3, <2>1, <2>2, <2>3, <3>3
    <3>5. (b + i) - 1 = h
      BY <3>1
    <3>6. ((b + i) - 1) * c < off + n /\ off < ((b + i) - 1) * c + c
      BY <3>4, <3>5
    <3>. HIDE DEF N
    <3>. QED  BY <3>2, <3>6, Zenon DEF Touching, c, N
  <2>10. ASSUME NEW j \in 1 .. n PROVE \E i \in 1 .. Len(ks) : InChunk(img, b + i, off + j - 1)
    <3>. DEFINE y == off + j - 1
                d == y \div c
    <3>1. y \in Nat /\ off <= y /\ y <= x
      BY DEF x
    <3>. HIDE DEF y
    <3>2. d \in Nat /\ d * c <= y /\ y < d * c + c
      <4>. HIDE DEF c
      <4>. QED  BY <1>1, <3>1, DivBounds
    <3>. HIDE DEF d, c, b
    <3>3. d * c \in Nat /\ (d + 1) * c = d * c + c
      BY <1>1, <3>2
    <3>4. b <= d
      <4>1. b * c < (d + 1) * c
        BY <1>1, <1>3, <2>3, <3>1, <3>2, <3>3
      <4>. QED  BY <1>1, <1>3, <3>2, <4>1, TimesOrder
    <3>5. d <= l
      <4>1. d * c < (l + 1) * c
        BY <1>1, <2>1, <2>2, <2>3, <3>1, <3>2, <3>3
      <4>. QED  BY <1>1, <2>2, <3>2, <4>1, TimesOrder
    <3>6. d - b + 1 \in 1 .. Len(ks) /\ (b + (d - b + 1)) - 1 = d
      BY <1>3, <2>2, <2>7, <3>2, <3>4, <3>5
    <3>7. InChunk(img, b + (d - b + 1), y)
      BY <3>2, <3>6 DEF InChunk, c
    <3>. QED  BY <3>6, <3>7 DEF y
  <2>. HIDE DEF b, E, N
  <2>11. Len(ks) \in 0 .. E - b
    BY <1>5, <2>7, <2>8
  <2>. QED  BY <1>3, <1>5, <2>7, <2>9, <2>10, <2>11 DEF b, E, N, ks
<1>. QED  BY <1>6, <1>7


\* A task copies the bytes its chunk and the read have in common, each to its place.
LEMMA PartFacts ==
    ASSUME Covered, NEW k, NEW off \in Nat, NEW n \in Nat,
           off + n <= img.image_size, Touching(img, k, off, n)
    PROVE  /\ DecodedLen(k) \in Nat /\ BegIn(k, off) \in Nat /\ EndIn(k, off, n) \in Nat
           /\ (k - 1) * img.chunk_size \in Nat
           /\ \A j \in 1 .. n :
                LET at == j - ((k - 1) * img.chunk_size - off)
                IN  /\ at \in Int
                    /\ at \in BegIn(k, off) + 1 .. EndIn(k, off, n)
                            <=> InChunk(img, k, off + j - 1)
                    /\ at \in BegIn(k, off) + 1 .. EndIn(k, off, n) => at >= 1
<1>. DEFINE c == img.chunk_size
            size == img.image_size
            o == (k - 1) * c
            D == DecodedLen(k)
            B == BegIn(k, off)
            E == EndIn(k, off, n)
<1>1. c \in Nat \ {0} /\ size \in Nat /\ Len(img.chunks) \in Nat
  BY LenProperties DEF Covered
<1>2. k \in Nat \ {0} /\ o < off + n /\ off < o + c
  BY <1>1 DEF Touching
<1>3. o \in Nat
  <2>. DEFINE h == k - 1
  <2>1. h \in Nat
    BY <1>2
  <2>. HIDE DEF h, c
  <2>2. h * c \in Nat
    BY <1>1, <2>1
  <2>. QED  BY <2>2 DEF h
<1>4. D = Min({size - o, c}) /\ B = Max({off - o, 0}) /\ E = Min({off + n - o, D})
  BY DEF DecodedLen, BegIn, EndIn
<1>. HIDE DEF c, size, D, B, E
<1>5. \A j \in 1 .. n : InChunk(img, k, off + j - 1) <=> o <= off + j - 1 /\ off + j - 1 < o + c
  BY DEF InChunk, c
<1>6. off + n <= size
  BY DEF size
<1>. HIDE DEF o
<1>7. D = (IF size - o <= c THEN size - o ELSE c)
  BY <1>1, <1>3, <1>4, MinPair
<1>8. D \in Nat
  BY <1>1, <1>2, <1>3, <1>6, <1>7
<1>9. B = IF off - o <= 0 THEN 0 ELSE off - o
  BY <1>3, <1>4, MaxPair
<1>10. E = IF off + n - o <= D THEN off + n - o ELSE D
  <2>. DEFINE left == off + n - o
  <2>1. left \in Int /\ D \in Int /\ E = Min({left, D})
    BY <1>3, <1>4, <1>8
  <2>. HIDE DEF left
  <2>2. E = IF left <= D THEN left ELSE D
    BY <2>1, MinPair
  <2>. QED  BY <2>2 DEF left
<1>11. B \in Nat /\ E \in Nat
  BY <1>2, <1>3, <1>8, <1>9, <1>10
<1>12. ASSUME NEW j \in 1 .. n
       PROVE  /\ j - (o - off) \in Int
              /\ j - (o - off) \in B + 1 .. E <=> InChunk(img, k, off + j - 1)
              /\ j - (o - off) \in B + 1 .. E => j - (o - off) >= 1
  <2>. DEFINE at == j - (o - off)
  <2>1. at \in Int /\ at = j + off - o
    BY <1>3
  <2>. HIDE DEF at
  <2>2. at \in B + 1 .. E => at >= 1
    BY <1>11, <2>1
  <2>3. ASSUME at \in B + 1 .. E PROVE o <= off + j - 1 /\ off + j - 1 < o + c
    <3>1. 1 <= at /\ at <= D
      BY <1>8, <1>10, <1>11, <1>3, <2>1, <2>3
    <3>2. D <= c
      BY <1>1, <1>3, <1>7
    <3>. QED  BY <1>1, <1>3, <1>8, <2>1, <3>1, <3>2
  <2>4. ASSUME o <= off + j - 1, off + j - 1 < o + c PROVE at \in B + 1 .. E
    <3>1. at >= B + 1
      BY <1>3, <1>9, <2>1, <2>4
    <3>2. at <= D
      BY <1>1, <1>3, <1>6, <1>7, <2>1, <2>4
    <3>3. at <= off + n - o
      BY <1>3, <2>1
    <3>. QED  BY <1>3, <1>8, <1>10, <1>11, <2>1, <3>1, <3>2, <3>3
  <2>5. at \in B + 1 .. E <=> InChunk(img, k, off + j - 1)
    BY <1>5, <2>3, <2>4
  <2>. QED  BY <2>1, <2>2, <2>5 DEF at
<1>. QED  BY <1>3, <1>8, <1>11, <1>12 DEF c, D, B, E, o


-----------------------------------------------------------------------------
(* The image and the payloads of its chunks.                               *)

\* What the checks at the end of open_impl leave of an image that opens.
LEMMA OpenImplFacts ==
    ASSUME NEW files, NEW ignore, open_impl(files, ignore) # Refused
    PROVE  /\ open_impl(files, ignore).ok = TRUE
           /\ open_impl(files, ignore).chunk_size # 0
           /\ ~(open_impl(files, ignore).image_size
                    > Len(open_impl(files, ignore).chunks) * open_impl(files, ignore).chunk_size)
<1>. DEFINE meta == process_segments(files)
            im == open_impl(files, ignore)
<1>1. /\ ~validate_volume(meta.volume)
      /\ Len(meta.chunks) = meta.volume.chunk_count
      /\ ~validate_chunk_coverage(max_offset(meta.volume), Len(meta.chunks),
                                  chunk_size(meta.volume))
      /\ im = [ok |-> TRUE, chunks |-> meta.chunks,
               chunk_size |-> chunk_size(meta.volume),
               image_size |-> max_offset(meta.volume),
               md5 |-> meta.md5, sha1 |-> meta.sha1,
               segments |-> Len(files)]
  BY DEF open_impl
<1>. HIDE DEF meta, im
<1>2. /\ im.ok = TRUE /\ im.chunks = meta.chunks
      /\ im.chunk_size = chunk_size(meta.volume) /\ im.image_size = max_offset(meta.volume)
  BY <1>1
<1>3. im.chunk_size # 0
  BY <1>1, <1>2 DEF validate_volume
<1>4. ~(im.image_size > Len(im.chunks) * im.chunk_size)
  BY <1>1, <1>2 DEF validate_chunk_coverage
<1>. QED  BY <1>2, <1>3, <1>4 DEF im

\* An image that opens has a chunk table that covers it.
LEMMA OutcomeFacts ==
    ASSUME NEW c \in Configs, Outcome(c) # Refused
    PROVE  /\ Outcome(c).ok = TRUE
           /\ Outcome(c).chunk_size \in Nat \ {0} /\ Outcome(c).image_size \in Nat
           /\ Outcome(c).chunks \in Seq(Chunk)
           /\ Outcome(c).image_size <= Len(Outcome(c).chunks) * Outcome(c).chunk_size
<1>1. PICK files : Outcome(c) = open_impl(files, c.ignore)
  BY DEF Outcome, open_glob
<1>. DEFINE im == Outcome(c)
<1>2. /\ im.ok = TRUE /\ im.chunk_size # 0
      /\ ~(im.image_size > Len(im.chunks) * im.chunk_size)
  BY <1>1, OpenImplFacts
<1>3. im.chunk_size \in Nat /\ im.image_size \in Nat /\ im.chunks \in Seq(Chunk)
  BY ImageAssumption
<1>. HIDE DEF im
<1>4. im.image_size <= Len(im.chunks) * im.chunk_size
  <2>. DEFINE m == Len(im.chunks) * im.chunk_size
  <2>1. m \in Nat
    BY <1>3, LenProperties
  <2>. HIDE DEF m
  <2>. QED  BY <1>2, <1>3, <2>1 DEF m
<1>. QED  BY <1>2, <1>3, <1>4 DEF im

\* An image that opens has chunks for all of its bytes.
LEMMA ImageFacts ==
    ASSUME config \in Configs, img = Outcome(config), img.ok
    PROVE  Covered /\ img # Refused
<1>1. Outcome(config) # Refused
  BY DEF Refused
<1>. QED  BY <1>1, OutcomeFacts DEF Covered

\* The byte at position i of chunk k, counted from 0, as its entry and the policy have it.
ByteIn(k, i) ==
    LET c == img.chunks[k]
        keeps == config.policy = "RawIfPossible" /\ ~c.compressed
    IN  IF k \in config.bad /\ ~keeps THEN Zero ELSE <<c.segment, c.data_offset, i>>

\* The first bytes of a chunk are bytes.
LEMMA OwnFacts ==
    ASSUME Covered, NEW k \in 1 .. Len(img.chunks), NEW n \in Nat
    PROVE  Own(k, n) \in Seq(Bytes) /\ Len(Own(k, n)) = n
<1>. DEFINE ch == img.chunks[k]
            p == [i \in 1 .. n |-> <<ch.segment, ch.data_offset, i - 1>>]
<1>1. ch \in Chunk
  BY ElementOfSeq DEF Covered
<1>2. ch.segment \in Nat /\ ch.data_offset \in Nat
  BY <1>1 DEF Chunk
<1>. HIDE DEF ch
<1>3. \A i \in 1 .. n : <<ch.segment, ch.data_offset, i - 1>> \in Bytes
  BY <1>2 DEF Bytes
<1>4. p \in [1 .. n -> Bytes]
  BY <1>3
<1>5. Own(k, n) = p
  BY DEF Own, ch
<1>. HIDE DEF p
<1>. QED  BY <1>4, <1>5

\* A chunk that is given up is zero as far as it goes, and an error under Error.
LEMMA GivenUpFacts ==
    ASSUME NEW n \in Nat, GivenUp(n) # Absent
    PROVE  /\ GivenUp(n) \in Seq(Bytes) /\ Len(GivenUp(n)) = n
           /\ GivenUp(n) = [i \in 1 .. n |-> Zero] /\ config.policy # "Error"
<1>1. GivenUp(n) = [i \in 1 .. n |-> Zero] /\ config.policy # "Error"
  BY DEF GivenUp, Zeros
<1>. DEFINE p == [i \in 1 .. n |-> Zero]
<1>2. p \in [1 .. n -> Bytes]
  BY DEF Bytes
<1>. HIDE DEF p
<1>3. p \in Seq(Bytes) /\ Len(p) = n
  BY <1>2
<1>. QED  BY <1>1, <1>3 DEF p

\* The beginning of a sequence.
LEMMA HeadFacts ==
    ASSUME NEW A, NEW s \in Seq(A), NEW n \in Nat, n <= Len(s)
    PROVE  /\ SubSeq(s, 1, n) \in Seq(A) /\ Len(SubSeq(s, 1, n)) = n
           /\ \A i \in 1 .. n : SubSeq(s, 1, n)[i] = s[i]
<1>. DEFINE u == SubSeq(s, 1, n)
<1>1. Len(s) \in Nat /\ \A i \in 1 .. n : s[i] \in A
  BY LenProperties, ElementOfSeq
<1>2. /\ u \in Seq(A) /\ Len(u) = IF 1 <= n THEN n - 1 + 1 ELSE 0
      /\ \A i \in 1 .. n - 1 + 1 : u[i] = s[1 + i - 1]
  BY <1>1, SubSeqProperties
<1>. HIDE DEF u
<1>3. Len(u) = n /\ \A i \in 1 .. n : u[i] = s[i]
  BY <1>2
<1>. QED  BY <1>2, <1>3 DEF u

\* A worker's buffer is what is left in it, or gone.
LEMMA WorkerKinds == \A w \in Workers : w # Absent => w \in Seq(Bytes)
BY DEF Workers

\* What a compressed chunk inflates to.
LEMMA InflatedFacts ==
    ASSUME Covered, NEW k \in 1 .. Len(img.chunks), img.chunks[k].compressed,
           DecodedLen(k) \in Nat, NEW w \in Workers, Inflated(k, w) # Absent
    PROVE  /\ Inflated(k, w) \in Seq(Bytes) /\ Len(Inflated(k, w)) = DecodedLen(k)
           /\ ~CutShort(k) =>
                /\ \A i \in 1 .. DecodedLen(k) : Inflated(k, w)[i] = ByteIn(k, i - 1)
                /\ config.policy = "Error" => k \notin config.bad
<1>. DEFINE n == DecodedLen(k)
<1>1. CASE ~CutShort(k) /\ k \notin config.bad
  <2>1. Inflated(k, w) = Own(k, n)
    BY <1>1 DEF Inflated
  <2>2. \A i \in 1 .. n : Own(k, n)[i] = ByteIn(k, i - 1)
    BY <1>1 DEF Own, ByteIn
  <2>. QED  BY <1>1, <2>1, <2>2, OwnFacts
<1>2. CASE CutShort(k) /\ w # Absent /\ Len(w) >= n
  <2>1. Inflated(k, w) = SubSeq(w, 1, n)
    BY <1>2 DEF Inflated
  <2>2. w \in Seq(Bytes) /\ Len(w) \in Nat
    BY <1>2, WorkerKinds, LenProperties
  <2>. HIDE DEF n
  <2>3. n \in Nat /\ n <= Len(w)
    BY <1>2, <2>2 DEF n
  <2>4. Inflated(k, w) \in Seq(Bytes) /\ Len(Inflated(k, w)) = n
    BY <2>1, <2>2, <2>3, HeadFacts
  <2>. QED  BY <1>2, <2>4 DEF n
<1>3. CASE /\ ~(~CutShort(k) /\ k \notin config.bad)
           /\ ~(CutShort(k) /\ w # Absent /\ Len(w) >= n)
  <2>1. Inflated(k, w) = GivenUp(n)
    BY <1>3 DEF Inflated
  <2>2. /\ GivenUp(n) \in Seq(Bytes) /\ Len(GivenUp(n)) = n
        /\ GivenUp(n) = [i \in 1 .. n |-> Zero] /\ config.policy # "Error"
    BY <2>1, GivenUpFacts
  <2>3. ~CutShort(k) => \A i \in 1 .. n : GivenUp(n)[i] = ByteIn(k, i - 1)
    BY <1>3, <2>2 DEF ByteIn
  <2>. QED  BY <2>1, <2>2, <2>3
<1>. QED  BY <1>1, <1>2, <1>3

\* What a raw chunk holds.
LEMMA RawFacts ==
    ASSUME Covered, NEW k \in 1 .. Len(img.chunks), ~img.chunks[k].compressed,
           verify_uncompressed_payload(k) # Absent
    PROVE  LET p == verify_uncompressed_payload(k)
           IN  /\ p \in Seq(Bytes)
               /\ \A i \in 1 .. Len(p) : p[i] = ByteIn(k, i - 1)
               /\ config.policy = "Error" => k \notin config.bad
<1>. DEFINE ch == img.chunks[k]
            p == verify_uncompressed_payload(k)
            L == StoredLen(k)
            n == L - 4
            s == Stored(k)
<1>1. ch \in Chunk
  BY ElementOfSeq DEF Covered
<1>2. L \in Int
  BY <1>1 DEF Chunk, StoredLen
<1>3. ~(L < 5)
  BY DEF verify_uncompressed_payload
<1>. HIDE DEF L
<1>4. n \in Nat /\ n <= L /\ L \in Nat
  BY <1>2, <1>3
<1>5. s = Own(k, L)
  BY DEF Stored, Own, L
<1>6. s \in Seq(Bytes) /\ Len(s) = L
  BY <1>4, <1>5, OwnFacts
<1>7. \A i \in 1 .. n : s[i] = <<ch.segment, ch.data_offset, i - 1>>
  BY <1>4, <1>5 DEF Own
<1>. HIDE DEF s, n
<1>8. CASE k \notin config.bad \/ config.policy = "RawIfPossible"
  <2>1. p = SubSeq(s, 1, n)
    BY <1>3, <1>8 DEF verify_uncompressed_payload, L, n, s
  <2>. HIDE DEF p
  <2>2. p \in Seq(Bytes) /\ Len(p) = n /\ \A i \in 1 .. n : p[i] = s[i]
    BY <1>4, <1>6, <2>1, HeadFacts
  <2>3. \A i \in 1 .. n : p[i] = ByteIn(k, i - 1)
    BY <1>7, <1>8, <2>2 DEF ByteIn, ch
  <2>4. config.policy = "Error" => k \notin config.bad
    BY <1>8
  <2>. QED  BY <2>2, <2>3, <2>4 DEF p
<1>9. CASE k \in config.bad /\ config.policy # "RawIfPossible"
  <2>1. p = GivenUp(n)
    BY <1>3, <1>9 DEF verify_uncompressed_payload, L, n
  <2>2. p # Absent
    OBVIOUS
  <2>. HIDE DEF p
  <2>3. /\ p \in Seq(Bytes) /\ Len(p) = n
        /\ p = [i \in 1 .. n |-> Zero] /\ config.policy # "Error"
    BY <1>4, <2>1, <2>2, GivenUpFacts
  <2>4. \A i \in 1 .. n : p[i] = ByteIn(k, i - 1)
    BY <1>9, <2>3 DEF ByteIn
  <2>. QED  BY <2>3, <2>4 DEF p
<1>. QED  BY <1>8, <1>9

\* The payload of a chunk that is not cut short is its own whatever worker it is read
\* with, and nothing of a damaged one under Error; one that is cut short is as long.
LEMMA PayloadFacts ==
    ASSUME Covered, NEW k \in 1 .. Len(img.chunks), DecodedLen(k) \in Nat,
           NEW w \in Workers, Payload(k, w) # Absent
    PROVE  /\ Payload(k, w) \in Seq(Bytes)
           /\ ~CutShort(k) =>
                /\ \A i \in 1 .. Len(Payload(k, w)) : Payload(k, w)[i] = ByteIn(k, i - 1)
                /\ config.policy = "Error" => k \notin config.bad
           /\ CutShort(k) => Len(Payload(k, w)) = DecodedLen(k)
<1>1. CASE img.chunks[k].compressed
  <2>1. Payload(k, w) = Inflated(k, w)
    BY <1>1 DEF Payload
  <2>. QED  BY <1>1, <2>1, InflatedFacts
<1>2. CASE ~img.chunks[k].compressed
  <2>1. Payload(k, w) = verify_uncompressed_payload(k) /\ ~CutShort(k)
    BY <1>2 DEF Payload, CutShort
  <2>. QED  BY <1>2, <2>1, RawFacts
<1>. QED  BY <1>1, <1>2

\* A chunk that is not cut short comes to the same with any worker.
LEMMA SamePayload ==
    ASSUME NEW k, ~CutShort(k), NEW w
    PROVE  Payload(k, w) = Payload(k, <<>>)
BY DEF Payload, Inflated

-----------------------------------------------------------------------------
(* Workers.                                                                *)

\* A function on 1 .. m is a sequence of length m.
LEMMA FunctionIsSeq ==
    ASSUME NEW S, NEW m \in Nat, NEW f \in [1 .. m -> S]
    PROVE  f \in Seq(S) /\ Len(f) = m
OBVIOUS

\* A fresh worker.
LEMMA EmptyWorker == <<>> \in Workers /\ <<>> \in Seq(Bytes)
BY EmptySeq DEF Workers

\* A read gets as many workers as it asks for, from the pool first.
LEMMA CheckoutFacts ==
    ASSUME NEW A, <<>> \in A, pool \in Seq(A), NEW n \in Nat
    PROVE  LET w == checkout_workers(n)
           IN  /\ w.taken \in Seq(A) /\ Len(w.taken) = n
               /\ w.left \in Seq(A)
               /\ Len(w.left) = IF Len(pool) <= n THEN 0 ELSE Len(pool) - n
<1>. DEFINE P == Len(pool)
            keep == Max({P - n, 0})
            old == SubSeq(pool, keep + 1, P)
            new == [i \in 1 .. n - Len(old) |-> <<>>]
            left == SubSeq(pool, 1, keep)
<1>1. P \in Nat /\ \A i \in 1 .. P : pool[i] \in A
  BY LenProperties, ElementOfSeq
<1>2. keep = IF P <= n THEN 0 ELSE P - n
  <2>. HIDE DEF P
  <2>1. P - n \in Int /\ 0 \in Int
    BY <1>1
  <2>2. keep = IF P - n <= 0 THEN 0 ELSE P - n
    BY <2>1, MaxPair
  <2>. QED  BY <1>1, <2>2
<1>3. checkout_workers(n) = [taken |-> old \o new, left |-> left]
  BY DEF checkout_workers
<1>. HIDE DEF keep
<1>4. keep \in 0 .. P
  <2>. HIDE DEF P
  <2>. QED  BY <1>1, <1>2
<1>5. old \in Seq(A) /\ Len(old) = P - keep
  <2>1. \A i \in keep + 1 .. P : pool[i] \in A
    BY <1>1, <1>4
  <2>2. old \in Seq(A) /\ Len(old) = IF keep + 1 <= P THEN P - (keep + 1) + 1 ELSE 0
    BY <1>1, <1>4, <2>1, SubSeqProperties
  <2>. HIDE DEF old, P
  <2>. QED  BY <1>1, <1>4, <2>2
<1>6. left \in Seq(A) /\ Len(left) = keep
  <2>1. \A i \in 1 .. keep : pool[i] \in A
    BY <1>1, <1>4
  <2>2. left \in Seq(A) /\ Len(left) = IF 1 <= keep THEN keep - 1 + 1 ELSE 0
    BY <1>1, <1>4, <2>1, SubSeqProperties
  <2>. HIDE DEF left, P
  <2>. QED  BY <1>4, <2>2
<1>. HIDE DEF P, old, left
<1>7. n - Len(old) \in Nat /\ Len(old) \in Nat
  BY <1>1, <1>2, <1>4, <1>5
<1>8. new \in Seq(A) /\ Len(new) = n - Len(old)
  <2>. DEFINE l == n - Len(old)
  <2>1. new \in [1 .. l -> A] /\ l \in Nat
    BY <1>7
  <2>. HIDE DEF new, l
  <2>2. new \in Seq(A) /\ Len(new) = l
    BY <2>1, FunctionIsSeq
  <2>. QED  BY <2>2 DEF l
<1>. HIDE DEF new
<1>9. old \o new \in Seq(A) /\ Len(old \o new) = n
  <2>1. old \o new \in Seq(A) /\ Len(old \o new) = Len(old) + Len(new)
    BY <1>5, <1>8, ConcatProperties
  <2>. QED  BY <1>7, <1>8, <2>1
<1>. QED  BY <1>1, <1>2, <1>3, <1>6, <1>9 DEF P

-----------------------------------------------------------------------------
(* The invariant.                                                          *)

TaskStates == {"todo", "fetch", "insert", "ok", "err", "panic", "skipped"}

CallType ==
    [st : {"idle", "running", "ok", "err", "panic"}, off : Nat, len : Nat, n : Nat,
     made : 0 .. MaxCalls, workers : Seq(Workers), task : Seq(TaskStates), out : Seq(Bytes)]

\* The chunks that begin before the image ends.
InImage == {k \in 1 .. Len(img.chunks) : DecodedLen(k) \in Nat}

\* Their payloads, for every worker they may be read with.
Payloads == [k \in InImage |-> [w \in Workers |-> Payload(k, w)]]

\* The chunk of task i of call c, of image im.
ChunkAt(im, c, i) == c.off \div im.chunk_size + i

\* The part of the buffer that task i fills holds bytes of a payload of its chunk.
Filled(im, pay, c, i) ==
    LET k == ChunkAt(im, c, i)
    IN  \E w \in Workers :
            /\ pay[k][w] # Absent
            /\ \A j \in 1 .. c.n : InChunk(im, k, c.off + j - 1) =>
                LET at == j - ((k - 1) * im.chunk_size - c.off)
                IN  at \in 1 .. Len(pay[k][w]) /\ c.out[j] = pay[k][w][at]

\* A call that got past the checks: its tasks cover the buffer and those that are
\* done have filled their part.
InRange(im, c) ==
    /\ c.off + c.n <= im.image_size
    /\ c.n = Min({c.len, im.image_size - c.off})
    /\ Len(c.out) = c.n
    /\ \A i \in 1 .. Len(c.task) : Touching(im, ChunkAt(im, c, i), c.off, c.n)
    /\ \A j \in 1 .. c.n : \E i \in 1 .. Len(c.task) :
            InChunk(im, ChunkAt(im, c, i), c.off + j - 1)

Done(im, pay, c) ==
    /\ \A i \in 1 .. Len(c.task) : c.task[i] \in {"insert", "ok"} => Filled(im, pay, c, i)
    /\ \A i \in 1 .. Len(c.task) :
            c.task[i] = "insert" => pay[ChunkAt(im, c, i)][c.workers[i]] # Absent
    /\ \A i \in 1 .. Len(c.task) :
            c.task[i] = "skipped" => \E j \in 1 .. Len(c.task) : c.task[j] = "err"

CallOK(im, pay, c) ==
    /\ c \in CallType
    /\ c.n <= c.len
    /\ c.st \in {"running", "ok"} => InRange(im, c) /\ Done(im, pay, c)
    /\ c.st = "running" =>
        /\ Len(c.task) <= Len(c.workers)
        /\ Len(c.workers) <= Len(im.chunks)
    /\ c.st # "running" => c.workers = <<>>
    /\ c.st = "ok" => \A i \in 1 .. Len(c.task) : c.task[i] = "ok"

CallsInv ==
    /\ DOMAIN call = Threads /\ call = [t \in Threads |-> call[t]]
    /\ \A t \in Threads : CallOK(img, Payloads, call[t])

\* What the cache holds are payloads of the image's chunks.
Holds(cached, pay) ==
    \A k \in DOMAIN cached :
        k \in DOMAIN pay /\ \E w \in Workers : cached[k] = pay[k][w] /\ pay[k][w] # Absent

Lengths == [t \in Threads |-> Len(call[t].workers)]

PoolBound == Len(pool) + SumFunction(Lengths) <= Cardinality(Threads) * Len(img.chunks)

Ready == img # Absent /\ img.ok

Inv ==
    /\ config \in Configs
    /\ img = Absent \/ img = Outcome(config)
    /\ pool \in Seq(Workers)
    /\ poisoned \in BOOLEAN
    /\ CacheShape
    /\ Holds(chunks, Payloads)
    /\ CallsInv
    /\ ~Ready => /\ pool = <<>> /\ chunks = <<>>
                 /\ \A t \in Threads : call[t].st = "idle"
    /\ Ready => PoolBound


\* A running call goes on as the same read.
LEMMA CallGoesOn ==
    ASSUME NEW im, NEW pay, NEW c, CallOK(im, pay, c), c.st = "running",
           NEW d \in CallType, d.st = "running", d.off = c.off, d.len = c.len, d.n = c.n,
           Len(d.task) = Len(c.task), Len(d.workers) = Len(c.workers), Len(d.out) = Len(c.out),
           Done(im, pay, d)
    PROVE  CallOK(im, pay, d)
<1>1. InRange(im, c) /\ c.n <= c.len
  BY DEF CallOK
<1>2. \A i : ChunkAt(im, d, i) = ChunkAt(im, c, i)
  BY DEF ChunkAt
<1>3. InRange(im, d)
  BY <1>1, <1>2 DEF InRange
<1>. QED  BY <1>1, <1>3 DEF CallOK

\* Call c once its task i has come to st, with w in its worker.
WorkedOn(c, i, st, w) == [c EXCEPT !.task[i] = st, !.workers[i] = w]

\* A task that is not over takes a state that is true of it, and leaves w in its worker.
LEMMA TaskGoesOnOK ==
    ASSUME NEW im, NEW pay, NEW c, CallOK(im, pay, c), c.st = "running",
           NEW i \in 1 .. Len(c.task), c.task[i] # "err", NEW st \in TaskStates,
           NEW w \in Workers,
           st \in {"insert", "ok"} => Filled(im, pay, c, i),
           st = "insert" => pay[ChunkAt(im, c, i)][w] # Absent,
           st = "skipped" => \E j \in 1 .. Len(c.task) : c.task[j] = "err",
           NEW d, d = WorkedOn(c, i, st, w)
    PROVE  CallOK(im, pay, d) /\ Len(d.workers) = Len(c.workers)
<1>. DEFINE s == [c.task EXCEPT ![i] = st]
            ws == [c.workers EXCEPT ![i] = w]
<1>1. c \in CallType /\ Done(im, pay, c) /\ Len(c.task) <= Len(c.workers)
  BY DEF CallOK
<1>2. c.task \in Seq(TaskStates) /\ Len(c.task) \in Nat
      /\ c.workers \in Seq(Workers) /\ Len(c.workers) \in Nat
  BY <1>1, LenProperties DEF CallType
<1>3. s \in Seq(TaskStates) /\ Len(s) = Len(c.task)
      /\ ws \in Seq(Workers) /\ Len(ws) = Len(c.workers)
  <2>1. i \in 1 .. Len(c.workers)
    BY <1>1, <1>2
  <2>. QED  BY <1>2, <2>1, ExceptSeq
<1>4. \A j \in 1 .. Len(c.task) :
        /\ s[j] = IF j = i THEN st ELSE c.task[j]
        /\ ws[j] = IF j = i THEN w ELSE c.workers[j]
  BY <1>1, <1>2
<1>5. d = [st |-> c.st, off |-> c.off, len |-> c.len, n |-> c.n, made |-> c.made,
           workers |-> ws, task |-> s, out |-> c.out]
  <2>. DEFINE e == [c EXCEPT !.task[i] = st]
  <2>1. c = [st |-> c.st, off |-> c.off, len |-> c.len, n |-> c.n, made |-> c.made,
             workers |-> c.workers, task |-> c.task, out |-> c.out]
    BY <1>1 DEF CallType
  <2>. HIDE DEF s, ws
  <2>2. e = [st |-> c.st, off |-> c.off, len |-> c.len, n |-> c.n, made |-> c.made,
             workers |-> c.workers, task |-> s, out |-> c.out]
    BY <2>1 DEF s
  <2>3. d = [e EXCEPT !.workers = [e.workers EXCEPT ![i] = w]]
    BY DEF WorkedOn
  <2>. HIDE DEF e
  <2>4. [e.workers EXCEPT ![i] = w] = ws
    BY <2>2 DEF ws
  <2>. QED  BY <2>2, <2>3, <2>4
<1>. HIDE DEF s, ws
<1>6. /\ d \in CallType /\ d.st = "running" /\ d.off = c.off /\ d.len = c.len /\ d.n = c.n
      /\ d.workers = ws /\ d.out = c.out /\ d.task = s
  BY <1>1, <1>3, <1>5 DEF CallType
<1>7. \A j : Filled(im, pay, d, j) <=> Filled(im, pay, c, j)
  BY <1>6 DEF Filled, ChunkAt
<1>8. \A j : ChunkAt(im, d, j) = ChunkAt(im, c, j)
  BY <1>6 DEF ChunkAt
<1>9. ASSUME NEW j \in 1 .. Len(c.task)
      PROVE  /\ s[j] \in {"insert", "ok"} => Filled(im, pay, d, j)
             /\ s[j] = "insert" => pay[ChunkAt(im, d, j)][ws[j]] # Absent
             /\ s[j] = "skipped" => \E l \in 1 .. Len(c.task) : c.task[l] = "err"
  <2>1. CASE j = i
    BY <1>4, <1>7, <1>8, <2>1
  <2>2. CASE j # i
    BY <1>1, <1>4, <1>7, <1>8, <2>2 DEF Done
  <2>. QED  BY <2>1, <2>2
<1>10. ASSUME NEW l \in 1 .. Len(c.task), c.task[l] = "err" PROVE s[l] = "err"
  BY <1>4, <1>10
<1>11. Done(im, pay, d)
  BY <1>3, <1>6, <1>9, <1>10 DEF Done
<1>12. CallOK(im, pay, d)
  BY <1>3, <1>6, <1>11, CallGoesOn
<1>. QED  BY <1>3, <1>6, <1>12

\* The buffer of call c once its task i has copied payload p.
CopiedInto(c, i, p) ==
    LET k    == ChunkAt(img, c, i)
        base == (k - 1) * img.chunk_size - c.off
    IN  [j \in 1 .. c.n |-> IF j - base \in BegIn(k, c.off) + 1 .. EndIn(k, c.off, c.n)
                            THEN p[j - base] ELSE c.out[j]]

\* Call c once its task i has copied payload p and come to st, with w in its worker.
CopiedOn(c, i, st, w, p) ==
    [c EXCEPT !.task[i] = st, !.workers[i] = w, !.out = CopiedInto(c, i, p)]

\* A task that copies its chunk's payload fills its part and disturbs no other.
LEMMA CopyOK ==
    ASSUME Covered, NEW c, CallOK(img, Payloads, c), c.st = "running",
           NEW i \in 1 .. Len(c.task), c.task[i] # "err", NEW p, NEW v \in Workers,
           p = Payloads[ChunkAt(img, c, i)][v], p # Absent,
           EndIn(ChunkAt(img, c, i), c.off, c.n) <= Len(p), NEW st \in {"insert", "ok"},
           NEW w \in Workers, st = "insert" => w = v, NEW d,
           d = CopiedOn(c, i, st, w, p)
    PROVE  CallOK(img, Payloads, d) /\ Len(d.workers) = Len(c.workers)
<1>. DEFINE k == ChunkAt(img, c, i)
            new == CopiedInto(c, i, p)
            f == [c EXCEPT !.out = new]
            o == (k - 1) * img.chunk_size
            B == BegIn(k, c.off)
            E == EndIn(k, c.off, c.n)
<1>1. c \in CallType /\ InRange(img, c) /\ Done(img, Payloads, c)
  BY DEF CallOK
<1>2. /\ c.off \in Nat /\ c.n \in Nat /\ c.out \in Seq(Bytes) /\ c.task \in Seq(TaskStates)
      /\ Len(c.out) = c.n /\ c.off + c.n <= img.image_size
      /\ Len(c.task) \in Nat
      /\ \A m \in 1 .. Len(c.task) : Touching(img, ChunkAt(img, c, m), c.off, c.n)
  BY <1>1, LenProperties DEF CallType, InRange
<1>3. /\ k \in 1 .. Len(img.chunks) /\ DecodedLen(k) \in Nat /\ B \in Nat /\ E \in Nat
      /\ \A j \in 1 .. c.n :
            /\ j - (o - c.off) \in Int
            /\ j - (o - c.off) \in B + 1 .. E <=> InChunk(img, k, c.off + j - 1)
            /\ j - (o - c.off) \in B + 1 .. E => j - (o - c.off) >= 1
  <2>1. Touching(img, k, c.off, c.n)
    BY <1>2
  <2>. HIDE DEF k
  <2>. QED  BY <1>2, <2>1, PartFacts DEF Touching
<1>4. p = Payload(k, v)
  BY <1>3 DEF Payloads, InImage
<1>5. p \in Seq(Bytes) /\ Len(p) \in Nat /\ \A l \in 1 .. Len(p) : p[l] \in Bytes
  <2>. HIDE DEF k
  <2>1. p \in Seq(Bytes)
    BY <1>3, <1>4, PayloadFacts
  <2>. QED  BY <2>1, LenProperties, ElementOfSeq
<1>6. ASSUME NEW j \in 1 .. c.n, InChunk(img, k, c.off + j - 1)
      PROVE  j - (o - c.off) \in 1 .. Len(p) /\ new[j] = p[j - (o - c.off)]
  <2>. DEFINE at == j - (o - c.off)
  <2>1. at \in Int /\ at \in B + 1 .. E /\ at >= 1
    BY <1>3, <1>6
  <2>2. new[j] = p[at]
    BY <2>1 DEF CopiedInto
  <2>3. E <= Len(p)
    OBVIOUS
  <2>. HIDE DEF at, new, B, E, o
  <2>4. at \in 1 .. Len(p)
    BY <1>3, <1>5, <2>1, <2>3
  <2>. QED  BY <2>2, <2>4 DEF at
<1>7. ASSUME NEW j \in 1 .. c.n, ~InChunk(img, k, c.off + j - 1)
      PROVE  new[j] = c.out[j]
  <2>1. j - (o - c.off) \notin B + 1 .. E
    BY <1>3, <1>7
  <2>. QED  BY <2>1 DEF CopiedInto
<1>8. new = [j \in 1 .. c.n |-> new[j]]
  BY DEF CopiedInto
<1>. HIDE DEF new
<1>9. new \in Seq(Bytes) /\ Len(new) = c.n
  <2>1. ASSUME NEW j \in 1 .. c.n PROVE new[j] \in Bytes
    <3>1. c.out[j] \in Bytes
      BY <1>2, ElementOfSeq
    <3>. HIDE DEF o, k
    <3>2. CASE InChunk(img, k, c.off + j - 1)
      BY <1>5, <1>6, <3>2
    <3>. QED  BY <1>7, <3>1, <3>2
  <2>2. new \in [1 .. c.n -> Bytes]
    BY <1>8, <2>1
  <2>. QED  BY <1>2, <2>2, FunctionIsSeq
<1>10. /\ f \in CallType /\ f.st = "running" /\ f.off = c.off /\ f.len = c.len /\ f.n = c.n
       /\ f.workers = c.workers /\ f.task = c.task /\ f.out = new
  BY <1>1, <1>9 DEF CallType
<1>. HIDE DEF f
<1>11. \A m : ChunkAt(img, f, m) = ChunkAt(img, c, m)
  BY <1>10 DEF ChunkAt
<1>12. Filled(img, Payloads, f, i)
  <2>1. f.n = c.n /\ f.off = c.off /\ f.out = new /\ ChunkAt(img, f, i) = k
    BY <1>10, <1>11
  <2>2. Payloads[k][v] = p
    OBVIOUS
  <2>. HIDE DEF o, k
  <2>. QED  BY <1>6, <2>1, <2>2 DEF Filled, o
<1>13. ASSUME NEW m \in 1 .. Len(c.task), m # i, Filled(img, Payloads, c, m)
       PROVE  Filled(img, Payloads, f, m)
  <2>. DEFINE km == ChunkAt(img, c, m)
  <2>1. km \in Nat \ {0} /\ k \in Nat \ {0} /\ km # k
    <3>1. km \in 1 .. Len(img.chunks) /\ Len(img.chunks) \in Nat
      BY <1>2, LenProperties DEF Touching, Covered
    <3>2. c.off \div img.chunk_size \in Nat
      BY <1>2, ChunkOfByte
    <3>3. km # k
      <4>. DEFINE b == c.off \div img.chunk_size
      <4>1. km = b + m /\ k = b + i
        BY DEF ChunkAt
      <4>. HIDE DEF b, km, k
      <4>2. b \in Nat
        BY <3>2 DEF b
      <4>. QED  BY <1>2, <1>13, <4>1, <4>2
    <3>. HIDE DEF km, k
    <3>. QED  BY <1>3, <3>1, <3>3
  <2>2. ASSUME NEW j \in 1 .. c.n, InChunk(img, km, c.off + j - 1)
        PROVE  new[j] = c.out[j]
    <3>. DEFINE pos == c.off + j - 1
    <3>1. pos \in Nat
      BY <1>2
    <3>. HIDE DEF km, k
    <3>2. \A l \in Nat \ {0} : InChunk(img, l, pos) <=> l = pos \div img.chunk_size + 1
      <4>. HIDE DEF pos
      <4>. QED  BY <3>1, ChunkOfByte
    <3>3. ~InChunk(img, k, pos)
      BY <2>1, <2>2, <3>2
    <3>. QED  BY <1>7, <3>3
  <2>3. PICK u \in Workers :
          /\ Payloads[km][u] # Absent
          /\ \A j \in 1 .. c.n : InChunk(img, km, c.off + j - 1) =>
                LET at == j - ((km - 1) * img.chunk_size - c.off)
                IN  at \in 1 .. Len(Payloads[km][u]) /\ c.out[j] = Payloads[km][u][at]
    BY <1>13 DEF Filled
  <2>4. f.n = c.n /\ f.off = c.off /\ f.out = new /\ ChunkAt(img, f, m) = km
    BY <1>10, <1>11
  <2>. HIDE DEF km
  <2>. QED  BY <2>2, <2>3, <2>4 DEF Filled
<1>14. Done(img, Payloads, f)
  <2>1. ASSUME NEW m \in 1 .. Len(f.task), f.task[m] \in {"insert", "ok"}
        PROVE  Filled(img, Payloads, f, m)
    <3>1. m \in 1 .. Len(c.task) /\ Filled(img, Payloads, c, m)
      BY <1>1, <1>10, <2>1 DEF Done
    <3>2. CASE m = i
      BY <1>12, <3>2
    <3>. QED  BY <1>13, <3>1, <3>2
  <2>. QED  BY <1>1, <1>10, <1>11, <2>1 DEF Done
<1>15. CallOK(img, Payloads, f)
  BY <1>2, <1>9, <1>10, <1>14, CallGoesOn
<1>. DEFINE g == [f EXCEPT !.task[i] = st, !.workers[i] = w]
<1>16. CallOK(img, Payloads, g) /\ Len(g.workers) = Len(c.workers)
  <2>1. st \in TaskStates /\ st # "skipped"
    BY DEF TaskStates
  <2>2. st = "insert" => Payloads[ChunkAt(img, f, i)][w] # Absent
    BY <1>11
  <2>3. f.st = "running" /\ f.task = c.task /\ f.workers = c.workers
    BY <1>10
  <2>4. PICK h : h = g
    OBVIOUS
  <2>. HIDE DEF g
  <2>5. h = WorkedOn(f, i, st, w)
    BY <2>4 DEF g, WorkedOn
  <2>6. CallOK(img, Payloads, h) /\ Len(h.workers) = Len(f.workers)
    BY <1>12, <1>15, <2>1, <2>2, <2>3, <2>5, TaskGoesOnOK
  <2>. QED  BY <2>3, <2>4, <2>6
<1>17. d = g
  <2>. DEFINE ws == [c.workers EXCEPT ![i] = w]
              ts == [c.task EXCEPT ![i] = st]
              e == [c EXCEPT !.task[i] = st, !.workers[i] = w]
              e1 == [c EXCEPT !.task[i] = st]
              f1 == [f EXCEPT !.task[i] = st]
  <2>1. c = [st |-> c.st, off |-> c.off, len |-> c.len, n |-> c.n, made |-> c.made,
             workers |-> c.workers, task |-> c.task, out |-> c.out]
    BY <1>1 DEF CallType
  <2>2. f = [st |-> c.st, off |-> c.off, len |-> c.len, n |-> c.n, made |-> c.made,
             workers |-> c.workers, task |-> c.task, out |-> new]
    BY <2>1 DEF f
  <2>3. f1 = [st |-> c.st, off |-> c.off, len |-> c.len, n |-> c.n, made |-> c.made,
             workers |-> c.workers, task |-> ts, out |-> new]
    BY <2>2
  <2>4. e1 = [st |-> c.st, off |-> c.off, len |-> c.len, n |-> c.n, made |-> c.made,
             workers |-> c.workers, task |-> ts, out |-> c.out]
    BY <2>1
  <2>5. g = [f1 EXCEPT !.workers = [f1.workers EXCEPT ![i] = w]]
    OBVIOUS
  <2>6. e = [e1 EXCEPT !.workers = [e1.workers EXCEPT ![i] = w]]
    OBVIOUS
  <2>7. d = [e EXCEPT !.out = new]
    BY DEF new, CopiedOn
  <2>. HIDE DEF e, g, e1, f1, ts
  <2>8. g = [st |-> c.st, off |-> c.off, len |-> c.len, n |-> c.n, made |-> c.made,
             workers |-> ws, task |-> ts, out |-> new]
    BY <2>3, <2>5
  <2>9. e = [st |-> c.st, off |-> c.off, len |-> c.len, n |-> c.n, made |-> c.made,
             workers |-> ws, task |-> ts, out |-> c.out]
    BY <2>4, <2>6
  <2>. QED  BY <2>7, <2>8, <2>9
<1>. HIDE DEF g
<1>. QED  BY <1>16, <1>17


-----------------------------------------------------------------------------
(* What a step leaves alone.                                               *)

\* The payloads depend on the image alone.
LEMMA PayloadsKept == ASSUME UNCHANGED <<config, img>> PROVE Payloads' = Payloads
<1>1. ASSUME NEW k PROVE CutShort(k)' <=> CutShort(k)
  BY DEF CutShort, StoredLen
<1>2. ASSUME NEW k, NEW w PROVE Inflated(k, w)' = Inflated(k, w)
  BY <1>1 DEF Inflated, Own, GivenUp, DecodedLen
<1>3. ASSUME NEW k PROVE verify_uncompressed_payload(k)' = verify_uncompressed_payload(k)
  BY DEF verify_uncompressed_payload, StoredLen, Stored, GivenUp
<1>4. ASSUME NEW k, NEW w PROVE Payload(k, w)' = Payload(k, w)
  BY <1>2, <1>3 DEF Payload
<1>5. InImage' = InImage
  BY DEF InImage, DecodedLen
<1>. QED  BY <1>4, <1>5 DEF Payloads

\* One call becomes c; the others stay.
LEMMA CallsKept ==
    ASSUME CallsInv, UNCHANGED <<config, img>>, NEW t \in Threads, NEW c,
           CallOK(img, Payloads, c), call' = [call EXCEPT ![t] = c]
    PROVE  CallsInv'
<1>1. Payloads' = Payloads
  BY PayloadsKept
<1>2. /\ DOMAIN call' = Threads /\ call' = [u \in Threads |-> call'[u]]
      /\ \A u \in Threads : call'[u] = IF u = t THEN c ELSE call[u]
  BY DEF CallsInv
<1>3. \A u \in Threads : CallOK(img, Payloads, call'[u])
  BY <1>2 DEF CallsInv
<1>. QED  BY <1>1, <1>2, <1>3 DEF CallsInv

\* No call has more workers than the image has chunks.
LEMMA LengthsOfCalls ==
    ASSUME NEW im, NEW pay, NEW cs, Len(im.chunks) \in Nat,
           \A t \in Threads : CallOK(im, pay, cs[t]),
           NEW l, l = [t \in Threads |-> Len(cs[t].workers)]
    PROVE  /\ l \in [Threads -> Nat] /\ SumFunction(l) \in Nat
           /\ SumFunction(l) <= Cardinality(Threads) * Len(im.chunks)
<1>1. ASSUME NEW t \in Threads
      PROVE  Len(cs[t].workers) \in Nat /\ Len(cs[t].workers) <= Len(im.chunks)
  <2>1. CallOK(im, pay, cs[t])
    OBVIOUS
  <2>2. Len(cs[t].workers) \in Nat
    BY <2>1, LenProperties DEF CallOK, CallType
  <2>3. CASE cs[t].st = "running"
    BY <2>1, <2>2, <2>3 DEF CallOK
  <2>4. CASE cs[t].st # "running"
    <3>1. cs[t].workers = <<>>
      BY <2>1, <2>4 DEF CallOK
    <3>2. Len(cs[t].workers) = 0
      BY <3>1
    <3>. QED  BY <2>2, <3>2
  <2>. QED  BY <2>3, <2>4
<1>2. l \in [Threads -> Nat] /\ \A t \in Threads : l[t] <= Len(im.chunks)
  BY <1>1
<1>3. SumFunction(l) \in Nat /\ SumFunction(l) <= Cardinality(Threads) * Len(im.chunks)
  BY <1>2, SumBounds, E01Assumption
<1>. QED  BY <1>2, <1>3

\* The workers of all threads are no more than the chunks times the threads.
LEMMA LengthsFacts ==
    ASSUME CallsInv, Len(img.chunks) \in Nat
    PROVE  /\ Lengths \in [Threads -> Nat] /\ SumFunction(Lengths) \in Nat
           /\ SumFunction(Lengths) <= Cardinality(Threads) * Len(img.chunks)
BY LengthsOfCalls DEF CallsInv, Lengths

\* The workers that are out change by what the one call's do.
LEMMA LengthsChange ==
    ASSUME CallsInv, CallsInv', UNCHANGED <<config, img>>, Len(img.chunks) \in Nat,
           NEW t \in Threads, NEW c, call' = [call EXCEPT ![t] = c]
    PROVE  SumFunction(Lengths') = SumFunction(Lengths) - Len(call[t].workers) + Len(c.workers)
<1>1. Lengths \in [Threads -> Nat]
  BY LengthsFacts
<1>2. Lengths' \in [Threads -> Nat]
  <2>1. ASSUME NEW u \in Threads PROVE Len(call'[u].workers) \in Nat
    <3>1. call'[u] \in CallType
      BY DEF CallsInv, CallOK
    <3>. QED  BY <3>1, LenProperties DEF CallType
  <2>. QED  BY <2>1 DEF Lengths
<1>3. Lengths[t] = Len(call[t].workers) /\ Lengths'[t] = Len(c.workers)
  BY DEF Lengths, CallsInv
<1>4. \A u \in Threads : u # t => Lengths'[u] = Lengths[u]
  BY DEF Lengths, CallsInv
<1>. QED  BY <1>1, <1>2, <1>3, <1>4, SumChange, E01Assumption

\* A step of one call that keeps its workers and the pool.
LEMMA StepOfCall ==
    ASSUME Inv, Ready, NEW t \in Threads, NEW c, call' = [call EXCEPT ![t] = c],
           CallOK(img, Payloads, c), Len(c.workers) = Len(call[t].workers),
           UNCHANGED <<config, img, pool>>, poisoned' \in BOOLEAN,
           CacheShape', Holds(chunks', Payloads)
    PROVE  Inv'
<1>1. Covered /\ CallsInv /\ PoolBound /\ Len(img.chunks) \in Nat
  BY ImageFacts, LenProperties DEF Inv, Ready, Covered
<1>2. CallsInv' /\ Payloads' = Payloads
  BY <1>1, CallsKept, PayloadsKept
<1>3. PoolBound'
  <2>1. SumFunction(Lengths') = SumFunction(Lengths)
    <3>1. SumFunction(Lengths') = SumFunction(Lengths) - Len(call[t].workers) + Len(c.workers)
      BY <1>1, <1>2, LengthsChange
    <3>2. SumFunction(Lengths) \in Nat /\ Len(call[t].workers) \in Nat
      BY <1>1, LengthsFacts, LenProperties DEF CallsInv, CallOK, CallType
    <3>. QED  BY <3>1, <3>2
  <2>. QED  BY <1>1, <2>1 DEF PoolBound
<1>. QED  BY <1>2, <1>3 DEF Inv, Ready

\* A call under way is one of an image that is open.
LEMMA RunningFacts ==
    ASSUME Inv, NEW t \in Threads, call[t].st = "running"
    PROVE  Ready /\ Covered /\ CallsInv /\ CallOK(img, Payloads, call[t])
<1>1. Ready
  BY DEF Inv
<1>. QED  BY <1>1, ImageFacts DEF Inv, Ready, CallsInv

\* The chunk a task works on is in the image, and its payload is that of the table.
LEMMA TaskChunkFacts ==
    ASSUME Inv, NEW t \in Threads, call[t].st = "running", NEW i \in DOMAIN call[t].task
    PROVE  /\ i \in 1 .. Len(call[t].task)
           /\ ChunkOf(t, i) = ChunkAt(img, call[t], i)
           /\ ChunkOf(t, i) \in 1 .. Len(img.chunks)
           /\ ChunkOf(t, i) \in Nat /\ ChunkOf(t, i) \in InImage
           /\ \A w \in Workers : Payloads[ChunkOf(t, i)][w] = Payload(ChunkOf(t, i), w)
           /\ i \in 1 .. Len(call[t].workers)
           /\ call[t].workers[i] \in Workers
<1>1. Covered /\ CallOK(img, Payloads, call[t])
  BY RunningFacts
<1>2. i \in 1 .. Len(call[t].task)
  BY <1>1, LenProperties DEF CallOK, CallType
<1>3. ChunkOf(t, i) = ChunkAt(img, call[t], i)
  BY DEF ChunkOf, BegChunk, ChunkAt
<1>4. ChunkOf(t, i) \in 1 .. Len(img.chunks)
  BY <1>1, <1>2, <1>3 DEF CallOK, InRange, Touching
<1>5. ChunkOf(t, i) \in Nat
  <2>1. Len(img.chunks) \in Nat
    BY <1>1, LenProperties DEF Covered
  <2>. QED  BY <1>4, <2>1
<1>6. i \in 1 .. Len(call[t].workers) /\ call[t].workers[i] \in Workers
  <2>. DEFINE ws == call[t].workers
  <2>1. /\ ws \in Seq(Workers) /\ call[t].task \in Seq(TaskStates)
        /\ Len(call[t].task) <= Len(ws)
    BY <1>1 DEF CallOK, CallType
  <2>2. Len(ws) \in Nat /\ Len(call[t].task) \in Nat
    BY <2>1, LenProperties
  <2>3. i \in 1 .. Len(ws)
    BY <1>2, <2>1, <2>2
  <2>. HIDE DEF ws
  <2>4. ws[i] \in Workers
    BY <2>1, <2>3, ElementOfSeq
  <2>. QED  BY <2>3, <2>4 DEF ws
<1>7. DecodedLen(ChunkOf(t, i)) \in Nat
  <2>. DEFINE c == call[t]
              k == ChunkOf(t, i)
  <2>1. c.off \in Nat /\ c.n \in Nat /\ c.off + c.n <= img.image_size
    BY <1>1 DEF CallOK, CallType, InRange
  <2>2. Touching(img, k, c.off, c.n)
    BY <1>1, <1>2, <1>3 DEF CallOK, InRange
  <2>. HIDE DEF c, k
  <2>3. DecodedLen(k) \in Nat
    BY <1>1, <2>1, <2>2, PartFacts
  <2>. QED  BY <2>3 DEF k
<1>8. ChunkOf(t, i) \in InImage
  BY <1>4, <1>7 DEF InImage
<1>. QED  BY <1>2, <1>3, <1>4, <1>5, <1>6, <1>8 DEF Payloads


\* A task's part of its chunk, in numbers.
LEMMA TaskFits ==
    ASSUME Inv, NEW t \in Threads, call[t].st = "running", NEW i \in DOMAIN call[t].task
    PROVE  /\ Covered /\ ChunkOf(t, i) \in 1 .. Len(img.chunks)
           /\ DecodedLen(ChunkOf(t, i)) \in Nat
           /\ EndInChunk(t, i) \in Nat
<1>. DEFINE c == call[t]
            k == ChunkOf(t, i)
<1>1. /\ Covered /\ CallOK(img, Payloads, c) /\ i \in 1 .. Len(c.task)
      /\ k = ChunkAt(img, c, i) /\ k \in 1 .. Len(img.chunks)
  BY RunningFacts, TaskChunkFacts
<1>2. c.off \in Nat /\ c.n \in Nat /\ c.off + c.n <= img.image_size
  BY <1>1 DEF CallOK, CallType, InRange
<1>3. Touching(img, k, c.off, c.n)
  BY <1>1 DEF CallOK, InRange
<1>4. EndInChunk(t, i) = EndIn(k, c.off, c.n)
  BY DEF EndInChunk
<1>. HIDE DEF c, k
<1>5. DecodedLen(k) \in Nat /\ EndIn(k, c.off, c.n) \in Nat
  BY <1>1, <1>2, <1>3, PartFacts
<1>. QED  BY <1>1, <1>4, <1>5 DEF k


-----------------------------------------------------------------------------
(* The steps keep the invariant.                                           *)

\* A task goes on to st and leaves w in its worker.
GoesOn(t, i, st, w) ==
    call' = [call EXCEPT ![t] = [@ EXCEPT !.task[i] = st, !.workers[i] = w]]

\* A step in which a task goes on and copies nothing.
LEMMA TaskStepInv ==
    ASSUME Inv, NEW t \in Threads, call[t].st = "running", NEW i \in DOMAIN call[t].task,
           call[t].task[i] # "err", NEW st \in TaskStates, NEW w \in Workers, st # "insert",
           st = "ok" => Filled(img, Payloads, call[t], i),
           st = "skipped" => \E j \in 1 .. Len(call[t].task) : call[t].task[j] = "err",
           GoesOn(t, i, st, w), UNCHANGED <<config, img, pool>>, poisoned' \in BOOLEAN,
           CacheShape', Holds(chunks', Payloads)
    PROVE  Inv'
<1>. DEFINE c == call[t]
            d == [c EXCEPT !.task[i] = st, !.workers[i] = w]
<1>1. Ready /\ CallOK(img, Payloads, c) /\ i \in 1 .. Len(c.task)
  BY RunningFacts, TaskChunkFacts
<1>2. CallOK(img, Payloads, d) /\ Len(d.workers) = Len(c.workers)
  <2>1. c.st = "running" /\ c.task[i] # "err"
    BY DEF c
  <2>2. /\ st \in {"insert", "ok"} => Filled(img, Payloads, c, i)
        /\ st = "skipped" => \E j \in 1 .. Len(c.task) : c.task[j] = "err"
    BY DEF c
  <2>3. d = WorkedOn(c, i, st, w)
    BY DEF WorkedOn
  <2>. HIDE DEF c, d
  <2>. QED  BY <1>1, <2>1, <2>2, <2>3, TaskGoesOnOK
<1>3. call' = [call EXCEPT ![t] = d]
  BY DEF GoesOn
<1>. HIDE DEF d
<1>. QED  BY <1>1, <1>2, <1>3, StepOfCall

\* A task that only sets its state leaves what its worker has.
LEMMA SetTaskGoesOn ==
    ASSUME Inv, NEW t \in Threads, call[t].st = "running", NEW i \in DOMAIN call[t].task,
           NEW st, SetTask(t, i, st)
    PROVE  GoesOn(t, i, st, call[t].workers[i])
<1>. DEFINE c == call[t]
            w == c.workers[i]
            d == [c EXCEPT !.task[i] = st]
            e == [d EXCEPT !.workers = [d.workers EXCEPT ![i] = w]]
<1>1. c \in CallType /\ i \in 1 .. Len(c.workers)
  BY RunningFacts, TaskChunkFacts DEF CallOK
<1>2. c.workers \in Seq(Workers) /\ DOMAIN c.workers = 1 .. Len(c.workers)
  BY <1>1 DEF CallType
<1>3. d.workers = c.workers
  BY <1>1 DEF CallType
<1>4. [c.workers EXCEPT ![i] = w] = c.workers
  BY <1>1, <1>2
<1>5. d = [st |-> c.st, off |-> c.off, len |-> c.len, n |-> c.n, made |-> c.made,
           workers |-> c.workers, task |-> [c.task EXCEPT ![i] = st], out |-> c.out]
  <2>1. c = [st |-> c.st, off |-> c.off, len |-> c.len, n |-> c.n, made |-> c.made,
             workers |-> c.workers, task |-> c.task, out |-> c.out]
    BY <1>1 DEF CallType
  <2>. HIDE DEF c
  <2>. QED  BY <2>1
<1>6. e = d
  <2>. HIDE DEF c, d, w
  <2>. QED  BY <1>3, <1>4, <1>5
<1>7. call' = [call EXCEPT ![t] = d]
  BY DEF SetTask
<1>8. GoesOn(t, i, st, w) <=> call' = [call EXCEPT ![t] = e]
  BY DEF GoesOn
<1>. QED  BY <1>6, <1>7, <1>8

\* A step that only sets the state of a task.
LEMMA SetTaskStep ==
    ASSUME Inv, NEW t \in Threads, call[t].st = "running", NEW i \in DOMAIN call[t].task,
           call[t].task[i] # "err", NEW st \in TaskStates, st # "insert",
           st = "ok" => Filled(img, Payloads, call[t], i),
           st = "skipped" => \E j \in 1 .. Len(call[t].task) : call[t].task[j] = "err",
           SetTask(t, i, st), UNCHANGED <<config, img, pool>>, poisoned' \in BOOLEAN,
           CacheShape', Holds(chunks', Payloads)
    PROVE  Inv'
<1>1. call[t].workers[i] \in Workers
  BY TaskChunkFacts
<1>2. GoesOn(t, i, st, call[t].workers[i])
  BY SetTaskGoesOn
<1>. QED  BY <1>1, <1>2, TaskStepInv

\* A step that copies a payload of the task's chunk into the buffer.
LEMMA CopyStep ==
    ASSUME Inv, NEW t \in Threads, call[t].st = "running", NEW i \in DOMAIN call[t].task,
           call[t].task[i] # "err", NEW st \in {"insert", "ok"}, NEW p, NEW v \in Workers,
           p = Payload(ChunkOf(t, i), v), p # Absent, EndInChunk(t, i) <= Len(p),
           NEW w \in Workers, st = "insert" => w = v,
           CopyAndSet(t, i, p, w, st), UNCHANGED <<config, img, pool>>, poisoned' \in BOOLEAN,
           CacheShape', Holds(chunks', Payloads)
    PROVE  Inv'
<1>. DEFINE c == call[t]
            new == CopiedInto(c, i, p)
            d == [c EXCEPT !.task[i] = st, !.workers[i] = w, !.out = new]
<1>1. /\ Ready /\ Covered /\ CallOK(img, Payloads, c) /\ i \in 1 .. Len(c.task)
      /\ ChunkOf(t, i) = ChunkAt(img, c, i) /\ p = Payloads[ChunkAt(img, c, i)][v]
  BY RunningFacts, TaskChunkFacts
<1>2. EndIn(ChunkAt(img, c, i), c.off, c.n) <= Len(p)
  BY <1>1 DEF EndInChunk
<1>3. CallOK(img, Payloads, d) /\ Len(d.workers) = Len(c.workers)
  <2>1. c.st = "running" /\ c.task[i] # "err"
    OBVIOUS
  <2>2. d = CopiedOn(c, i, st, w, p)
    BY DEF CopiedOn
  <2>. HIDE DEF c, d, new
  <2>. QED  BY <1>1, <1>2, <2>1, <2>2, CopyOK
<1>4. Copied(t, i, p) = new
  BY <1>1 DEF Copied, CopiedInto, BegInChunk, EndInChunk
<1>5. call' = [call EXCEPT ![t] = d]
  <2>. HIDE DEF new
  <2>. QED  BY <1>4 DEF CopyAndSet
<1>. HIDE DEF d
<1>. QED  BY <1>1, <1>3, <1>5, StepOfCall

\* A step that leaves the cache of decoded chunks alone keeps its invariant.
LEMMA CacheKept ==
    ASSUME Inv, UNCHANGED <<chunks, lru>>
    PROVE  CacheShape' /\ Holds(chunks', Payloads)
BY DEF Inv, CacheShape, Elems, Distinct

\* The lookup of a chunk in the cache keeps the invariant.
LEMMA StartInv ==
    ASSUME Inv, NEW t \in Threads, NEW i \in DOMAIN call[t].task, Start(t, i)
    PROVE  Inv'
<1>. DEFINE k == ChunkOf(t, i)
<1>1. /\ call[t].st = "running" /\ call[t].task[i] = "todo" /\ call[t].task[i] # "err"
      /\ UNCHANGED <<config, img, pool>>
  BY DEF Start, Runs
<1>2. poisoned \in BOOLEAN
  BY DEF Inv
<1>3. ASSUME NEW st \in {"err", "panic", "fetch"}, SetTask(t, i, st), UNCHANGED cache
      PROVE  Inv'
  <2>1. st \in TaskStates /\ st \notin {"insert", "ok", "skipped"}
    BY DEF TaskStates
  <2>2. poisoned' \in BOOLEAN /\ CacheShape' /\ Holds(chunks', Payloads)
    BY <1>2, <1>3, CacheKept DEF cache
  <2>. QED  BY <1>1, <1>3, <2>1, <2>2, SetTaskStep
<1>4. ASSUME k \in DOMAIN chunks, lru' = Touched(lru, k), UNCHANGED chunks,
             IF EndInChunk(t, i) > Len(chunks[k])
             THEN SetTask(t, i, "panic") /\ poisoned' = TRUE
             ELSE CopyAndSet(t, i, chunks[k], call[t].workers[i], "ok") /\ UNCHANGED poisoned
      PROVE  Inv'
  <2>. DEFINE w == call[t].workers[i]
  <2>6. w \in Workers
    BY <1>1, TaskChunkFacts
  <2>7. PICK v \in Workers : chunks[k] = Payloads[k][v] /\ Payloads[k][v] # Absent
    BY <1>4 DEF Inv, Holds
  <2>1. /\ chunks[k] = Payload(k, v) /\ chunks[k] # Absent
        /\ chunks[k] \in Seq(Bytes)
    <3>1. Payloads[k][v] = Payload(k, v)
      BY <1>1, TaskChunkFacts
    <3>2. DecodedLen(k) \in Nat /\ k \in 1 .. Len(img.chunks) /\ Covered
      BY <1>1, TaskFits
    <3>. HIDE DEF k
    <3>3. Payload(k, v) \in Seq(Bytes)
      BY <2>7, <3>1, <3>2, PayloadFacts
    <3>. QED  BY <2>7, <3>1, <3>3
  <2>2. CacheShape'
    <3>1. lru \in Seq(Nat) /\ Distinct(lru) /\ k \in Elems(lru, Len(lru)) /\ Len(lru) <= Capacity
      BY <1>4 DEF Inv, CacheShape
    <3>2. /\ lru' \in Seq(Nat) /\ Distinct(lru') /\ Len(lru') = Len(lru)
          /\ Elems(lru', Len(lru')) = Elems(lru, Len(lru))
      <4>. HIDE DEF k
      <4>. QED  BY <1>4, <3>1, TouchedFacts
    <3>. QED  BY <1>4, <3>1, <3>2 DEF Inv, CacheShape, Distinct, Elems, Capacity
  <2>3. Holds(chunks', Payloads)
    BY <1>4 DEF Inv
  <2>4. CASE EndInChunk(t, i) > Len(chunks[k])
    <3>1. SetTask(t, i, "panic") /\ poisoned' \in BOOLEAN /\ "panic" \in TaskStates
      BY <1>4, <2>4 DEF TaskStates
    <3>. QED  BY <1>1, <2>2, <2>3, <3>1, SetTaskStep
  <2>5. CASE ~(EndInChunk(t, i) > Len(chunks[k]))
    <3>1. CopyAndSet(t, i, chunks[k], w, "ok") /\ poisoned' \in BOOLEAN
      BY <1>2, <1>4, <2>5
    <3>2. EndInChunk(t, i) <= Len(chunks[k])
      BY <1>1, <2>1, <2>5, TaskFits, LenProperties
    <3>. HIDE DEF w
    <3>. QED  BY <1>1, <2>1, <2>2, <2>3, <2>6, <3>1, <3>2, CopyStep
  <2>. QED  BY <2>4, <2>5
<1>. QED  BY <1>3, <1>4 DEF Start


\* Old bytes behind new ones.
LEMMA OverlaidFacts ==
    ASSUME Covered, NEW k \in 1 .. Len(img.chunks), DecodedLen(k) \in Nat,
           NEW w \in Seq(Bytes), NEW v \in Overlaid(k, w)
    PROVE  v \in Seq(Bytes)
<1>1. PICK m \in 0 .. DecodedLen(k) - 1 :
        v = Own(k, m) \/ v = Own(k, m) \o SubSeq(w, m + 1, Len(w))
  BY DEF Overlaid
<1>2. m \in Nat
  BY <1>1
<1>3. Own(k, m) \in Seq(Bytes)
  BY <1>2, OwnFacts
<1>4. SubSeq(w, m + 1, Len(w)) \in Seq(Bytes)
  <2>1. Len(w) \in Nat /\ \A i \in m + 1 .. Len(w) : w[i] \in Bytes
    <3>1. Len(w) \in Nat
      BY LenProperties
    <3>2. \A i \in m + 1 .. Len(w) : i \in 1 .. Len(w)
      BY <1>2, <3>1
    <3>. QED  BY <3>1, <3>2, ElementOfSeq
  <2>. QED  BY <1>2, <2>1, SubSeqProperties
<1>. QED  BY <1>1, <1>3, <1>4, ConcatProperties

\* What a worker has after a read, whole or not: it has its buffer if it had it before.
LEMMA RefilledFacts ==
    ASSUME Covered, NEW k \in 1 .. Len(img.chunks), DecodedLen(k) \in Nat,
           NEW w \in Workers, HasRoom(k, w), NEW v \in Refilled(k, w) \cup Spoiled(k, w)
    PROVE  v \in Workers /\ (w \in Seq(Bytes) => v \in Seq(Bytes))
<1>1. CASE v = w
  BY <1>1
<1>2. CASE v # w
  <2>1. UsesBuffer(k) /\ StoredLen(k) # 0
    BY <1>2 DEF Refilled, Spoiled
  <2>2. w \in Seq(Bytes)
    BY <2>1, WorkerKinds DEF HasRoom
  <2>3. CASE v \in Overlaid(k, w)
    BY <2>2, <2>3, OverlaidFacts DEF Workers
  <2>4. CASE v = <<>>
    BY <2>4 DEF Workers
  <2>5. CASE \E m \in 0 .. DecodedLen(k) : v = Own(k, m)
    BY <2>5, OwnFacts DEF Workers
  <2>6. v \in Overlaid(k, w) \/ v = <<>> \/ \E m \in 0 .. DecodedLen(k) : v = Own(k, m)
    <3>1. DecodedLen(k) \in 0 .. DecodedLen(k)
      OBVIOUS
    <3>2. \A m \in 0 .. DecodedLen(k) - 1 : m \in 0 .. DecodedLen(k)
      OBVIOUS
    <3>. QED  BY <1>2, <3>1, <3>2 DEF Refilled, Spoiled
  <2>. QED  BY <2>3, <2>4, <2>5, <2>6
<1>. QED  BY <1>1, <1>2

\* Reading and decoding a chunk keeps the invariant.
LEMMA FetchInv ==
    ASSUME Inv, NEW t \in Threads, NEW i \in DOMAIN call[t].task, Fetch(t, i)
    PROVE  Inv'
<1>. DEFINE c == call[t]
            k == ChunkOf(t, i)
            w == c.workers[i]
<1>1. /\ c.st = "running" /\ c.task[i] = "fetch" /\ c.task[i] # "err"
      /\ UNCHANGED <<config, img, pool>> /\ UNCHANGED <<chunks, lru, poisoned>>
  BY DEF Fetch, Runs, cache
<1>2. poisoned' \in BOOLEAN /\ CacheShape' /\ Holds(chunks', Payloads)
  BY <1>1, CacheKept DEF Inv
<1>3. Covered /\ k \in 1 .. Len(img.chunks) /\ DecodedLen(k) \in Nat /\ w \in Workers
  BY <1>1, TaskFits, TaskChunkFacts
<1>4. CASE SetTask(t, i, "panic")
  <2>1. "panic" \in TaskStates
    BY DEF TaskStates
  <2>. QED  BY <1>1, <1>2, <1>4, <2>1, SetTaskStep
<1>5. ASSUME NEW v \in Workers, FailTask(t, i, v) PROVE Inv'
  <2>. DEFINE kept == IF LosesBuffer(k) THEN Absent ELSE v
  <2>1. kept \in Workers
    BY DEF Workers
  <2>2. GoesOn(t, i, "err", kept)
    BY <1>5 DEF FailTask, GoesOn
  <2>3. "err" \in TaskStates
    BY DEF TaskStates
  <2>. HIDE DEF kept
  <2>. QED  BY <1>1, <1>2, <2>1, <2>2, <2>3, TaskStepInv
<1>6. ASSUME NEW v \in Workers, Payload(k, v) # Absent, EndInChunk(t, i) <= Len(Payload(k, v)),
             CopyAndSet(t, i, Payload(k, v), v, IF config.decoded THEN "insert" ELSE "ok")
      PROVE  Inv'
  <2>1. PICK st \in {"insert", "ok"} : CopyAndSet(t, i, Payload(k, v), v, st)
    BY <1>6
  <2>. QED  BY <1>1, <1>2, <1>6, <2>1, CopyStep
<1>7. ASSUME NEW v \in Workers, Decode(t, i, v) PROVE Inv'
  BY <1>4, <1>5, <1>6, <1>7 DEF Decode
<1>8. ASSUME HasRoom(k, w), NEW v \in Refilled(k, w) \cup Spoiled(k, w) PROVE v \in Workers
  <2>. HIDE DEF k, w
  <2>. QED  BY <1>3, <1>8, RefilledFacts
<1>. QED  BY <1>4, <1>5, <1>7, <1>8 DEF Fetch

\* Inserting a decoded chunk into the cache keeps the invariant.
LEMMA RememberInv ==
    ASSUME Inv, NEW t \in Threads, NEW i \in DOMAIN call[t].task, Remember(t, i)
    PROVE  Inv'
<1>. DEFINE k == ChunkOf(t, i)
<1>1. /\ call[t].st = "running" /\ call[t].task[i] = "insert" /\ call[t].task[i] # "err"
      /\ UNCHANGED <<config, img, pool, poisoned>>
  BY DEF Remember, Runs
<1>2. poisoned' \in BOOLEAN
  BY <1>1 DEF Inv
<1>3. CASE SetTask(t, i, "panic") /\ UNCHANGED <<chunks, lru>>
  <2>1. CacheShape' /\ Holds(chunks', Payloads) /\ "panic" \in TaskStates
    BY <1>3, CacheKept DEF TaskStates
  <2>. QED  BY <1>1, <1>2, <1>3, <2>1, SetTaskStep
<1>. DEFINE w == call[t].workers[i]
<1>4. ASSUME SetTask(t, i, "ok"), Insert(k, Payload(k, w)) PROVE Inv'
  <2>1. /\ CallOK(img, Payloads, call[t]) /\ i \in 1 .. Len(call[t].task)
        /\ k = ChunkAt(img, call[t], i) /\ k \in 1 .. Len(img.chunks) /\ k \in Nat
        /\ Payload(k, w) = Payloads[k][w] /\ w \in Workers
    BY <1>1, RunningFacts, TaskChunkFacts
  <2>2. Filled(img, Payloads, call[t], i)
    BY <1>1, <2>1 DEF CallOK, Done
  <2>3. Payloads[k][w] # Absent
    BY <1>1, <2>1 DEF CallOK, Done
  <2>4. k \in DOMAIN Payloads
    BY <1>1, TaskChunkFacts DEF Payloads
  <2>5. CacheShape /\ Holds(chunks, Payloads)
    BY DEF Inv
  <2>. HIDE DEF k, w
  <2>6. /\ CacheShape'
        /\ \A j \in DOMAIN chunks' : \/ j = k /\ chunks'[j] = Payload(k, w)
                                     \/ j \in DOMAIN chunks /\ chunks'[j] = chunks[j]
    BY <1>4, <2>1, <2>5, InsertFacts
  <2>7. Holds(chunks', Payloads)
    BY <2>1, <2>3, <2>4, <2>5, <2>6 DEF Holds
  <2>8. "ok" \in TaskStates
    BY DEF TaskStates
  <2>. QED  BY <1>1, <1>2, <1>4, <2>2, <2>6, <2>7, <2>8, SetTaskStep
<1>. QED  BY <1>3, <1>4 DEF Remember

\* Skipping a task after a failure keeps the invariant.
LEMMA SkipInv ==
    ASSUME Inv, NEW t \in Threads, NEW i \in DOMAIN call[t].task, Skip(t, i)
    PROVE  Inv'
<1>1. /\ call[t].st = "running" /\ call[t].task[i] # "err" /\ SetTask(t, i, "skipped")
      /\ \E j \in DOMAIN call[t].task : call[t].task[j] = "err"
      /\ UNCHANGED <<config, img, pool>> /\ UNCHANGED <<chunks, lru, poisoned>>
  BY DEF Skip, Runs, cache
<1>2. poisoned' \in BOOLEAN /\ CacheShape' /\ Holds(chunks', Payloads)
  BY <1>1, CacheKept DEF Inv
<1>3. "skipped" \in TaskStates
  BY DEF TaskStates
<1>4. \E j \in 1 .. Len(call[t].task) : call[t].task[j] = "err"
  BY <1>1, TaskChunkFacts
<1>. QED  BY <1>1, <1>2, <1>3, <1>4, SetTaskStep


\* The call that returns is over, and if it succeeds each of its tasks has.
LEMMA FinishedOK ==
    ASSUME NEW im, NEW pay, NEW c, CallOK(im, pay, c), c.st = "running",
           NEW st \in {"ok", "err", "panic"},
           st = "ok" => \A i \in 1 .. Len(c.task) : c.task[i] = "ok"
    PROVE  CallOK(im, pay, [c EXCEPT !.st = st, !.workers = <<>>])
<1>. DEFINE d == [c EXCEPT !.st = st, !.workers = <<>>]
<1>1. c \in CallType /\ c.n <= c.len /\ InRange(im, c) /\ Done(im, pay, c)
  BY DEF CallOK
<1>2. <<>> \in Seq(Workers)
  BY EmptySeq
<1>3. /\ d \in CallType /\ d.st = st /\ d.off = c.off /\ d.len = c.len /\ d.n = c.n
      /\ d.workers = <<>> /\ d.task = c.task /\ d.out = c.out
  BY <1>1, <1>2 DEF CallType
<1>. HIDE DEF d
<1>4. \A i : ChunkAt(im, d, i) = ChunkAt(im, c, i)
  BY <1>3 DEF ChunkAt
<1>5. InRange(im, d)
  BY <1>1, <1>3, <1>4 DEF InRange
<1>6. \A j : Filled(im, pay, d, j) <=> Filled(im, pay, c, j)
  BY <1>3, <1>4 DEF Filled
<1>7. st = "ok" => Done(im, pay, d)
  BY <1>1, <1>3, <1>6 DEF Done
<1>8. CallOK(im, pay, d)
  BY <1>1, <1>3, <1>5, <1>7 DEF CallOK
<1>. QED  BY <1>8 DEF d

\* The end of a call, with its workers back in the pool, keeps the invariant.
LEMMA FinishInv ==
    ASSUME Inv, NEW t \in Threads, Finish(t)
    PROVE  Inv'
<1>. DEFINE c == call[t]
            Ends(st) == [c EXCEPT !.st = st, !.workers = <<>>]
<1>1. /\ c.st = "running" /\ Over(t)
      /\ UNCHANGED <<config, img>> /\ UNCHANGED <<chunks, lru, poisoned>>
  BY DEF Finish, cache
<1>2. Ready /\ Covered /\ CallsInv /\ CallOK(img, Payloads, c) /\ PoolBound
  BY <1>1, RunningFacts DEF Inv
<1>3. Len(img.chunks) \in Nat /\ pool \in Seq(Workers) /\ c.workers \in Seq(Workers)
  BY <1>2, LenProperties DEF Covered, Inv, CallOK, CallType
<1>4. poisoned' \in BOOLEAN /\ CacheShape' /\ Holds(chunks', Payloads) /\ Payloads' = Payloads
  BY <1>1, CacheKept, PayloadsKept DEF Inv
<1>5. ASSUME NEW st \in {"ok", "err", "panic"}, call' = [call EXCEPT ![t] = Ends(st)],
             st = "ok" => \A i \in 1 .. Len(c.task) : c.task[i] = "ok",
             pool' = pool \/ pool' = return_workers(t)
      PROVE  Inv'
  <2>1. CallOK(img, Payloads, Ends(st))
    <3>. HIDE DEF c
    <3>. QED  BY <1>1, <1>2, <1>5, FinishedOK
  <2>2. Len(Ends(st).workers) = 0
    BY <1>2 DEF CallOK, CallType
  <2>. HIDE DEF Ends
  <2>3. CallsInv'
    BY <1>1, <1>2, <1>5, <2>1, CallsKept
  <2>4. SumFunction(Lengths') = SumFunction(Lengths) - Len(c.workers) + 0
    BY <1>1, <1>2, <1>3, <1>5, <2>2, <2>3, LengthsChange
  <2>5. /\ Len(c.workers) \in Nat /\ Len(pool) \in Nat /\ SumFunction(Lengths) \in Nat
    BY <1>2, <1>3, LenProperties, LengthsFacts
  <2>6. pool' \in Seq(Workers) /\ Len(pool') <= Len(pool) + Len(c.workers) /\ Len(pool') \in Nat
    <3>1. CASE pool' = pool
      BY <1>3, <2>5, <3>1
    <3>2. CASE pool' = return_workers(t)
      <4>1. pool' = pool \o c.workers
        BY <3>2 DEF return_workers
      <4>2. pool' \in Seq(Workers) /\ Len(pool') = Len(pool) + Len(c.workers)
        <5>. HIDE DEF c
        <5>. QED  BY <1>3, <4>1, ConcatProperties
      <4>. QED  BY <2>5, <4>2
    <3>. QED  BY <1>5, <3>1, <3>2
  <2>7. PoolBound'
    <3>. DEFINE m == Cardinality(Threads) * Len(img.chunks)
    <3>1. m \in Nat
      <4>1. Cardinality(Threads) \in Nat
        BY E01Assumption, FS_CardinalityType
      <4>. QED  BY <1>3, <4>1
    <3>2. Len(pool) + SumFunction(Lengths) <= m
      BY <1>2 DEF PoolBound
    <3>. HIDE DEF m, c
    <3>3. Len(pool') + SumFunction(Lengths') <= m
      BY <2>4, <2>5, <2>6, <3>1, <3>2
    <3>. QED  BY <1>1, <3>3 DEF PoolBound, m
  <2>. QED  BY <1>1, <1>2, <1>4, <2>3, <2>6, <2>7 DEF Inv, Ready
<1>6. CASE Ended(t, "panic") /\ call' = [call EXCEPT ![t] = Ends("panic")] /\ pool' = pool
  BY <1>5, <1>6
<1>7. CASE /\ ~Ended(t, "panic") /\ Ended(t, "err")
           /\ call' = [call EXCEPT ![t] = Ends("err")] /\ pool' = return_workers(t)
  BY <1>5, <1>7
<1>8. CASE /\ ~Ended(t, "panic") /\ ~Ended(t, "err")
           /\ call' = [call EXCEPT ![t] = Ends("ok")] /\ pool' = return_workers(t)
  <2>1. DOMAIN c.task = 1 .. Len(c.task) /\ Done(img, Payloads, c)
    <3>1. c.task \in Seq(TaskStates)
      BY <1>2 DEF CallOK, CallType
    <3>2. Done(img, Payloads, c)
      BY <1>1, <1>2 DEF CallOK
    <3>. QED  BY <3>1, <3>2, LenProperties
  <2>2. \A i \in 1 .. Len(c.task) : c.task[i] # "err" /\ c.task[i] # "panic"
    BY <1>8, <2>1 DEF Ended
  <2>3. \A i \in 1 .. Len(c.task) : c.task[i] \in Final
    BY <1>1, <2>1, <2>2 DEF Over
  <2>4. \A i \in 1 .. Len(c.task) : c.task[i] # "skipped"
    BY <2>1, <2>2 DEF Done
  <2>5. \A i \in 1 .. Len(c.task) : c.task[i] = "ok"
    BY <2>2, <2>3, <2>4 DEF Final
  <2>. QED  BY <1>5, <1>8, <2>5
<1>. QED  BY <1>6, <1>7, <1>8 DEF Finish


\* A set of numbers with a bound has a greatest element.
LEMMA GreatestNatural ==
    ASSUME NEW b \in Nat, NEW T \in SUBSET (0 .. b), T # {}
    PROVE  Max(T) \in T
<1>. DEFINE U == {b - x : x \in T}
<1>1. U \in SUBSET Nat /\ U # {}
  <2>1. \A x \in T : b - x \in Nat
    OBVIOUS
  <2>. QED  BY <2>1
<1>2. PICK u \in U : \A y \in U : u <= y
  <2>. HIDE DEF U
  <2>. QED  BY <1>1, LeastNatural
<1>3. PICK x \in T : u = b - x
  BY <1>2
<1>4. ASSUME NEW y \in T PROVE x >= y
  <2>1. b - x <= b - y
    BY <1>2, <1>3
  <2>. QED  BY <1>3, <2>1
<1>5. \E z \in T : \A y \in T : z >= y
  BY <1>3, <1>4
<1>. QED  BY <1>5 DEF Max

\* The trace looks up chunks that the cache has.
LEMMA TraceKeepsCache ==
    ASSUME CacheShape, NEW off, NEW n,
           EndChunk(off + n) - BegChunk(off) \in Nat, Trace(off, n), UNCHANGED chunks
    PROVE  CacheShape'
<1>. DEFINE m == EndChunk(off + n) - BegChunk(off)
            ks == [i \in 1 .. m |-> BegChunk(off) + i]
            hits == {h \in 0 .. Len(ks) : \A i \in 1 .. h : ks[i] \in DOMAIN chunks}
            ts == SubSeq(ks, 1, Max(hits))
<1>1. Len(ks) = m /\ m \in Nat
  OBVIOUS
<1>2. Max(hits) \in hits
  <2>1. hits \in SUBSET (0 .. m) /\ 0 \in hits
    BY <1>1
  <2>. HIDE DEF hits
  <2>. QED  BY <1>1, <2>1, GreatestNatural
<1>. DEFINE h == Max(hits)
<1>3. h \in 0 .. m /\ \A i \in 1 .. h : ks[i] \in DOMAIN chunks
  BY <1>1, <1>2
<1>. HIDE DEF ks, hits, h
<1>4. ts = SubSeq(ks, 1, h)
  BY DEF h
<1>5. /\ ts \in Seq(DOMAIN chunks) /\ Len(ts) = IF 1 <= h THEN h - 1 + 1 ELSE 0
  <2>1. \A i \in 1 .. h : ks[i] \in DOMAIN chunks
    BY <1>3
  <2>2. 1 \in Int /\ h \in Int
    BY <1>3
  <2>. HIDE DEF ts
  <2>. QED  BY <1>4, <2>1, <2>2, SubSeqProperties
<1>6. lru' = IF config.traced /\ config.decoded THEN AllTouched(lru, ts) ELSE lru
  BY DEF Trace, TraceHits, ks, hits
<1>. HIDE DEF ts
<1>7. Len(ts) \in Nat /\ \A i \in 1 .. Len(ts) : ts[i] \in Elems(lru, Len(lru))
  BY <1>5, LenProperties, ElementOfSeq DEF CacheShape
<1>8. /\ AllTouched(lru, ts) \in Seq(Nat) /\ Distinct(AllTouched(lru, ts))
      /\ Len(AllTouched(lru, ts)) = Len(lru)
      /\ Elems(AllTouched(lru, ts), Len(lru)) = Elems(lru, Len(lru))
  BY <1>7, AllTouchedFacts DEF CacheShape
<1>9. /\ lru' \in Seq(Nat) /\ Distinct(lru') /\ Len(lru') = Len(lru)
      /\ Elems(lru', Len(lru')) = Elems(lru, Len(lru))
  BY <1>6, <1>8 DEF CacheShape
<1>. QED  BY <1>9 DEF CacheShape, Distinct, Elems, Capacity

\* A thread that may call has calls left.
LEMMA MadeBound ==
    ASSUME CallsInv, SumFunction([u \in Threads |-> call[u].made]) < MaxCalls,
           NEW t \in Threads
    PROVE  call[t].made + 1 \in 0 .. MaxCalls
<1>. DEFINE m == [u \in Threads |-> call[u].made]
<1>1. ASSUME NEW u \in Threads PROVE m[u] \in Nat /\ m[u] <= MaxCalls
  BY E01Assumption DEF CallsInv, CallOK, CallType
<1>2. m \in [Threads -> Nat] /\ \A u \in Threads : m[u] <= MaxCalls
  BY <1>1
<1>3. m[t] = call[t].made /\ SumFunction(m) < MaxCalls
  OBVIOUS
<1>. HIDE DEF m
<1>4. SumFunction(m) \in Nat /\ m[t] <= SumFunction(m)
  BY <1>2, SumBounds, E01Assumption
<1>. QED  BY <1>2, <1>3, <1>4, E01Assumption

\* The call record of a read that is refused at once.
LEMMA CalledIs ==
    ASSUME NEW t, NEW off, NEW len
    PROVE  Called(t, off, len) =
             [st |-> "idle", off |-> off, len |-> len, n |-> 0, made |-> call[t].made + 1,
              workers |-> <<>>, task |-> <<>>, out |-> <<>>]
<1>. DEFINE m == call[t].made + 1
            a == [NoCall EXCEPT !.off = off]
            b == [a EXCEPT !.len = len]
<1>1. a = [st |-> "idle", off |-> off, len |-> 0, n |-> 0, made |-> 0,
           workers |-> <<>>, task |-> <<>>, out |-> <<>>]
  BY DEF NoCall
<1>2. b = [st |-> "idle", off |-> off, len |-> len, n |-> 0, made |-> 0,
           workers |-> <<>>, task |-> <<>>, out |-> <<>>]
  <2>. HIDE DEF a
  <2>. QED  BY <1>1
<1>3. Called(t, off, len) = [b EXCEPT !.made = m]
  BY DEF Called
<1>. HIDE DEF b, m
<1>4. Called(t, off, len) =
             [st |-> "idle", off |-> off, len |-> len, n |-> 0, made |-> m,
              workers |-> <<>>, task |-> <<>>, out |-> <<>>]
  BY <1>2, <1>3
<1>. QED  BY <1>4 DEF m

\* What a call is once it has been refused, or has panicked, before its tasks.
LEMMA RefusedCallOK ==
    ASSUME NEW t, NEW off \in Nat, NEW len \in Nat, call[t].made + 1 \in 0 .. MaxCalls,
           NEW st \in {"err", "panic"}
    PROVE  /\ CallOK(img, Payloads, [Called(t, off, len) EXCEPT !.st = st])
           /\ [Called(t, off, len) EXCEPT !.st = st].workers = <<>>
<1>. DEFINE made == call[t].made + 1
            d == [Called(t, off, len) EXCEPT !.st = st]
<1>1. d = [st |-> st, off |-> off, len |-> len, n |-> 0, made |-> made,
           workers |-> <<>>, task |-> <<>>, out |-> <<>>]
  BY CalledIs
<1>2. <<>> \in Seq(Workers) /\ <<>> \in Seq(TaskStates) /\ <<>> \in Seq(Bytes)
  BY EmptySeq
<1>. HIDE DEF made, d
<1>3. /\ d \in CallType /\ d.st = st /\ d.n = 0 /\ d.len = len /\ d.workers = <<>>
  BY <1>1, <1>2 DEF CallType, made
<1>4. CallOK(img, Payloads, d)
  BY <1>3 DEF CallOK
<1>. QED  BY <1>3, <1>4 DEF d


\* A call whose tasks are ready.
Begun(t, off, len, n, ws, tasks, buf) ==
    [Called(t, off, len) EXCEPT !.st = "running", !.n = n, !.workers = ws,
        !.task = tasks, !.out = buf]

\* The call record of a read that begins.
LEMMA BegunIs ==
    ASSUME NEW t, NEW off, NEW len, NEW n, NEW ws, NEW tasks, NEW buf
    PROVE  Begun(t, off, len, n, ws, tasks, buf)
             = [st |-> "running", off |-> off, len |-> len, n |-> n, made |-> call[t].made + 1,
                workers |-> ws, task |-> tasks, out |-> buf]
<1>. DEFINE m == call[t].made + 1
            c0 == Called(t, off, len)
            c1 == [c0 EXCEPT !.st = "running"]
            c2 == [c1 EXCEPT !.n = n]
            c3 == [c2 EXCEPT !.workers = ws]
            c4 == [c3 EXCEPT !.task = tasks]
            d == [c0 EXCEPT !.st = "running", !.n = n, !.workers = ws,
                            !.task = tasks, !.out = buf]
<1>1. c0 = [st |-> "idle", off |-> off, len |-> len, n |-> 0, made |-> m,
            workers |-> <<>>, task |-> <<>>, out |-> <<>>]
  BY CalledIs
<1>2. d = [c4 EXCEPT !.out = buf]
  OBVIOUS
<1>. HIDE DEF c0, m, d
<1>3. c1 = [st |-> "running", off |-> off, len |-> len, n |-> 0, made |-> m,
            workers |-> <<>>, task |-> <<>>, out |-> <<>>]
  BY <1>1
<1>. HIDE DEF c1
<1>4. c2 = [st |-> "running", off |-> off, len |-> len, n |-> n, made |-> m,
            workers |-> <<>>, task |-> <<>>, out |-> <<>>]
  BY <1>3
<1>. HIDE DEF c2
<1>5. c3 = [st |-> "running", off |-> off, len |-> len, n |-> n, made |-> m,
            workers |-> ws, task |-> <<>>, out |-> <<>>]
  BY <1>4
<1>. HIDE DEF c3
<1>6. c4 = [st |-> "running", off |-> off, len |-> len, n |-> n, made |-> m,
            workers |-> ws, task |-> tasks, out |-> <<>>]
  BY <1>5
<1>. HIDE DEF c4
<1>7. d = [st |-> "running", off |-> off, len |-> len, n |-> n, made |-> m,
           workers |-> ws, task |-> tasks, out |-> buf]
  BY <1>2, <1>6
<1>. QED  BY <1>7 DEF d, c0, m, Begun

\* What a call is when its tasks are ready: each has its chunk and a worker.
LEMMA BegunCallOK ==
    ASSUME Covered, NEW t, NEW off \in Nat, NEW len \in Nat, off <= img.image_size,
           call[t].made + 1 \in 0 .. MaxCalls, NEW n, n = Clamp(off, len),
           NEW ws \in Seq(Workers), Len(ws) = EndChunk(off + n) - BegChunk(off)
    PROVE  /\ TasksFit(off, n, ws)
           /\ CallOK(img, Payloads,
                [Called(t, off, len) EXCEPT !.st = "running", !.n = n, !.workers = ws,
                    !.task = [i \in DOMAIN TaskChunks(off, n) |-> "todo"],
                    !.out = [i \in 1 .. n |-> Unread]])
<1>. DEFINE m == call[t].made + 1
            ks == TaskChunks(off, n)
            tasks == [i \in DOMAIN ks |-> "todo"]
            buf == [i \in 1 .. n |-> Unread]
            c0 == Called(t, off, len)
            d == [c0 EXCEPT !.st = "running", !.n = n, !.workers = ws,
                            !.task = tasks, !.out = buf]
            b == BegChunk(off)
<1>1. n \in 0 .. len /\ n \in Nat /\ off + n <= img.image_size
  BY ClampFacts
<1>2. /\ b \in Nat
      /\ Len(ws) \in 0 .. Len(img.chunks)
      /\ Len(ks) \in 0 .. Len(ws)
      /\ DOMAIN ks = 1 .. Len(ks)
      /\ \A i \in 1 .. Len(ks) : ks[i] = b + i /\ Touching(img, b + i, off, n)
      /\ \A j \in 1 .. n : \E i \in 1 .. Len(ks) : InChunk(img, b + i, off + j - 1)
  <2>. HIDE DEF b, ks
  <2>. QED  BY <1>1, TaskFacts DEF b, ks
<1>3. b = off \div img.chunk_size
  BY DEF BegChunk
<1>. HIDE DEF b, ks
<1>4. Len(img.chunks) \in Nat /\ Len(ws) \in Nat /\ Len(ks) \in Nat /\ Len(ks) <= Len(ws)
      /\ Len(ws) <= Len(img.chunks)
  <2>1. Len(img.chunks) \in Nat
    BY LenProperties DEF Covered
  <2>. QED  BY <1>2, <2>1
<1>5. TasksFit(off, n, ws)
  <2>1. DOMAIN img.chunks = 1 .. Len(img.chunks)
    BY LenProperties DEF Covered
  <2>2. ASSUME NEW i \in DOMAIN ks PROVE ks[i] \in DOMAIN img.chunks
    BY <1>2, <2>1, <2>2 DEF Touching
  <2>3. Range(ks) \subseteq DOMAIN img.chunks
    BY <2>2 DEF Range
  <2>. QED  BY <1>4, <2>3 DEF TasksFit, ks
<1>6. tasks \in Seq(TaskStates) /\ Len(tasks) = Len(ks)
      /\ \A i \in 1 .. Len(ks) : tasks[i] = "todo"
  <2>1. tasks \in [1 .. Len(ks) -> TaskStates]
    BY <1>2 DEF TaskStates
  <2>. HIDE DEF tasks
  <2>2. tasks \in Seq(TaskStates) /\ Len(tasks) = Len(ks)
    BY <1>4, <2>1, FunctionIsSeq
  <2>. QED  BY <1>2, <2>2 DEF tasks
<1>7. buf \in Seq(Bytes) /\ Len(buf) = n
  <2>1. buf \in [1 .. n -> Bytes]
    BY DEF Bytes
  <2>. HIDE DEF buf
  <2>. QED  BY <1>1, <2>1, FunctionIsSeq
<1>. HIDE DEF tasks, buf
<1>8. d = [st |-> "running", off |-> off, len |-> len, n |-> n, made |-> m,
           workers |-> ws, task |-> tasks, out |-> buf]
  <2>1. d = Begun(t, off, len, n, ws, tasks, buf)
    BY DEF Begun
  <2>. HIDE DEF d, c0
  <2>. QED  BY <2>1, BegunIs
<1>9. /\ d \in CallType /\ d.st = "running" /\ d.off = off /\ d.len = len /\ d.n = n
      /\ d.workers = ws /\ d.task = tasks /\ d.out = buf
  <2>1. m \in 0 .. MaxCalls
    OBVIOUS
  <2>. HIDE DEF d, m
  <2>. QED  BY <1>1, <1>6, <1>7, <1>8, <2>1 DEF CallType
<1>. HIDE DEF d
<1>10. \A i : ChunkAt(img, d, i) = b + i
  BY <1>3, <1>9 DEF ChunkAt
<1>11. InRange(img, d)
  <2>1. n = Min({len, img.image_size - off})
    BY DEF Clamp
  <2>2. \A i \in 1 .. Len(d.task) : Touching(img, ChunkAt(img, d, i), d.off, d.n)
    BY <1>2, <1>6, <1>9, <1>10
  <2>3. \A j \in 1 .. d.n : \E i \in 1 .. Len(d.task) :
            InChunk(img, ChunkAt(img, d, i), d.off + j - 1)
    BY <1>2, <1>6, <1>9, <1>10
  <2>. QED  BY <1>1, <1>7, <1>9, <2>1, <2>2, <2>3 DEF InRange
<1>12. Done(img, Payloads, d)
  BY <1>6, <1>9 DEF Done
<1>13. CallOK(img, Payloads, d)
  BY <1>1, <1>4, <1>6, <1>9, <1>11, <1>12 DEF CallOK
<1>. QED  BY <1>5, <1>13 DEF d, tasks, buf, ks, c0

\* A read that begins takes its workers out of the pool.
LEMMA WorkersTaken ==
    ASSUME Inv, Ready, NEW t \in Threads, call[t].st # "running", NEW m \in Nat, NEW c,
           UNCHANGED <<config, img>>, CallsInv', call' = [call EXCEPT ![t] = c],
           pool' = checkout_workers(m).left, Len(c.workers) = m
    PROVE  pool' \in Seq(Workers) /\ PoolBound'
<1>. DEFINE P == Len(pool)
            S == SumFunction(Lengths)
            B == Cardinality(Threads) * Len(img.chunks)
<1>1. /\ CallsInv /\ PoolBound /\ Len(img.chunks) \in Nat /\ pool \in Seq(Workers)
      /\ P \in Nat
  BY ImageFacts, LenProperties DEF Inv, Ready, Covered
<1>2. call[t].workers = <<>> /\ Len(call[t].workers) = 0
  BY <1>1 DEF CallsInv, CallOK
<1>3. SumFunction(Lengths') = S - 0 + m
  BY <1>1, <1>2, LengthsChange
<1>4. S \in Nat
  BY <1>1, LengthsFacts
<1>5. SumFunction(Lengths') <= B
  <2>1. PICK cs : cs = call'
    OBVIOUS
  <2>2. PICK im : im = img
    OBVIOUS
  <2>3. PICK pay : pay = Payloads'
    OBVIOUS
  <2>4. \A u \in Threads : CallOK(im, pay, cs[u])
    BY <2>1, <2>2, <2>3 DEF CallsInv
  <2>5. Lengths' = [u \in Threads |-> Len(cs[u].workers)]
    BY <2>1 DEF Lengths
  <2>6. PICK l : l = [u \in Threads |-> Len(cs[u].workers)]
    OBVIOUS
  <2>7. Len(im.chunks) \in Nat
    BY <1>1, <2>2
  <2>8. SumFunction(l) <= Cardinality(Threads) * Len(im.chunks)
    BY <2>4, <2>6, <2>7, LengthsOfCalls
  <2>. QED  BY <2>2, <2>5, <2>6, <2>8
<1>6. pool' \in Seq(Workers) /\ Len(pool') = IF P <= m THEN 0 ELSE P - m
  BY <1>1, CheckoutFacts, EmptyWorker
<1>7. P + S <= B /\ B \in Nat
  <2>1. Cardinality(Threads) \in Nat
    BY E01Assumption, FS_CardinalityType
  <2>2. B \in Nat
    BY <1>1, <2>1
  <2>. QED  BY <1>1, <2>2 DEF PoolBound
<1>8. Len(pool') + SumFunction(Lengths') <= B
  <2>. HIDE DEF P, S, B
  <2>. QED  BY <1>1, <1>3, <1>4, <1>5, <1>6, <1>7
<1>. QED  BY <1>6, <1>8 DEF PoolBound


\* The start of a call, with its workers checked out, keeps the invariant.
LEMMA BeginInv ==
    ASSUME Inv, NEW t \in Threads, NEW off \in Nat, NEW len \in Nat, Begin(t, off, len)
    PROVE  Inv'
<1>. DEFINE n == Clamp(off, len)
            m == EndChunk(off + n) - BegChunk(off)
            w == checkout_workers(m)
            cl == Called(t, off, len)
            run == [cl EXCEPT !.st = "running", !.n = n, !.workers = w.taken,
                              !.task = [i \in DOMAIN TaskChunks(off, n) |-> "todo"],
                              !.out = [i \in 1 .. n |-> Unread]]
<1>1. /\ Ready /\ call[t].st # "running"
      /\ SumFunction([u \in Threads |-> call[u].made]) < MaxCalls
      /\ UNCHANGED <<config, img>>
  BY DEF Begin, Ready
<1>2. Covered /\ CallsInv /\ call[t].made + 1 \in 0 .. MaxCalls
  <2>1. Covered /\ CallsInv
    BY <1>1, ImageFacts DEF Inv, Ready
  <2>. QED  BY <1>1, <2>1, MadeBound
<1>3. Len(call[t].workers) = 0
  BY <1>1, <1>2 DEF CallsInv, CallOK
<1>4. ASSUME NEW st \in {"err", "panic"}, call' = [call EXCEPT ![t] = [cl EXCEPT !.st = st]],
             UNCHANGED <<pool, cache>>
      PROVE  Inv'
  <2>. DEFINE d == [cl EXCEPT !.st = st]
  <2>1. CallOK(img, Payloads, d) /\ Len(d.workers) = 0
    <3>1. CallOK(img, Payloads, d) /\ d.workers = <<>>
      BY <1>2, RefusedCallOK
    <3>. QED  BY <3>1
  <2>2. poisoned' \in BOOLEAN /\ CacheShape' /\ Holds(chunks', Payloads)
    BY <1>4, CacheKept DEF cache, Inv
  <2>. HIDE DEF d
  <2>3. call' = [call EXCEPT ![t] = d]
    BY <1>4 DEF d
  <2>. QED  BY <1>1, <1>3, <1>4, <2>1, <2>2, <2>3, StepOfCall
<1>5. ASSUME off <= img.image_size,
             call' = [call EXCEPT ![t] = IF TasksFit(off, n, w.taken)
                                         THEN run ELSE [cl EXCEPT !.st = "panic"]],
             pool' = w.left, Trace(off, n), UNCHANGED <<chunks, poisoned>>
      PROVE  Inv'
  <2>1. n \in Nat /\ off + n <= img.image_size
    BY <1>2, <1>5, ClampFacts
  <2>2. m \in Nat
    <3>1. m \in 0 .. Len(img.chunks)
      <4>. HIDE DEF n
      <4>. QED  BY <1>2, <2>1, TaskFacts
    <3>2. Len(img.chunks) \in Nat
      BY <1>2, LenProperties DEF Covered
    <3>. HIDE DEF m
    <3>. QED  BY <3>1, <3>2
  <2>3. w.taken \in Seq(Workers) /\ Len(w.taken) = m
    <3>. HIDE DEF m
    <3>. QED  BY <2>2, CheckoutFacts, EmptyWorker DEF Inv
  <2>4. TasksFit(off, n, w.taken) /\ CallOK(img, Payloads, run)
    <3>1. n = Clamp(off, len) /\ Len(w.taken) = EndChunk(off + n) - BegChunk(off)
      BY <2>3
    <3>. HIDE DEF w, n
    <3>. QED  BY <1>2, <1>5, <2>3, <3>1, BegunCallOK
  <2>5. run.workers = w.taken
    <3>1. cl = [st |-> "idle", off |-> off, len |-> len, n |-> 0, made |-> call[t].made + 1,
                workers |-> <<>>, task |-> <<>>, out |-> <<>>]
      BY CalledIs
    <3>. HIDE DEF cl, w, n
    <3>. QED  BY <3>1
  <2>. DEFINE d == run
  <2>. HIDE DEF d
  <2>6. call' = [call EXCEPT ![t] = d] /\ CallOK(img, Payloads, d) /\ Len(d.workers) = m
    BY <1>5, <2>3, <2>4, <2>5 DEF d
  <2>7. CallsInv'
    BY <1>1, <1>2, <2>6, CallsKept
  <2>8. pool' = checkout_workers(m).left
    BY <1>5
  <2>9. pool' \in Seq(Workers) /\ PoolBound'
    <3>. HIDE DEF m
    <3>. QED  BY <1>1, <2>2, <2>6, <2>7, <2>8, WorkersTaken
  <2>10. CacheShape'
    <3>. HIDE DEF n
    <3>. QED  BY <1>5, <2>2, TraceKeepsCache DEF Inv
  <2>11. Holds(chunks', Payloads') /\ poisoned' \in BOOLEAN
    BY <1>1, <1>5, PayloadsKept DEF Inv
  <2>. QED  BY <1>1, <2>7, <2>9, <2>10, <2>11 DEF Inv, Ready
<1>6. \/ \E st \in {"err", "panic"} : /\ call' = [call EXCEPT ![t] = [cl EXCEPT !.st = st]]
                                      /\ UNCHANGED <<pool, cache>>
      \/ /\ off <= img.image_size
         /\ call' = [call EXCEPT ![t] = IF TasksFit(off, n, w.taken)
                                        THEN run ELSE [cl EXCEPT !.st = "panic"]]
         /\ pool' = w.left /\ Trace(off, n) /\ UNCHANGED <<chunks, poisoned>>
  BY DEF Begin
<1>. QED  BY <1>4, <1>5, <1>6

\* Opening the image keeps the invariant.
LEMMA OpenInv == ASSUME Inv, Open PROVE Inv'
<1>1. /\ img = Absent /\ img' = Outcome(config) /\ UNCHANGED <<config, pool, call>>
      /\ UNCHANGED <<chunks, lru, poisoned>>
  BY DEF Open, cache
<1>2. /\ ~Ready /\ pool = <<>> /\ chunks = <<>> /\ \A t \in Threads : call[t].st = "idle"
  BY <1>1 DEF Inv, Ready
<1>3. img' = Absent \/ img' = Outcome(config')
  BY <1>1
<1>4. Holds(chunks', Payloads')
  BY <1>1, <1>2 DEF Holds
<1>5. CacheShape'
  BY <1>1 DEF Inv, CacheShape, Elems, Distinct
<1>6. ASSUME NEW t \in Threads PROVE CallOK(img', Payloads', call[t])
  BY <1>2 DEF Inv, CallsInv, CallOK
<1>7. CallsInv'
  BY <1>1, <1>6 DEF Inv, CallsInv
<1>8. ASSUME Ready' PROVE PoolBound'
  <2>1. Len(img'.chunks) \in Nat
    <3>1. Outcome(config) # Refused
      BY <1>1, <1>8 DEF Ready, Refused
    <3>. QED  BY <1>1, <3>1, OutcomeFacts, LenProperties DEF Inv
  <2>2. \A t \in Threads : call[t].workers = <<>>
    BY <1>2 DEF Inv, CallsInv, CallOK
  <2>3. Lengths' = [t \in Threads |-> 0]
    <3>1. \A t \in Threads : Len(call'[t].workers) = 0
      BY <1>1, <2>2
    <3>. QED  BY <3>1 DEF Lengths
  <2>. DEFINE zeros == [t \in Threads |-> 0]
  <2>4. zeros \in [Threads -> Nat] /\ \A t \in Threads : zeros[t] <= 0
    OBVIOUS
  <2>. HIDE DEF zeros
  <2>5. SumFunction(zeros) \in Nat /\ SumFunction(zeros) <= Cardinality(Threads) * 0
    BY <2>4, SumBounds, E01Assumption
  <2>6. Cardinality(Threads) \in Nat
    BY E01Assumption, FS_CardinalityType
  <2>7. SumFunction(zeros) = 0
    BY <2>5, <2>6
  <2>8. Len(pool') = 0
    BY <1>1, <1>2
  <2>9. Cardinality(Threads) * Len(img'.chunks) \in Nat
    BY <2>1, <2>6
  <2>. QED  BY <2>3, <2>7, <2>8, <2>9 DEF PoolBound, zeros
<1>. QED  BY <1>1, <1>2, <1>3, <1>4, <1>5, <1>7, <1>8 DEF Inv

\* A stuttering step keeps the invariant.
LEMMA StutterInv == ASSUME Inv, UNCHANGED vars PROVE Inv'
<1>1. UNCHANGED <<config, img, pool, call, chunks, lru, poisoned>>
  BY DEF vars, cache
<1>2. Payloads' = Payloads
  BY <1>1, PayloadsKept
<1>3. Holds(chunks', Payloads')
  BY <1>1, <1>2 DEF Inv
<1>4. CallsInv'
  BY <1>1, <1>2 DEF Inv, CallsInv
<1>5. PoolBound' <=> PoolBound
  BY <1>1 DEF PoolBound, Lengths
<1>. QED  BY <1>1, <1>3, <1>4, <1>5 DEF Inv, Ready, CacheShape, Elems, Distinct

\* The invariant holds at first.
LEMMA InitInv == ASSUME Init PROVE Inv
<1>1. /\ config \in Configs /\ img = Absent /\ pool = <<>> /\ chunks = <<>> /\ lru = <<>>
      /\ poisoned = FALSE /\ call = [t \in Threads |-> NoCall]
  BY DEF Init
<1>2. pool \in Seq(Workers) /\ poisoned \in BOOLEAN /\ ~Ready
  BY <1>1, EmptySeq DEF Ready
<1>3. CacheShape
  <2>1. lru \in Seq(Nat) /\ Len(lru) = 0 /\ DOMAIN chunks = {}
    BY <1>1, EmptySeq
  <2>2. Capacity \in Nat
    BY E01Assumption DEF Capacity
  <2>. QED  BY <2>1, <2>2 DEF CacheShape, Elems, Distinct
<1>4. Holds(chunks, Payloads)
  BY <1>1 DEF Holds
<1>5. CallOK(img, Payloads, NoCall)
  <2>1. <<>> \in Seq(Workers) /\ <<>> \in Seq(TaskStates) /\ <<>> \in Seq(Bytes)
    BY EmptySeq
  <2>2. NoCall \in CallType
    BY <2>1, E01Assumption DEF NoCall, CallType
  <2>3. NoCall.st = "idle" /\ NoCall.n = 0 /\ NoCall.len = 0 /\ NoCall.workers = <<>>
    BY DEF NoCall
  <2>. QED  BY <2>2, <2>3 DEF CallOK
<1>6. CallsInv
  BY <1>1, <1>5 DEF CallsInv
<1>7. \A t \in Threads : call[t].st = "idle"
  BY <1>1 DEF NoCall
<1>. QED  BY <1>1, <1>2, <1>3, <1>4, <1>6, <1>7 DEF Inv

\* Every step keeps the invariant.
LEMMA NextInv == ASSUME Inv, [Next]_vars PROVE Inv'
<1>1. CASE Open
  BY <1>1, OpenInv
<1>2. ASSUME NEW t \in Threads, NEW r \in Reads, Begin(t, r[1], r[2]) PROVE Inv'
  <2>1. r[1] \in Nat /\ r[2] \in Nat
    BY E01Assumption
  <2>. QED  BY <1>2, <2>1, BeginInv
<1>3. ASSUME NEW t \in Threads, NEW i \in DOMAIN call[t].task, TaskStep(t, i) PROVE Inv'
  BY <1>3, StartInv, FetchInv, RememberInv, SkipInv DEF TaskStep
<1>4. ASSUME NEW t \in Threads, Finish(t) PROVE Inv'
  BY <1>4, FinishInv
<1>5. CASE Rest \/ UNCHANGED vars
  BY <1>5, StutterInv DEF Rest
<1>. QED  BY <1>1, <1>2, <1>3, <1>4, <1>5 DEF Next, CallStep

\* The invariant holds in every state.
LEMMA InvHolds == Spec => []Inv
<1>1. Init => Inv
  BY InitInv
<1>2. Inv /\ [Next]_vars => Inv'
  BY NextInv
<1>. QED  BY <1>1, <1>2, PTL DEF Spec


-----------------------------------------------------------------------------
(* What the invariant says.                                                *)

\* A read that succeeds has, at every offset, the byte of the chunk that the chunk table
\* has there, and no byte of a damaged chunk under the Error policy (read_at_offset).
ReadsFollowTable ==
    \A t \in Threads : call[t].st = "ok" =>
        LET c == call[t]
            n == Min({c.len, img.image_size - c.off})
        IN  /\ Len(c.out) = n
            /\ \A j \in 1 .. n :
                LET pos == c.off + j - 1
                    k   == pos \div img.chunk_size + 1
                IN  /\ k \in 1 .. Len(img.chunks)
                    /\ ~CutShort(k) =>
                        /\ c.out[j] = ByteIn(k, pos % img.chunk_size)
                        /\ config.policy = "Error" => k \notin config.bad

\* A byte of a read that is over is the one its chunk has at its place.
LEMMA ByteFacts ==
    ASSUME Covered, NEW c, CallOK(img, Payloads, c), c.st = "ok", NEW j \in 1 .. c.n
    PROVE  LET pos == c.off + j - 1
               k   == pos \div img.chunk_size + 1
           IN  /\ k \in 1 .. Len(img.chunks)
               /\ ~CutShort(k) =>
                    /\ c.out[j] = ByteIn(k, pos % img.chunk_size)
                    /\ config.policy = "Error" => k \notin config.bad
<1>. DEFINE pos == c.off + j - 1
            q == pos \div img.chunk_size
<1>1. c \in CallType /\ InRange(img, c) /\ Done(img, Payloads, c)
      /\ \A i \in 1 .. Len(c.task) : c.task[i] = "ok"
  BY DEF CallOK
<1>2. c.off \in Nat /\ c.n \in Nat /\ pos \in Nat /\ c.off + c.n <= img.image_size
  BY <1>1 DEF CallType, InRange
<1>3. PICK i \in 1 .. Len(c.task) : InChunk(img, ChunkAt(img, c, i), pos)
  BY <1>1 DEF InRange
<1>. DEFINE k == ChunkAt(img, c, i)
            at == j - ((k - 1) * img.chunk_size - c.off)
<1>4. Touching(img, k, c.off, c.n) /\ Filled(img, Payloads, c, i)
  BY <1>1 DEF InRange, Done
<1>5. k \in 1 .. Len(img.chunks) /\ DecodedLen(k) \in Nat /\ (k - 1) * img.chunk_size \in Nat
  <2>. HIDE DEF k
  <2>. QED  BY <1>2, <1>4, PartFacts DEF Touching
<1>6. \A v \in Workers : Payloads[k][v] = Payload(k, v)
  <2>. HIDE DEF k
  <2>. QED  BY <1>5 DEF Payloads, InImage
<1>7. PICK v \in Workers : /\ Payload(k, v) # Absent /\ at \in 1 .. Len(Payload(k, v))
                           /\ c.out[j] = Payload(k, v)[at]
  BY <1>3, <1>4, <1>6 DEF Filled
<1>. HIDE DEF k, at
<1>8. ~CutShort(k) => c.out[j] = ByteIn(k, at - 1) /\ (config.policy = "Error" => k \notin config.bad)
  BY <1>5, <1>7, PayloadFacts
<1>9. k = q + 1 /\ q \in Nat
  <2>1. k \in Nat \ {0}
    <3>1. Len(img.chunks) \in Nat
      BY LenProperties DEF Covered
    <3>. QED  BY <1>5, <3>1
  <2>2. InChunk(img, k, pos)
    BY <1>3 DEF k
  <2>. HIDE DEF pos
  <2>. QED  BY <1>2, <2>1, <2>2, ChunkOfByte DEF q
<1>10. at - 1 = pos % img.chunk_size
  <2>. DEFINE cs == img.chunk_size
              prod == (k - 1) * cs
  <2>1. cs \in Nat \ {0}
    BY DEF Covered
  <2>2. pos % cs = pos - q * cs
    <3>1. q = pos \div cs
      OBVIOUS
    <3>. HIDE DEF pos, cs, q
    <3>. QED  BY <1>2, <2>1, <3>1, DivBounds
  <2>3. prod = q * cs
    <3>1. k - 1 = q
      BY <1>9
    <3>. QED  BY <3>1
  <2>4. at = j - (prod - c.off) /\ prod \in Nat
    BY <1>5 DEF at
  <2>. HIDE DEF prod, cs, q
  <2>5. at - 1 = pos - prod
    BY <1>2, <2>4
  <2>. QED  BY <2>2, <2>3, <2>5 DEF cs
<1>. QED  BY <1>5, <1>8, <1>9, <1>10

\* How long a read that is over is.
LEMMA ReadFacts ==
    ASSUME Inv, NEW t \in Threads, call[t].st = "ok"
    PROVE  LET c == call[t]
               n == Min({c.len, img.image_size - c.off})
           IN  /\ Covered /\ CallOK(img, Payloads, c) /\ c.n = n /\ Len(c.out) = n
               /\ c.off \in Nat /\ n \in Nat
<1>1. Ready
  BY DEF Inv
<1>2. Covered /\ CallOK(img, Payloads, call[t])
  BY <1>1, ImageFacts DEF Inv, Ready, CallsInv
<1>. QED  BY <1>2 DEF CallOK, InRange, CallType

\* The invariant implies that reads are those of the table.
LEMMA InvReads == ASSUME Inv PROVE ReadsFollowTable
<1>. SUFFICES ASSUME NEW t \in Threads, call[t].st = "ok"
              PROVE  LET c == call[t]
                         n == Min({c.len, img.image_size - c.off})
                     IN  /\ Len(c.out) = n
                         /\ \A j \in 1 .. n :
                              LET pos == c.off + j - 1
                                  k   == pos \div img.chunk_size + 1
                              IN  /\ k \in 1 .. Len(img.chunks)
                                  /\ ~CutShort(k) =>
                                       /\ c.out[j] = ByteIn(k, pos % img.chunk_size)
                                       /\ config.policy = "Error" => k \notin config.bad
  BY DEF ReadsFollowTable
<1>1. PICK c : c = call[t]
  OBVIOUS
<1>2. /\ Covered /\ CallOK(img, Payloads, c) /\ c.n = Min({c.len, img.image_size - c.off})
      /\ Len(c.out) = c.n /\ c.st = "ok"
  BY <1>1, ReadFacts
<1>3. \A j \in 1 .. c.n :
        LET pos == c.off + j - 1
            k   == pos \div img.chunk_size + 1
        IN  /\ k \in 1 .. Len(img.chunks)
            /\ ~CutShort(k) =>
                /\ c.out[j] = ByteIn(k, pos % img.chunk_size)
                /\ config.policy = "Error" => k \notin config.bad
  BY <1>2, ByteFacts
<1>. QED  BY <1>1, <1>2, <1>3

\* With the chunks where the files have them, the table's bytes are the image's.
LEMMA TableReads ==
    ASSUME Inv, ReadsFollowTable, TableIsLayout
    PROVE  ReadsFollowPolicy
<1>1. ASSUME NEW t \in Threads, call[t].st = "ok", NEW pos,
             pos \div img.chunk_size + 1 \in 1 .. Len(img.chunks)
      PROVE  ByteAt(pos) = ByteIn(pos \div img.chunk_size + 1, pos % img.chunk_size)
  <2>. DEFINE k == pos \div img.chunk_size + 1
  <2>1. Ready /\ img = Outcome(config) /\ config \in Configs /\ img # Refused
    BY <1>1, ImageFacts DEF Inv, Ready
  <2>2. k \in DOMAIN img.chunks
    <3>1. img.chunks \in Seq(Chunk)
      BY <2>1, OutcomeFacts
    <3>. QED  BY <1>1, <3>1, LenProperties
  <2>. HIDE DEF k
  <2>3. /\ img.chunks[k].segment = Layout(FilesOf(config), k).segment
        /\ img.chunks[k].data_offset = Layout(FilesOf(config), k).data_offset
        /\ img.chunks[k].compressed = Layout(FilesOf(config), k).compressed
    BY <2>1, <2>2 DEF TableIsLayout
  <2>. QED  BY <2>3 DEF ByteAt, ByteIn, k
<1>2. ASSUME NEW t \in Threads, call[t].st = "ok"
      PROVE  LET c == call[t]
                 n == Min({c.len, img.image_size - c.off})
             IN  /\ Len(c.out) = n
                 /\ \A j \in 1 .. n :
                      LET pos == c.off + j - 1
                          k   == pos \div img.chunk_size + 1
                      IN  ~CutShort(k) => /\ c.out[j] = ByteAt(pos)
                                          /\ config.policy = "Error" => k \notin config.bad
  <2>. DEFINE c == call[t]
              n == Min({c.len, img.image_size - c.off})
  <2>1. /\ Len(c.out) = n
        /\ \A j \in 1 .. n :
             LET pos == c.off + j - 1
                 k   == pos \div img.chunk_size + 1
             IN  /\ k \in 1 .. Len(img.chunks)
                 /\ ~CutShort(k) => /\ c.out[j] = ByteIn(k, pos % img.chunk_size)
                                    /\ config.policy = "Error" => k \notin config.bad
    BY <1>2 DEF ReadsFollowTable
  <2>2. ASSUME NEW j \in 1 .. n
        PROVE  LET pos == c.off + j - 1
                   k   == pos \div img.chunk_size + 1
               IN  ~CutShort(k) => /\ c.out[j] = ByteAt(pos)
                                   /\ config.policy = "Error" => k \notin config.bad
    <3>. DEFINE pos == c.off + j - 1
                k   == pos \div img.chunk_size + 1
    <3>1. /\ k \in 1 .. Len(img.chunks)
          /\ ~CutShort(k) => /\ c.out[j] = ByteIn(k, pos % img.chunk_size)
                             /\ config.policy = "Error" => k \notin config.bad
      BY <2>1, <2>2
    <3>. HIDE DEF pos
    <3>2. ByteAt(pos) = ByteIn(k, pos % img.chunk_size)
      BY <1>1, <1>2, <3>1
    <3>. QED  BY <3>1, <3>2 DEF pos
  <2>. QED  BY <2>1, <2>2
<1>. QED  BY <1>2 DEF ReadsFollowPolicy


\* The invariant implies the types.
LEMMA InvType == ASSUME Inv PROVE TypeOK
<1>1. img = Absent \/ img.ok \in BOOLEAN
  <2>1. CASE img = Outcome(config) /\ Outcome(config) # Refused
    BY <2>1, OutcomeFacts DEF Inv
  <2>2. CASE img = Refused
    BY <2>2 DEF Refused
  <2>. QED  BY <2>1, <2>2 DEF Inv
<1>2. DOMAIN chunks \subseteq Nat
  <2>1. lru \in Seq(Nat) /\ DOMAIN chunks = Elems(lru, Len(lru))
    BY DEF Inv, CacheShape
  <2>. QED  BY <2>1, ElementOfSeq DEF Elems
<1>3. ASSUME NEW t \in Threads
      PROVE  /\ call[t].st \in {"idle", "running", "ok", "err", "panic"}
             /\ call[t].off \in Nat /\ call[t].len \in Nat /\ call[t].n \in 0 .. call[t].len
             /\ call[t].made \in 0 .. MaxCalls
             /\ call[t].workers \in Seq(Workers)
             /\ call[t].task \in Seq(Final \cup {"todo", "fetch", "insert"})
             /\ call[t].out \in Seq(Bytes)
  <2>1. PICK c : c = call[t]
    OBVIOUS
  <2>2. c \in CallType /\ c.n <= c.len
    BY <2>1 DEF Inv, CallsInv, CallOK
  <2>3. TaskStates = Final \cup {"todo", "fetch", "insert"}
    BY DEF TaskStates, Final
  <2>4. c.n \in 0 .. c.len
    BY <2>2 DEF CallType
  <2>. QED  BY <2>1, <2>2, <2>3, <2>4 DEF CallType
<1>. QED  BY <1>1, <1>2, <1>3 DEF Inv, TypeOK, CacheShape

\* The invariant implies that the cache is consistent.
LEMMA InvCache == ASSUME Inv PROVE CacheConsistent
<1>1. /\ lru \in Seq(Nat) /\ Distinct(lru) /\ Elems(lru, Len(lru)) = DOMAIN chunks
      /\ Len(lru) <= Capacity
  BY DEF Inv, CacheShape
<1>2. Range(lru) = Elems(lru, Len(lru))
  BY <1>1, RangeIsElems
<1>3. Len(lru) = Cardinality(Range(lru))
  BY <1>1, <1>2, DistinctCount, LenProperties
<1>4. ASSUME NEW k \in DOMAIN chunks
      PROVE  IF CutShort(k) THEN Len(chunks[k]) = DecodedLen(k)
             ELSE chunks[k] = Payload(k, <<>>)
  <2>1. /\ k \in 1 .. Len(img.chunks) /\ DecodedLen(k) \in Nat
        /\ \E v \in Workers : chunks[k] = Payload(k, v) /\ Payload(k, v) # Absent
    BY DEF Inv, Holds, Payloads, InImage
  <2>2. PICK v \in Workers : chunks[k] = Payload(k, v) /\ Payload(k, v) # Absent
    BY <2>1
  <2>3. CASE CutShort(k)
    <3>1. Ready
      BY DEF Inv
    <3>3. Covered
      BY <3>1, ImageFacts DEF Inv, Ready
    <3>. QED  BY <2>1, <2>2, <2>3, <3>3, PayloadFacts
  <2>4. CASE ~CutShort(k)
    BY <2>2, <2>4, SamePayload
  <2>. QED  BY <2>3, <2>4
<1>. QED  BY <1>1, <1>2, <1>3, <1>4 DEF CacheConsistent, Capacity

\* The invariant implies the bound on the workers.
LEMMA InvWorkers == ASSUME Inv PROVE WorkersBounded
<1>. SUFFICES ASSUME img \notin {Absent, Refused}
              PROVE  Len(pool) + CheckedOut <= Cardinality(Threads) * Len(img.chunks)
  BY DEF WorkersBounded
<1>1. Ready
  BY OutcomeFacts DEF Inv, Ready
<1>2. CheckedOut = SumFunction(Lengths)
  BY DEF CheckedOut, Lengths
<1>. QED  BY <1>1, <1>2 DEF Inv, PoolBound

\* Type correctness, for any image, any threads and any reads.
THEOREM TypeCorrect == Spec => []TypeOK
BY InvHolds, InvType, PTL

\* The decoded-chunk cache is in order whichever tasks raced to fill it: it holds each
\* chunk once, the order of use names exactly the chunks held, no more of them than the
\* capacity, and each is the chunk's whole payload (DecodedChunkCache).
THEOREM CacheIsConsistent == Spec => []CacheConsistent
BY InvHolds, InvCache, PTL

\* However many calls fail, panic or overlap, the workers at rest and those out are no
\* more than the calls under way at one time could need (checkout_workers,
\* return_workers).
THEOREM WorkersAreBounded == Spec => []WorkersBounded
BY InvHolds, InvWorkers, PTL

\* A read that succeeds has filled its whole buffer with the bytes of the chunk table,
\* whatever order its tasks ran in, whichever of them came from the cache, and whoever
\* else was reading (read_at_offset, ReadWorker).
THEOREM ReadsAreOfTheTable == Spec => []ReadsFollowTable
BY InvHolds, InvReads, PTL

\* And if the chunk table has the chunks where the files have them, those are the bytes
\* of the image at its offsets, as the policy has them (read_at_offset, ReadWorker).
THEOREM ReadsAreOfTheImage == ASSUME TableIsLayout PROVE Spec => []ReadsFollowPolicy
<1>1. Inv => ReadsFollowPolicy
  BY InvReads, TableReads
<1>. QED  BY <1>1, InvHolds, PTL


-----------------------------------------------------------------------------
(* Panics.                                                                 *)

\* The image cannot lead a read into the state of another: with a cache of decoded
\* chunks, a payload is as long as its part of the image; without one, nothing makes
\* read_uncompressed return before it gives its worker the buffer back.
NothingSpills ==
    Ready => \A k \in 1 .. Len(img.chunks) :
        checked_chunk_len(k) /\ ~img.chunks[k].compressed =>
            LET p == verify_uncompressed_payload(k)
            IN  IF config.decoded
                THEN p # Absent => DecodedLen(k) <= Len(p)
                ELSE ~config.faults /\ p # Absent

\* The chunks that pass the check a task begins with.
Checked == {k \in 1 .. Len(img.chunks) : checked_chunk_len(k)}

\* The chunks that are cut short.
Cut == {k \in 1 .. Len(img.chunks) : CutShort(k)}

\* Where the part of the chunk of task i ends in it.
EndOf(im, c, i) ==
    LET from == (ChunkAt(im, c, i) - 1) * im.chunk_size
    IN  Min({c.off + c.n - from, Min({im.image_size - from, im.chunk_size})})

\* A task fetches a chunk that passed the check, and panics over a short one.
TaskTold(im, pay, good, cut, c, i) ==
    LET k == ChunkAt(im, c, i)
    IN  /\ c.task[i] = "fetch" => k \in good
        /\ c.task[i] = "panic" =>
            /\ k \in DOMAIN pay /\ k \notin cut
            /\ pay[k][<<>>] # Absent /\ EndOf(im, c, i) > Len(pay[k][<<>>])

CallTold(im, pay, good, cut, c) ==
    /\ c.workers \in Seq(Seq(Bytes))
    /\ c.st = "idle" => c.task = <<>>
    /\ c.st = "panic" => \E i \in DOMAIN c.task : c.task[i] = "panic"
    /\ \A i \in DOMAIN c.task : TaskTold(im, pay, good, cut, c, i)

\* No lock is poisoned, no worker is without its buffer, and every panic is told.
Told ==
    /\ poisoned = FALSE
    /\ pool \in Seq(Seq(Bytes))
    /\ \A t \in Threads : CallTold(img, Payloads, Checked, Cut, call[t])

\* Which chunks pass the check of their length depends on the image alone.
LEMMA CheckedKept == ASSUME UNCHANGED <<config, img>> PROVE Checked' = Checked /\ Cut' = Cut
BY DEF Checked, Cut, CutShort, checked_chunk_len, StoredLen

\* A step of one call.
LEMMA StepTold ==
    ASSUME Inv, Told, NEW t \in Threads, NEW c, call' = [call EXCEPT ![t] = c],
           CallTold(img, Payloads, Checked, Cut, c),
           UNCHANGED <<config, img>>, poisoned' = FALSE, pool' \in Seq(Seq(Bytes))
    PROVE  Told'
<1>1. Payloads' = Payloads /\ Checked' = Checked /\ Cut' = Cut
  BY PayloadsKept, CheckedKept
<1>2. \A u \in Threads : call'[u] = IF u = t THEN c ELSE call[u]
  BY DEF Inv, CallsInv
<1>3. \A u \in Threads : CallTold(img, Payloads, Checked, Cut, call'[u])
  BY <1>2 DEF Told
<1>. QED  BY <1>1, <1>3 DEF Told

\* A call whose task i has come to st.
LEMMA TaskSetTold ==
    ASSUME NEW im, NEW pay, NEW good, NEW cut, NEW c, CallTold(im, pay, good, cut, c), c.st = "running",
           c.task \in Seq(TaskStates), NEW i \in 1 .. Len(c.task), NEW st \in TaskStates,
           st = "fetch" => ChunkAt(im, c, i) \in good,
           st = "panic" =>
               LET k == ChunkAt(im, c, i)
               IN  /\ k \in DOMAIN pay /\ k \notin cut
                   /\ pay[k][<<>>] # Absent /\ EndOf(im, c, i) > Len(pay[k][<<>>]),
           NEW d, d.st = "running", d.off = c.off, d.n = c.n, d.task = [c.task EXCEPT ![i] = st],
           d.workers \in Seq(Seq(Bytes))
    PROVE  CallTold(im, pay, good, cut, d)
<1>1. \A j : ChunkAt(im, d, j) = ChunkAt(im, c, j)
  BY DEF ChunkAt
<1>2. \A j : EndOf(im, d, j) = EndOf(im, c, j)
  BY <1>1 DEF EndOf
<1>3. DOMAIN d.task = DOMAIN c.task
  OBVIOUS
<1>4. ASSUME NEW j \in DOMAIN c.task PROVE TaskTold(im, pay, good, cut, d, j)
  <2>1. TaskTold(im, pay, good, cut, c, j)
    BY <1>4 DEF CallTold
  <2>2. CASE j = i
    <3>1. d.task[j] = st
      BY <1>4, <2>2
    <3>. QED  BY <1>1, <1>2, <2>2, <3>1 DEF TaskTold
  <2>3. CASE j # i
    <3>1. d.task[j] = c.task[j]
      BY <1>4, <2>3
    <3>. QED  BY <1>1, <1>2, <2>1, <3>1 DEF TaskTold
  <2>. QED  BY <2>2, <2>3
<1>. QED  BY <1>3, <1>4 DEF CallTold

\* What a step of task i of a running call may rely on.
LEMMA RunsTold ==
    ASSUME Inv, Told, NothingSpills, NEW t \in Threads, NEW i \in DOMAIN call[t].task,
           call[t].st = "running"
    PROVE  LET c == call[t]
               k == ChunkOf(t, i)
           IN  /\ c \in CallType /\ CallTold(img, Payloads, Checked, Cut, c)
               /\ i \in 1 .. Len(c.task) /\ k = ChunkAt(img, c, i)
               /\ i \in 1 .. Len(c.workers) /\ c.workers[i] \in Seq(Bytes)
               /\ k \in 1 .. Len(img.chunks) /\ k \in DOMAIN Payloads
               /\ \A w \in Workers : Payloads[k][w] = Payload(k, w)
               /\ EndInChunk(t, i) = EndOf(img, c, i)
               /\ EndInChunk(t, i) \in Nat /\ DecodedLen(k) \in Nat
               /\ EndInChunk(t, i) <= DecodedLen(k)
               /\ Covered /\ Ready /\ poisoned = FALSE
<1>. DEFINE c == call[t]
            k == ChunkOf(t, i)
            from == (k - 1) * img.chunk_size
<1>1. /\ CallOK(img, Payloads, c) /\ i \in 1 .. Len(c.task) /\ k = ChunkAt(img, c, i)
      /\ k \in 1 .. Len(img.chunks) /\ k \in InImage
      /\ \A w \in Workers : Payloads[k][w] = Payload(k, w)
      /\ EndInChunk(t, i) \in Nat /\ DecodedLen(k) \in Nat /\ Covered /\ Ready
  BY RunningFacts, TaskChunkFacts, TaskFits
<1>2. c \in CallType /\ Len(c.task) <= Len(c.workers)
  BY <1>1 DEF CallOK
<1>3. CallTold(img, Payloads, Checked, Cut, c) /\ poisoned = FALSE
  BY DEF Told
<1>4. i \in 1 .. Len(c.workers) /\ c.workers[i] \in Seq(Bytes)
  <2>1. c.workers \in Seq(Seq(Bytes)) /\ c.task \in Seq(TaskStates)
    BY <1>2, <1>3 DEF CallTold, CallType
  <2>2. Len(c.workers) \in Nat /\ Len(c.task) \in Nat
    BY <2>1, LenProperties
  <2>3. i \in 1 .. Len(c.workers)
    BY <1>1, <1>2, <2>2
  <2>4. c.workers[i] \in Seq(Bytes)
    <3>. HIDE DEF c
    <3>. QED  BY <2>1, <2>3, ElementOfSeq
  <2>. QED  BY <2>3, <2>4
<1>5. EndInChunk(t, i) = Min({c.off + c.n - from, DecodedLen(k)})
  BY DEF EndInChunk, EndIn
<1>6. EndInChunk(t, i) = EndOf(img, c, i)
  BY <1>1, <1>5 DEF EndOf, DecodedLen
<1>7. EndInChunk(t, i) <= DecodedLen(k)
  <2>1. c.off + c.n - from \in Int
    <3>1. c.off \in Nat /\ c.n \in Nat
      BY <1>2 DEF CallType
    <3>2. k - 1 \in Nat /\ img.chunk_size \in Nat
      <4>1. Len(img.chunks) \in Nat /\ img.chunk_size \in Nat
        BY <1>1, LenProperties DEF Covered
      <4>. HIDE DEF k
      <4>. QED  BY <1>1, <4>1
    <3>3. from \in Nat
      BY <3>2
    <3>. HIDE DEF from, c
    <3>. QED  BY <3>1, <3>3
  <2>. DEFINE x == c.off + c.n - from
              y == DecodedLen(k)
  <2>2. x \in Int /\ y \in Int /\ EndInChunk(t, i) = Min({x, y})
    BY <1>1, <1>5, <2>1
  <2>. HIDE DEF x, y
  <2>3. Min({x, y}) <= y
    BY <2>2, MinPair
  <2>. QED  BY <2>2, <2>3 DEF y
<1>8. k \in DOMAIN Payloads
  BY <1>1 DEF Payloads
<1>. QED  BY <1>1, <1>2, <1>3, <1>4, <1>6, <1>7, <1>8


\* A payload that falls short is that of a raw chunk.
LEMMA ShortIsRaw ==
    ASSUME Covered, NEW k \in 1 .. Len(img.chunks), DecodedLen(k) \in Nat,
           NEW w \in Workers, Payload(k, w) # Absent, NEW x \in Nat, x <= DecodedLen(k),
           x > Len(Payload(k, w))
    PROVE  /\ ~img.chunks[k].compressed /\ ~CutShort(k)
           /\ Payload(k, w) = Payload(k, <<>>)
           /\ Payload(k, w) = verify_uncompressed_payload(k)
<1>1. ~img.chunks[k].compressed
  <2>1. SUFFICES ASSUME img.chunks[k].compressed PROVE FALSE
    OBVIOUS
  <2>2. Len(Payload(k, w)) = DecodedLen(k)
    BY <2>1, InflatedFacts DEF Payload
  <2>. QED  BY <2>2
<1>2. ~CutShort(k)
  BY <1>1 DEF CutShort
<1>. QED  BY <1>1, <1>2, SamePayload DEF Payload

\* A task that moves on with its buffer, and panics only over a chunk too short, keeps
\* Told.
LEMMA TaskGoesOnTold ==
    ASSUME Inv, Told, NothingSpills, NEW t \in Threads, NEW i \in DOMAIN call[t].task,
           call[t].st = "running", NEW st \in TaskStates,
           st = "fetch" => checked_chunk_len(ChunkOf(t, i)),
           st = "panic" => \E v \in Workers : /\ Payload(ChunkOf(t, i), v) # Absent
                                              /\ EndInChunk(t, i) > Len(Payload(ChunkOf(t, i), v)),
           UNCHANGED <<config, img, pool, poisoned>>, NEW w \in Seq(Bytes),
           GoesOn(t, i, st, w) \/ \E p : CopyAndSet(t, i, p, w, st)
    PROVE  Told'
<1>. DEFINE c == call[t]
            k == ChunkOf(t, i)
            x == EndInChunk(t, i)
            ts == [c.task EXCEPT ![i] = st]
            ws == [c.workers EXCEPT ![i] = w]
<1>1. /\ c \in CallType /\ CallTold(img, Payloads, Checked, Cut, c) /\ c.st = "running"
      /\ i \in 1 .. Len(c.task) /\ k = ChunkAt(img, c, i)
      /\ i \in 1 .. Len(c.workers)
      /\ k \in 1 .. Len(img.chunks) /\ k \in DOMAIN Payloads
      /\ \A v \in Workers : Payloads[k][v] = Payload(k, v)
      /\ x = EndOf(img, c, i) /\ poisoned = FALSE
      /\ x \in Nat /\ DecodedLen(k) \in Nat /\ x <= DecodedLen(k) /\ Covered
  BY RunsTold
<1>2. /\ c.task \in Seq(TaskStates) /\ c.workers \in Seq(Seq(Bytes))
      /\ ws \in Seq(Seq(Bytes))
  <2>1. c.task \in Seq(TaskStates)
    BY <1>1 DEF CallType
  <2>2. c.workers \in Seq(Seq(Bytes))
    BY <1>1 DEF CallTold
  <2>. HIDE DEF c
  <2>. QED  BY <1>1, <2>1, <2>2, ExceptSeq
<1>. DEFINE e1 == [c EXCEPT !.task[i] = st]
            e == [e1 EXCEPT !.workers = [e1.workers EXCEPT ![i] = w]]
<1>3. e1 = [st |-> c.st, off |-> c.off, len |-> c.len, n |-> c.n, made |-> c.made,
            workers |-> c.workers, task |-> ts, out |-> c.out]
  <2>1. c = [st |-> c.st, off |-> c.off, len |-> c.len, n |-> c.n, made |-> c.made,
             workers |-> c.workers, task |-> c.task, out |-> c.out]
    BY <1>1 DEF CallType
  <2>. HIDE DEF c
  <2>. QED  BY <2>1
<1>4. e = [st |-> c.st, off |-> c.off, len |-> c.len, n |-> c.n, made |-> c.made,
           workers |-> ws, task |-> ts, out |-> c.out]
  <2>. HIDE DEF e1, c, ts
  <2>. QED  BY <1>3
<1>5. PICK d : /\ call' = [call EXCEPT ![t] = d]
               /\ d.st = "running" /\ d.off = c.off /\ d.n = c.n
               /\ d.task = ts /\ d.workers = ws
  <2>1. CASE GoesOn(t, i, st, w)
    <3>1. call' = [call EXCEPT ![t] = e]
      BY <2>1 DEF GoesOn
    <3>. HIDE DEF e
    <3>2. /\ e.st = "running" /\ e.off = c.off /\ e.n = c.n /\ e.task = ts /\ e.workers = ws
      BY <1>1, <1>4
    <3>. QED  BY <3>1, <3>2
  <2>2. ASSUME NEW p, CopyAndSet(t, i, p, w, st)
        PROVE  \E d : /\ call' = [call EXCEPT ![t] = d]
                      /\ d.st = "running" /\ d.off = c.off /\ d.n = c.n
                      /\ d.task = ts /\ d.workers = ws
    <3>. DEFINE b == Copied(t, i, p)
                g == [e EXCEPT !.out = b]
    <3>. HIDE DEF b
    <3>1. call' = [call EXCEPT ![t] = g]
      BY <2>2 DEF CopyAndSet, b
    <3>. HIDE DEF e
    <3>2. /\ g.st = "running" /\ g.off = c.off /\ g.n = c.n /\ g.task = ts /\ g.workers = ws
      BY <1>1, <1>4
    <3>. QED  BY <3>1, <3>2
  <2>. QED  BY <2>1, <2>2
<1>6. st = "fetch" => k \in Checked
  BY <1>1 DEF Checked
<1>7. st = "panic" => /\ k \notin Cut /\ Payloads[k][<<>>] # Absent
                      /\ EndOf(img, c, i) > Len(Payloads[k][<<>>])
  <2>. SUFFICES ASSUME st = "panic"
                PROVE  /\ k \notin Cut /\ Payloads[k][<<>>] # Absent
                       /\ EndOf(img, c, i) > Len(Payloads[k][<<>>])
    OBVIOUS
  <2>1. PICK v \in Workers : Payload(k, v) # Absent /\ x > Len(Payload(k, v))
    OBVIOUS
  <2>. HIDE DEF k, x
  <2>2. ~CutShort(k) /\ Payload(k, v) = Payload(k, <<>>)
    BY <1>1, <2>1, ShortIsRaw
  <2>3. Payloads[k][<<>>] = Payload(k, <<>>)
    BY <1>1, EmptyWorker
  <2>4. k \notin Cut /\ Payloads[k][<<>>] # Absent
    BY <2>1, <2>2, <2>3 DEF Cut
  <2>5. EndOf(img, c, i) = x
    BY <1>1
  <2>. QED  BY <2>1, <2>2, <2>3, <2>4, <2>5
<1>8. CallTold(img, Payloads, Checked, Cut, d)
  <2>1. d.task = [c.task EXCEPT ![i] = st] /\ d.workers \in Seq(Seq(Bytes))
    BY <1>2, <1>5
  <2>2. d.st = "running" /\ d.off = c.off /\ d.n = c.n /\ c.task \in Seq(TaskStates)
    BY <1>2, <1>5
  <2>3. /\ CallTold(img, Payloads, Checked, Cut, c) /\ c.st = "running"
        /\ i \in 1 .. Len(c.task)
        /\ st = "fetch" => ChunkAt(img, c, i) \in Checked
    BY <1>1, <1>6
  <2>4. st = "panic" =>
          /\ ChunkAt(img, c, i) \in DOMAIN Payloads /\ ChunkAt(img, c, i) \notin Cut
          /\ Payloads[ChunkAt(img, c, i)][<<>>] # Absent
          /\ EndOf(img, c, i) > Len(Payloads[ChunkAt(img, c, i)][<<>>])
    <3>. HIDE DEF k
    <3>. QED  BY <1>1, <1>7
  <2>. HIDE DEF c, ts, ws
  <2>. QED  BY <2>1, <2>2, <2>3, <2>4, TaskSetTold
<1>9. poisoned' = FALSE /\ pool' \in Seq(Seq(Bytes))
  BY <1>1 DEF Told
<1>. QED  BY <1>5, <1>8, <1>9, StepTold

\* A step that only sets the state of a task keeps Told.
LEMMA SetTaskTold ==
    ASSUME Inv, Told, NothingSpills, NEW t \in Threads, NEW i \in DOMAIN call[t].task,
           call[t].st = "running", NEW st \in TaskStates,
           st = "fetch" => checked_chunk_len(ChunkOf(t, i)),
           st = "panic" => \E v \in Workers : /\ Payload(ChunkOf(t, i), v) # Absent
                                              /\ EndInChunk(t, i) > Len(Payload(ChunkOf(t, i), v)),
           UNCHANGED <<config, img, pool, poisoned>>, SetTask(t, i, st)
    PROVE  Told'
<1>1. call[t].workers[i] \in Seq(Bytes)
  BY RunsTold
<1>2. GoesOn(t, i, st, call[t].workers[i])
  BY SetTaskGoesOn
<1>. QED  BY <1>1, <1>2, TaskGoesOnTold

\* A hit has all that its task wants of it, so that no lock is poisoned.
LEMMA StartTold ==
    ASSUME Inv, Told, NothingSpills, NEW t \in Threads, NEW i \in DOMAIN call[t].task,
           Start(t, i)
    PROVE  Told'
<1>. DEFINE k == ChunkOf(t, i)
            w == call[t].workers[i]
<1>1. call[t].st = "running" /\ UNCHANGED <<config, img, pool>>
  BY DEF Start, Runs
<1>2. /\ k \in 1 .. Len(img.chunks) /\ \A v \in Workers : Payloads[k][v] = Payload(k, v)
      /\ Covered /\ Ready /\ w \in Seq(Bytes)
      /\ EndInChunk(t, i) \in Nat /\ DecodedLen(k) \in Nat
      /\ EndInChunk(t, i) <= DecodedLen(k) /\ poisoned = FALSE
  BY <1>1, RunsTold
<1>3. {"err", "fetch", "ok"} \subseteq TaskStates
  BY DEF TaskStates
<1>4. CASE SetTask(t, i, "err") /\ UNCHANGED cache
  BY <1>1, <1>3, <1>4, SetTaskTold DEF cache
<1>5. CASE checked_chunk_len(k) /\ SetTask(t, i, "fetch") /\ UNCHANGED cache
  BY <1>1, <1>3, <1>5, SetTaskTold DEF cache
<1>6. ASSUME checked_chunk_len(k), config.decoded, k \in DOMAIN chunks,
             IF EndInChunk(t, i) > Len(chunks[k])
             THEN SetTask(t, i, "panic") /\ poisoned' = TRUE
             ELSE CopyAndSet(t, i, chunks[k], w, "ok") /\ UNCHANGED poisoned
      PROVE  Told'
  <2>1. PICK v \in Workers : chunks[k] = Payload(k, v) /\ Payload(k, v) # Absent
    BY <1>2, <1>6 DEF Inv, Holds
  <2>2. ~(EndInChunk(t, i) > Len(chunks[k]))
    <3>. DEFINE x == EndInChunk(t, i)
    <3>1. SUFFICES ASSUME x > Len(chunks[k]) PROVE FALSE
      OBVIOUS
    <3>. HIDE DEF k, x
    <3>2. /\ ~img.chunks[k].compressed
          /\ Payload(k, v) = verify_uncompressed_payload(k)
      BY <1>2, <2>1, <3>1, ShortIsRaw DEF x
    <3>3. DecodedLen(k) <= Len(Payload(k, v))
      BY <1>2, <1>6, <2>1, <3>2 DEF NothingSpills
    <3>4. Len(Payload(k, v)) \in Nat
      BY <1>2, <2>1, PayloadFacts, LenProperties
    <3>. QED  BY <1>2, <2>1, <3>1, <3>3, <3>4 DEF x
  <2>3. CopyAndSet(t, i, chunks[k], w, "ok") /\ UNCHANGED poisoned
    BY <1>6, <2>2
  <2>. HIDE DEF w
  <2>. QED  BY <1>1, <1>2, <1>3, <2>3, TaskGoesOnTold
<1>7. poisoned = FALSE
  BY <1>2
<1>. QED  BY <1>4, <1>5, <1>6, <1>7 DEF Start

\* A fetch finds its worker's buffer, and gives it back when it fails.
LEMMA FetchTold ==
    ASSUME Inv, Told, NothingSpills, NEW t \in Threads, NEW i \in DOMAIN call[t].task,
           Fetch(t, i)
    PROVE  Told'
<1>. DEFINE k == ChunkOf(t, i)
            c == call[t]
            w == c.workers[i]
<1>1. /\ c.st = "running" /\ c.task[i] = "fetch"
      /\ UNCHANGED <<config, img, pool, poisoned>>
  BY DEF Fetch, Runs, cache
<1>2. /\ CallTold(img, Payloads, Checked, Cut, c) /\ k = ChunkAt(img, c, i)
      /\ w \in Seq(Bytes) /\ k \in 1 .. Len(img.chunks) /\ Ready /\ Covered
      /\ DecodedLen(k) \in Nat
  BY <1>1, RunsTold
<1>3. checked_chunk_len(k)
  BY <1>1, <1>2 DEF CallTold, TaskTold, Checked
<1>4. HasRoom(k, w)
  <2>1. StoredLen(k) <= img.chunk_size + 4
    BY <1>3 DEF checked_chunk_len
  <2>2. w # Absent
    BY <1>2, AbsentAssumption
  <2>. QED  BY <2>1, <2>2 DEF HasRoom
<1>5. ASSUME NEW v \in Refilled(k, w) \cup Spoiled(k, w)
      PROVE  v \in Seq(Bytes) /\ v \in Workers
  <2>1. w \in Workers
    BY <1>2 DEF Workers
  <2>. HIDE DEF k, w
  <2>. QED  BY <1>2, <1>4, <1>5, <2>1, RefilledFacts
<1>6. {"err", "insert", "ok", "panic"} \subseteq TaskStates
  BY DEF TaskStates
<1>7. ASSUME NEW v \in Seq(Bytes), FailTask(t, i, v), config.faults \/ Payload(k, v) = Absent
      PROVE  Told'
  <2>1. ~LosesBuffer(k)
    BY <1>2, <1>3, <1>7 DEF NothingSpills, LosesBuffer, Payload
  <2>2. GoesOn(t, i, "err", v)
    BY <1>7, <2>1 DEF FailTask, GoesOn
  <2>. QED  BY <1>1, <1>6, <2>2, TaskGoesOnTold
<1>8. ASSUME NEW v \in Workers, v \in Seq(Bytes), Decode(t, i, v) PROVE Told'
  <2>1. CASE Payload(k, v) = Absent /\ FailTask(t, i, v)
    BY <1>7, <1>8, <2>1
  <2>2. CASE /\ Payload(k, v) # Absent /\ EndInChunk(t, i) > Len(Payload(k, v))
             /\ SetTask(t, i, "panic")
    BY <1>1, <1>6, <1>8, <2>2, SetTaskTold
  <2>3. CASE CopyAndSet(t, i, Payload(k, v), v, IF config.decoded THEN "insert" ELSE "ok")
    <3>1. PICK st \in {"insert", "ok"} : CopyAndSet(t, i, Payload(k, v), v, st)
      BY <2>3
    <3>. QED  BY <1>1, <1>6, <1>8, <3>1, TaskGoesOnTold
  <2>. QED  BY <1>8, <2>1, <2>2, <2>3 DEF Decode
<1>9. CASE HasRoom(k, w) /\ config.faults /\ \E v \in Spoiled(k, w) : FailTask(t, i, v)
  BY <1>5, <1>7, <1>9
<1>10. CASE HasRoom(k, w) /\ \E v \in Refilled(k, w) : Decode(t, i, v)
  BY <1>5, <1>8, <1>10
<1>. QED  BY <1>4, <1>9, <1>10 DEF Fetch

\* The insert into the cache and the skipping of a task keep Told.
LEMMA RestOfTaskTold ==
    ASSUME Inv, Told, NothingSpills, NEW t \in Threads, NEW i \in DOMAIN call[t].task,
           Remember(t, i) \/ Skip(t, i)
    PROVE  Told'
<1>1. poisoned = FALSE
  BY DEF Told
<1>2. {"ok", "skipped"} \subseteq TaskStates
  BY DEF TaskStates
<1>3. /\ call[t].st = "running" /\ UNCHANGED <<config, img, pool, poisoned>>
      /\ SetTask(t, i, "ok") \/ SetTask(t, i, "skipped")
  BY <1>1 DEF Remember, Skip, Runs, cache
<1>. QED  BY <1>2, <1>3, SetTaskTold


\* A call that returns gives its workers back, or has panicked in one of its tasks.
LEMMA FinishTold ==
    ASSUME Inv, Told, NEW t \in Threads, Finish(t)
    PROVE  Told'
<1>. DEFINE c == call[t]
            Ends(st) == [c EXCEPT !.st = st, !.workers = <<>>]
<1>1. c.st = "running" /\ UNCHANGED <<config, img, chunks, lru, poisoned>>
  BY DEF Finish, cache
<1>2. c \in CallType /\ CallTold(img, Payloads, Checked, Cut, c)
  BY DEF Inv, CallsInv, CallOK, Told
<1>3. pool \in Seq(Seq(Bytes)) /\ c.workers \in Seq(Seq(Bytes)) /\ poisoned' = FALSE
  BY <1>1, <1>2 DEF Told, CallTold
<1>4. ASSUME NEW st \in {"ok", "err", "panic"}, st = "panic" => Ended(t, "panic")
      PROVE  CallTold(img, Payloads, Checked, Cut, Ends(st))
  <2>. DEFINE d == Ends(st)
  <2>1. /\ d.st = st /\ d.off = c.off /\ d.n = c.n /\ d.task = c.task /\ d.workers = <<>>
    BY <1>2 DEF CallType
  <2>2. st = "panic" => \E i \in DOMAIN c.task : c.task[i] = "panic"
    BY <1>4 DEF Ended
  <2>3. <<>> \in Seq(Seq(Bytes))
    BY EmptySeq
  <2>. HIDE DEF c, d
  <2>4. \A i : ChunkAt(img, d, i) = ChunkAt(img, c, i)
    BY <2>1 DEF ChunkAt
  <2>5. \A i : EndOf(img, d, i) = EndOf(img, c, i)
    BY <2>1, <2>4 DEF EndOf
  <2>6. \A i \in DOMAIN d.task : TaskTold(img, Payloads, Checked, Cut, d, i)
    BY <1>2, <2>1, <2>4, <2>5 DEF CallTold, TaskTold
  <2>7. CallTold(img, Payloads, Checked, Cut, d)
    BY <2>1, <2>2, <2>3, <2>6 DEF CallTold
  <2>. QED  BY <2>7 DEF d
<1>5. pool' \in Seq(Seq(Bytes))
  <2>1. pool' = pool \/ pool' = pool \o c.workers
    BY DEF Finish, return_workers
  <2>. HIDE DEF c
  <2>. QED  BY <1>3, <2>1, ConcatProperties
<1>6. \E st \in {"ok", "err", "panic"} :
        (st = "panic" => Ended(t, "panic")) /\ call' = [call EXCEPT ![t] = Ends(st)]
  <2>1. CASE Ended(t, "panic") /\ call' = [call EXCEPT ![t] = Ends("panic")]
    BY <2>1
  <2>2. CASE call' = [call EXCEPT ![t] = Ends("err")]
    BY <2>2
  <2>3. CASE call' = [call EXCEPT ![t] = Ends("ok")]
    BY <2>3
  <2>. QED  BY <2>1, <2>2, <2>3 DEF Finish
<1>7. PICK st \in {"ok", "err", "panic"} :
        (st = "panic" => Ended(t, "panic")) /\ call' = [call EXCEPT ![t] = Ends(st)]
  BY <1>6
<1>8. CallTold(img, Payloads, Checked, Cut, Ends(st))
  BY <1>4, <1>7
<1>. HIDE DEF Ends
<1>. QED  BY <1>1, <1>3, <1>5, <1>7, <1>8, StepTold

\* Every task of a read has its chunk and a worker with a buffer when it begins.
LEMMA BeginTold ==
    ASSUME Inv, Told, NEW t \in Threads, NEW off \in Nat, NEW len \in Nat,
           Begin(t, off, len)
    PROVE  Told'
<1>. DEFINE n == Clamp(off, len)
            m == EndChunk(off + n) - BegChunk(off)
            w == checkout_workers(m)
            cl == Called(t, off, len)
            run == [cl EXCEPT !.st = "running", !.n = n, !.workers = w.taken,
                              !.task = [i \in DOMAIN TaskChunks(off, n) |-> "todo"],
                              !.out = [i \in 1 .. n |-> Unread]]
<1>1. /\ Ready /\ UNCHANGED <<config, img>> /\ Covered /\ pool \in Seq(Seq(Bytes))
      /\ poisoned = FALSE /\ call[t].made + 1 \in 0 .. MaxCalls
  <2>1. Ready /\ SumFunction([u \in Threads |-> call[u].made]) < MaxCalls
        /\ UNCHANGED <<config, img>>
    BY DEF Begin, Ready
  <2>2. Covered /\ CallsInv
    BY <2>1, ImageFacts DEF Inv, Ready
  <2>. QED  BY <2>1, <2>2, MadeBound DEF Told
<1>2. cl = [st |-> "idle", off |-> off, len |-> len, n |-> 0, made |-> call[t].made + 1,
            workers |-> <<>>, task |-> <<>>, out |-> <<>>]
  BY CalledIs
<1>3. CASE call' = [call EXCEPT ![t] = [cl EXCEPT !.st = "err"]] /\ UNCHANGED <<pool, cache>>
  <2>. DEFINE d == [cl EXCEPT !.st = "err"]
  <2>1. d.st = "err" /\ d.workers = <<>> /\ d.task = <<>>
    <3>. HIDE DEF cl
    <3>. QED  BY <1>2
  <2>. HIDE DEF d
  <2>2. <<>> \in Seq(Seq(Bytes)) /\ DOMAIN d.task = {}
    BY <2>1, EmptySeq
  <2>3. CallTold(img, Payloads, Checked, Cut, d)
    BY <2>1, <2>2 DEF CallTold
  <2>4. call' = [call EXCEPT ![t] = d] /\ pool' \in Seq(Seq(Bytes)) /\ poisoned' = FALSE
    BY <1>1, <1>3 DEF d, cache
  <2>. QED  BY <1>1, <2>3, <2>4, StepTold
<1>4. ASSUME off <= img.image_size,
             call' = [call EXCEPT ![t] = IF TasksFit(off, n, w.taken)
                                         THEN run ELSE [cl EXCEPT !.st = "panic"]],
             pool' = w.left, UNCHANGED poisoned
      PROVE  Told'
  <2>1. n \in Nat /\ off + n <= img.image_size
    BY <1>1, <1>4, ClampFacts
  <2>2. m \in Nat
    <3>1. m \in 0 .. Len(img.chunks)
      <4>. HIDE DEF n
      <4>. QED  BY <1>1, <2>1, TaskFacts
    <3>2. Len(img.chunks) \in Nat
      BY <1>1, LenProperties DEF Covered
    <3>. HIDE DEF m
    <3>. QED  BY <3>1, <3>2
  <2>3. w.taken \in Seq(Seq(Bytes)) /\ Len(w.taken) = m /\ w.left \in Seq(Seq(Bytes))
    <3>. HIDE DEF m
    <3>. QED  BY <1>1, <2>2, EmptyWorker, CheckoutFacts
  <2>4. w.taken \in Seq(Workers)
    BY <1>1, <2>2, EmptyWorker, CheckoutFacts DEF Inv
  <2>5. TasksFit(off, n, w.taken)
    <3>1. n = Clamp(off, len) /\ Len(w.taken) = EndChunk(off + n) - BegChunk(off)
      BY <2>3
    <3>. HIDE DEF w, n
    <3>. QED  BY <1>1, <1>4, <2>4, <3>1, BegunCallOK
  <2>. DEFINE tasks == [i \in DOMAIN TaskChunks(off, n) |-> "todo"]
              buf == [i \in 1 .. n |-> Unread]
  <2>6. run.st = "running" /\ run.workers = w.taken /\ run.task = tasks
    <3>1. run = [st |-> "running", off |-> off, len |-> len, n |-> n, made |-> call[t].made + 1,
                 workers |-> w.taken, task |-> tasks, out |-> buf]
      <4>1. run = Begun(t, off, len, n, w.taken, tasks, buf)
        BY DEF Begun
      <4>. HIDE DEF w, n, tasks, buf, run
      <4>. QED  BY <4>1, BegunIs
    <3>. HIDE DEF run
    <3>. QED  BY <3>1
  <2>7. \A i \in DOMAIN run.task : run.task[i] = "todo"
    BY <2>6
  <2>. DEFINE d == run
  <2>. HIDE DEF d
  <2>8. CallTold(img, Payloads, Checked, Cut, d)
    <3>1. d.st = "running" /\ d.workers \in Seq(Seq(Bytes)) /\ \A i \in DOMAIN d.task : d.task[i] = "todo"
      BY <2>3, <2>6, <2>7 DEF d
    <3>. QED  BY <3>1 DEF CallTold, TaskTold
  <2>9. call' = [call EXCEPT ![t] = d] /\ pool' \in Seq(Seq(Bytes)) /\ poisoned' = FALSE
    BY <1>1, <1>4, <2>3, <2>5 DEF d
  <2>. QED  BY <1>1, <2>8, <2>9, StepTold
<1>5. \/ call' = [call EXCEPT ![t] = [cl EXCEPT !.st = "err"]] /\ UNCHANGED <<pool, cache>>
      \/ /\ off <= img.image_size
         /\ call' = [call EXCEPT ![t] = IF TasksFit(off, n, w.taken)
                                        THEN run ELSE [cl EXCEPT !.st = "panic"]]
         /\ pool' = w.left /\ UNCHANGED poisoned
  BY <1>1 DEF Begin
<1>. QED  BY <1>3, <1>4, <1>5

\* Told holds at first.
LEMMA InitTold == ASSUME Init PROVE Told
<1>1. poisoned = FALSE /\ pool = <<>> /\ call = [t \in Threads |-> NoCall]
  BY DEF Init
<1>2. <<>> \in Seq(Seq(Bytes))
  BY EmptySeq
<1>3. NoCall.workers = <<>> /\ NoCall.task = <<>> /\ NoCall.st = "idle"
  BY DEF NoCall
<1>4. CallTold(img, Payloads, Checked, Cut, NoCall)
  BY <1>2, <1>3 DEF CallTold
<1>. QED  BY <1>1, <1>2, <1>4 DEF Told

\* Opening the image keeps Told.
LEMMA OpenTold == ASSUME Inv, Told, Open PROVE Told'
<1>1. img = Absent /\ UNCHANGED <<pool, poisoned, call>>
  BY DEF Open, cache
<1>2. \A t \in Threads : call[t].st = "idle"
  BY <1>1 DEF Inv, Ready
<1>3. ASSUME NEW t \in Threads PROVE CallTold(img', Payloads', Checked', Cut', call[t])
  <2>1. /\ call[t].workers \in Seq(Seq(Bytes)) /\ call[t].task = <<>> /\ call[t].st = "idle"
    BY <1>2 DEF Told, CallTold
  <2>2. DOMAIN call[t].task = {}
    BY <2>1
  <2>. QED  BY <2>1, <2>2 DEF CallTold
<1>. QED  BY <1>1, <1>3 DEF Told

\* Every step keeps Told, as long as nothing spills.
LEMMA NextTold == ASSUME Inv, Told, NothingSpills, [Next]_vars PROVE Told'
<1>1. CASE Open
  BY <1>1, OpenTold
<1>2. ASSUME NEW t \in Threads, NEW r \in Reads, Begin(t, r[1], r[2]) PROVE Told'
  <2>1. r[1] \in Nat /\ r[2] \in Nat
    BY E01Assumption
  <2>. QED  BY <1>2, <2>1, BeginTold
<1>3. ASSUME NEW t \in Threads, NEW i \in DOMAIN call[t].task, TaskStep(t, i) PROVE Told'
  BY <1>3, StartTold, FetchTold, RestOfTaskTold DEF TaskStep
<1>4. ASSUME NEW t \in Threads, Finish(t) PROVE Told'
  BY <1>4, FinishTold
<1>5. CASE Rest \/ UNCHANGED vars
  <2>1. UNCHANGED <<config, img, pool, call, chunks, lru, poisoned>>
    BY <1>5 DEF Rest, vars, cache
  <2>2. Payloads' = Payloads /\ Checked' = Checked /\ Cut' = Cut
    BY <2>1, PayloadsKept, CheckedKept
  <2>. QED  BY <2>1, <2>2 DEF Told
<1>. QED  BY <1>1, <1>2, <1>3, <1>4, <1>5 DEF Next, CallStep

\* Told implies that panics are contained.
LEMMA ToldContains == ASSUME Told PROVE PanicsAreContained
<1>. SUFFICES ASSUME NEW t \in Threads
              PROVE  /\ call[t].st = "panic" => Ended(t, "panic")
                     /\ \A i \in DOMAIN call[t].task : call[t].task[i] = "panic" =>
                          /\ ~CutShort(ChunkOf(t, i))
                          /\ Payload(ChunkOf(t, i), <<>>) # Absent
                          /\ EndInChunk(t, i) > Len(Payload(ChunkOf(t, i), <<>>))
  BY DEF PanicsAreContained
<1>1. CallTold(img, Payloads, Checked, Cut, call[t])
  BY DEF Told
<1>2. call[t].st = "panic" => Ended(t, "panic")
  BY <1>1 DEF CallTold, Ended
<1>3. ASSUME NEW i \in DOMAIN call[t].task, call[t].task[i] = "panic"
      PROVE  /\ ~CutShort(ChunkOf(t, i))
             /\ Payload(ChunkOf(t, i), <<>>) # Absent
             /\ EndInChunk(t, i) > Len(Payload(ChunkOf(t, i), <<>>))
  <2>1. TaskTold(img, Payloads, Checked, Cut, call[t], i)
    BY <1>1 DEF CallTold
  <2>2. ChunkOf(t, i) = ChunkAt(img, call[t], i)
    BY DEF ChunkOf, ChunkAt, BegChunk
  <2>3. /\ Payloads[ChunkOf(t, i)][<<>>] # Absent
        /\ EndOf(img, call[t], i) > Len(Payloads[ChunkOf(t, i)][<<>>])
        /\ ChunkOf(t, i) \in DOMAIN Payloads /\ ChunkOf(t, i) \notin Cut
    BY <1>3, <2>1, <2>2 DEF TaskTold
  <2>4. /\ Payloads[ChunkOf(t, i)][<<>>] = Payload(ChunkOf(t, i), <<>>)
        /\ ~CutShort(ChunkOf(t, i))
    BY <2>3, EmptyWorker DEF Payloads, InImage, Cut
  <2>5. EndInChunk(t, i) = EndOf(img, call[t], i)
    BY <2>2 DEF EndInChunk, EndIn, EndOf, DecodedLen
  <2>. QED  BY <2>3, <2>4, <2>5
<1>. QED  BY <1>2, <1>3

\* As long as every payload that may be cached is whole, and nothing makes a read
\* without the cache return before it gives a buffer back, a panic is the affair of the
\* read it happens in: no lock is poisoned, no worker comes back without its buffer, and
\* the only panics left are those over a chunk shorter than a read wants it
\* (ReadWorker, read_at_offset).
THEOREM PanicsStayContained == Spec /\ []NothingSpills => []PanicsAreContained
<1>1. Init => Told
  BY InitTold
<1>2. Inv /\ Told /\ NothingSpills /\ [Next]_vars => Told'
  BY NextTold
<1>3. Told => PanicsAreContained
  BY ToldContains
<1>. QED  BY <1>1, <1>2, <1>3, InvHolds, PTL DEF Spec
=============================================================================
