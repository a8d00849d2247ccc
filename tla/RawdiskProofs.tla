--------------------------- MODULE RawdiskProofs ---------------------------
(***************************************************************************)
(* Proofs about RawdiskReader, for every set of images, every base the     *)
(* numbers are written to, and every width of a usize.                     *)
(***************************************************************************)
EXTENDS RawdiskReader, FiniteSetTheorems, SequenceTheorems, WellFoundedInduction, TLAPS

-----------------------------------------------------------------------------
(* Induction and extrema, as facts about sets of numbers.                  *)

\* A set of natural numbers has a least element.
LEMMA LeastOf ==
    ASSUME NEW T \in SUBSET Nat, T # {}
    PROVE  \E x \in T : \A y \in T : x <= y
<1>. DEFINE R == {ss \in Nat \X Nat : ss[1] < ss[2]}
<1>1. IsWellFoundedOn(R, Nat)
  BY NatLessThanWellFounded, Zenon DEF OpToRel
<1>2. \A x, y \in Nat : x < y => <<x, y>> \in R
  OBVIOUS
<1>. HIDE DEF R
<1>3. PICK x \in T : \A y \in T : ~(<<y, x>> \in R)
  BY <1>1, WFMin
<1>4. \A y \in T : ~(y < x)
  BY <1>2, <1>3
<1>. QED  BY <1>4

\* What holds of 0 and of the next number holds of all up to m.
LEMMA UpwardTo ==
    ASSUME NEW m \in Nat, NEW S, 0 \in S, \A i \in 1 .. m : i - 1 \in S => i \in S
    PROVE  0 .. m \subseteq S
<1>. SUFFICES ASSUME NEW z \in 0 .. m, z \notin S PROVE FALSE
  OBVIOUS
<1>. DEFINE T == {i \in 0 .. m : i \notin S}
<1>1. T \in SUBSET Nat /\ T # {}
  OBVIOUS
<1>2. PICK x \in T : \A y \in T : x <= y
  <2>. HIDE DEF T
  <2>. QED  BY <1>1, LeastOf
<1>3. x \in 0 .. m /\ x # 0
  OBVIOUS
<1>4. x \in 1 .. m /\ x - 1 \in 0 .. m
  BY <1>3
<1>5. x - 1 \in S
  BY <1>2, <1>4
<1>. QED  BY <1>4, <1>5

\* What does not fall from one number to the next does not fall at all.
LEMMA Rises ==
    ASSUME NEW N \in Nat, NEW f, \A i \in 0 .. N : f[i] \in Nat,
           \A i \in 1 .. N : f[i - 1] <= f[i]
    PROVE  \A i, j \in 0 .. N : i <= j => f[i] <= f[j]
<1>. SUFFICES ASSUME NEW i \in 0 .. N PROVE \A j \in 0 .. N : i <= j => f[i] <= f[j]
  OBVIOUS
<1>. DEFINE G == {j \in 0 .. N : i <= j => f[i] <= f[j]}
<1>1. 0 \in G
  <2>1. i <= 0 => i = 0
    OBVIOUS
  <2>. QED  BY <2>1
<1>2. ASSUME NEW j \in 1 .. N, j - 1 \in G PROVE j \in G
  <2>1. j \in 0 .. N /\ j - 1 \in 0 .. N
    OBVIOUS
  <2>2. f[i] \in Nat /\ f[j] \in Nat /\ f[j - 1] \in Nat /\ f[j - 1] <= f[j]
    BY <2>1
  <2>3. CASE i <= j - 1
    <3>1. f[i] <= f[j - 1]
      BY <1>2, <2>3
    <3>2. f[i] <= f[j]
      BY <2>2, <3>1
    <3>. QED  BY <2>1, <3>2
  <2>4. CASE ~(i <= j - 1)
    <3>1. i <= j => i = j
      BY <2>4
    <3>2. i <= j => f[i] <= f[j]
      BY <2>2, <3>1
    <3>. QED  BY <2>1, <3>2
  <2>. QED  BY <2>3, <2>4
<1>3. 0 .. N \subseteq G
  <2>. HIDE DEF G
  <2>. QED  BY <1>1, <1>2, UpwardTo
<1>. QED  BY <1>3

\* A set of numbers with a bound has a greatest element.
LEMMA GreatestOf ==
    ASSUME NEW b \in Nat, NEW T \in SUBSET (0 .. b), T # {}
    PROVE  Max(T) \in T /\ \A y \in T : Max(T) >= y
<1>. DEFINE U == {b - x : x \in T}
<1>1. U \in SUBSET Nat /\ U # {}
  <2>1. \A x \in T : b - x \in Nat
    OBVIOUS
  <2>. QED  BY <2>1
<1>2. PICK u \in U : \A y \in U : u <= y
  <2>. HIDE DEF U
  <2>. QED  BY <1>1, LeastOf
<1>3. PICK x \in T : u = b - x
  BY <1>2
<1>4. ASSUME NEW y \in T PROVE x >= y
  <2>1. b - x <= b - y
    BY <1>2, <1>3
  <2>. QED  BY <1>3, <2>1
<1>5. \E z \in T : \A y \in T : z >= y
  BY <1>3, <1>4
<1>. QED  BY <1>5 DEF Max

\* The lesser of two numbers.
LEMMA LesserOf ==
    ASSUME NEW a \in Int, NEW b \in Int
    PROVE  Min({a, b}) = IF a <= b THEN a ELSE b
<1>1. PICK x \in {a, b} : \A y \in {a, b} : x <= y
  OBVIOUS
<1>2. Min({a, b}) \in {a, b} /\ \A y \in {a, b} : Min({a, b}) <= y
  BY <1>1 DEF Min
<1>. QED  BY <1>2

\* The greater of two numbers.
LEMMA GreaterOf ==
    ASSUME NEW a \in Int, NEW b \in Int
    PROVE  Max({a, b}) = IF a <= b THEN b ELSE a
<1>1. PICK x \in {a, b} : \A y \in {a, b} : x >= y
  OBVIOUS
<1>2. Max({a, b}) \in {a, b} /\ \A y \in {a, b} : Max({a, b}) >= y
  BY <1>1 DEF Max
<1>. QED  BY <1>2

-----------------------------------------------------------------------------
(* The lengths of the segments added up.                                   *)

\* g[i] is the sum of the first i of ls.
SumsUp(ls, g, m) == g = [i \in 0 .. m |-> IF i = 0 THEN 0 ELSE g[i - 1] + ls[i]]

\* The recursive function of the segments' starts exists up to any length.
LEMMA SumsExist == ASSUME NEW ls, NEW m \in Nat PROVE \E g : SumsUp(ls, g, m)
<1>. DEFINE Good == {k \in Nat : \E g : SumsUp(ls, g, k)}
<1>1. 0 \in Good
  <2>. DEFINE h == [i \in 0 .. 0 |-> 0]
  <2>1. h = [i \in 0 .. 0 |-> IF i = 0 THEN 0 ELSE h[i - 1] + ls[i]]
    <3>1. \A i \in 0 .. 0 : i = 0
      OBVIOUS
    <3>. QED  BY <3>1
  <2>2. SumsUp(ls, h, 0)
    <3>. HIDE DEF h
    <3>. QED  BY <2>1 DEF SumsUp
  <2>. QED  BY <2>2
<1>2. ASSUME NEW k \in 1 .. m, k - 1 \in Good PROVE k \in Good
  <2>1. PICK g : SumsUp(ls, g, k - 1)
    BY <1>2
  <2>. DEFINE h == [i \in 0 .. k |-> IF i = 0 THEN 0 ELSE g[i - 1] + ls[i]]
  <2>2. \A i \in 0 .. k - 1 : h[i] = g[i]
    <3>1. \A i \in 0 .. k - 1 : g[i] = IF i = 0 THEN 0 ELSE g[i - 1] + ls[i]
      BY <2>1 DEF SumsUp
    <3>2. \A i \in 0 .. k - 1 : i \in 0 .. k
      OBVIOUS
    <3>. QED  BY <3>1, <3>2
  <2>3. \A i \in 0 .. k : i # 0 => i - 1 \in 0 .. k - 1
    OBVIOUS
  <2>4. SumsUp(ls, h, k)
    BY <2>2, <2>3 DEF SumsUp
  <2>5. k \in Nat
    OBVIOUS
  <2>. QED  BY <2>4, <2>5
<1>3. m \in Good
  <2>1. 0 .. m \subseteq Good
    <3>. HIDE DEF Good
    <3>. QED  BY <1>1, <1>2, UpwardTo
  <2>. QED  BY <2>1
<1>. QED  BY <1>3

\* acc adds the lengths up, and never falls.
LEMMA AccFacts ==
    ASSUME lengths \in Seq(Nat)
    PROVE  /\ Len(lengths) \in Nat /\ acc[0] = 0
           /\ \A i \in 0 .. Len(lengths) : acc[i] \in Nat
           /\ \A i \in 1 .. Len(lengths) : lengths[i] \in Nat /\ acc[i] = acc[i - 1] + lengths[i]
           /\ \A i, j \in 0 .. Len(lengths) : i <= j => acc[i] <= acc[j]
<1>. DEFINE N == Len(lengths)
<1>1. N \in Nat /\ \A i \in 1 .. N : lengths[i] \in Nat
  BY LenProperties, ElementOfSeq
<1>2. SumsUp(lengths, acc, N)
  <2>1. acc = CHOOSE g : SumsUp(lengths, g, N)
    BY DEF acc, SumsUp
  <2>. HIDE DEF N
  <2>. QED  BY <1>1, <2>1, SumsExist
<1>. HIDE DEF N
<1>3. acc[0] = 0 /\ \A i \in 1 .. N : acc[i] = acc[i - 1] + lengths[i]
  <2>1. \A i \in 0 .. N : acc[i] = IF i = 0 THEN 0 ELSE acc[i - 1] + lengths[i]
    BY <1>2 DEF SumsUp
  <2>2. 0 \in 0 .. N /\ \A i \in 1 .. N : i \in 0 .. N /\ i # 0
    BY <1>1
  <2>. QED  BY <2>1, <2>2
<1>4. \A i \in 0 .. N : acc[i] \in Nat
  <2>. DEFINE G == {i \in 0 .. N : acc[i] \in Nat}
  <2>1. 0 \in G
    BY <1>1, <1>3
  <2>2. ASSUME NEW i \in 1 .. N, i - 1 \in G PROVE i \in G
    BY <1>1, <1>3, <2>2
  <2>3. 0 .. N \subseteq G
    <3>. HIDE DEF G
    <3>. QED  BY <1>1, <2>1, <2>2, UpwardTo
  <2>. QED  BY <2>3
<1>5. \A i, j \in 0 .. N : i <= j => acc[i] <= acc[j]
  <2>1. ASSUME NEW i \in 1 .. N PROVE acc[i - 1] <= acc[i]
    <3>1. i - 1 \in 0 .. N
      BY <1>1
    <3>2. acc[i - 1] \in Nat /\ lengths[i] \in Nat /\ acc[i] = acc[i - 1] + lengths[i]
      BY <1>1, <1>3, <1>4, <3>1
    <3>. QED  BY <3>2
  <2>. QED  BY <1>1, <1>4, <2>1, Rises
<1>. QED  BY <1>1, <1>3, <1>4, <1>5 DEF N


-----------------------------------------------------------------------------
(* The segments one after the other.                                       *)

\* g[i] is the first i of ss, one after the other.
Joins(ss, g, m) == g = [i \in 1 .. m |-> IF i = 1 THEN ss[i] ELSE g[i - 1] \o ss[i]]

\* The recursive function of the joined segments exists up to any length.
LEMMA JoinsExist == ASSUME NEW ss, NEW m \in Nat PROVE \E g : Joins(ss, g, m)
<1>. DEFINE Good == {k \in Nat : \E g : Joins(ss, g, k)}
<1>1. 0 \in Good
  <2>. DEFINE h == [i \in 1 .. 0 |-> <<>>]
  <2>1. h = [i \in 1 .. 0 |-> IF i = 1 THEN ss[i] ELSE h[i - 1] \o ss[i]]
    <3>1. \A i \in 1 .. 0 : FALSE
      OBVIOUS
    <3>. QED  BY <3>1
  <2>2. Joins(ss, h, 0)
    <3>. HIDE DEF h
    <3>. QED  BY <2>1 DEF Joins
  <2>. QED  BY <2>2
<1>2. ASSUME NEW k \in 1 .. m, k - 1 \in Good PROVE k \in Good
  <2>1. PICK g : Joins(ss, g, k - 1)
    BY <1>2
  <2>. DEFINE h == [i \in 1 .. k |-> IF i = 1 THEN ss[i] ELSE g[i - 1] \o ss[i]]
  <2>2. \A i \in 1 .. k - 1 : h[i] = g[i]
    <3>1. \A i \in 1 .. k - 1 : g[i] = IF i = 1 THEN ss[i] ELSE g[i - 1] \o ss[i]
      BY <2>1 DEF Joins
    <3>2. \A i \in 1 .. k - 1 : i \in 1 .. k
      OBVIOUS
    <3>. QED  BY <3>1, <3>2
  <2>3. \A i \in 1 .. k : i # 1 => i - 1 \in 1 .. k - 1
    OBVIOUS
  <2>4. Joins(ss, h, k)
    BY <2>2, <2>3 DEF Joins
  <2>5. k \in Nat
    OBVIOUS
  <2>. QED  BY <2>4, <2>5
<1>3. m \in Good
  <2>1. 0 .. m \subseteq Good
    <3>. HIDE DEF Good
    <3>. QED  BY <1>1, <1>2, UpwardTo
  <2>. QED  BY <2>1
<1>. QED  BY <1>3

\* f adds up the lengths of the N sequences.
Places(ss, N, f) ==
    /\ N = Len(ss) /\ f[0] = 0
    /\ \A i \in 0 .. N : f[i] \in Nat
    /\ \A i \in 1 .. N : f[i] = f[i - 1] + Len(ss[i])

\* Flattened, each sequence starts behind f of the ones before it.
LEMMA FlattenFacts ==
    ASSUME NEW A, NEW ss \in Seq(Seq(A)), NEW N, NEW f, Places(ss, N, f)
    PROVE  /\ FlattenSeq(ss) \in Seq(A) /\ Len(FlattenSeq(ss)) = f[N]
           /\ \A i \in 1 .. N : \A k \in 1 .. Len(ss[i]) :
                FlattenSeq(ss)[f[i - 1] + k] = ss[i][k]
<1>. USE DEF Places
<1>1. N \in Nat /\ \A i \in 1 .. N : ss[i] \in Seq(A) /\ Len(ss[i]) \in Nat
  <2>1. N \in Nat /\ \A i \in 1 .. N : ss[i] \in Seq(A)
    BY LenProperties, ElementOfSeq
  <2>. QED  BY <2>1, LenProperties
<1>2. \A i, j \in 0 .. N : i <= j => f[i] <= f[j]
  <2>1. ASSUME NEW i \in 1 .. N PROVE f[i - 1] <= f[i]
    <3>1. i - 1 \in 0 .. N /\ i \in 0 .. N
      BY <1>1
    <3>2. f[i - 1] \in Nat /\ Len(ss[i]) \in Nat /\ f[i] = f[i - 1] + Len(ss[i])
      BY <1>1, <3>1
    <3>. QED  BY <3>2
  <2>. QED  BY <1>1, <2>1, Rises
<1>3. CASE N = 0
  <2>1. ss = <<>> /\ FlattenSeq(ss) = ss
    BY <1>3, EmptySeq DEF FlattenSeq
  <2>2. <<>> \in Seq(A) /\ Len(<<>>) = 0
    BY EmptySeq
  <2>3. \A i \in 1 .. N : FALSE
    BY <1>3
  <2>4. FlattenSeq(ss) \in Seq(A) /\ Len(FlattenSeq(ss)) = f[N]
    BY <1>3, <2>1, <2>2
  <2>. QED  BY <2>3, <2>4
<1>4. CASE N # 0
  <2>1. PICK g : Joins(ss, g, N) /\ FlattenSeq(ss) = g[N]
    <3>1. FlattenSeq(ss) = (CHOOSE g : Joins(ss, g, N))[N]
      BY <1>4 DEF FlattenSeq, Joins
    <3>. QED  BY <1>1, <3>1, JoinsExist
  <2>2. \A i \in 1 .. N : g[i] = IF i = 1 THEN ss[i] ELSE g[i - 1] \o ss[i]
    BY <2>1 DEF Joins
  <2>. DEFINE Has(m) == /\ g[m] \in Seq(A) /\ Len(g[m]) = f[m]
                        /\ \A i \in 1 .. m : \A k \in 1 .. Len(ss[i]) :
                             g[m][f[i - 1] + k] = ss[i][k]
              G == {0} \cup {m \in 1 .. N : Has(m)}
  <2>3. 0 \in G
    OBVIOUS
  <2>4. ASSUME NEW m \in 1 .. N, m - 1 \in G PROVE m \in G
    <3>1. CASE m = 1
      <4>1. g[1] = ss[1] /\ ss[1] \in Seq(A) /\ f[1] = Len(ss[1])
        BY <1>1, <2>2, <3>1
      <4>2. ASSUME NEW i \in 1 .. 1, NEW k \in 1 .. Len(ss[i]) PROVE g[1][f[i - 1] + k] = ss[i][k]
        <5>1. i = 1 /\ f[i - 1] = 0 /\ 0 + k = k
          OBVIOUS
        <5>. QED  BY <4>1, <5>1
      <4>. QED  BY <3>1, <4>1, <4>2
    <3>2. CASE m # 1
      <4>1. m - 1 \in 1 .. N /\ Has(m - 1)
        BY <2>4, <3>2
      <4>2. /\ g[m - 1] \in Seq(A) /\ Len(g[m - 1]) = f[m - 1] /\ ss[m] \in Seq(A)
            /\ Len(ss[m]) \in Nat /\ f[m - 1] \in Nat /\ f[m] = f[m - 1] + Len(ss[m])
            /\ g[m] = g[m - 1] \o ss[m]
        <5>1. m - 1 \in 0 .. N
          BY <4>1
        <5>. QED  BY <1>1, <2>2, <3>2, <4>1, <5>1
      <4>3. /\ g[m] \in Seq(A) /\ Len(g[m]) = f[m]
            /\ \A j \in 1 .. f[m] : g[m][j] = IF j <= f[m - 1] THEN g[m - 1][j]
                                              ELSE ss[m][j - f[m - 1]]
        <5>. DEFINE a == g[m - 1]
                    b == ss[m]
        <5>1. a \in Seq(A) /\ b \in Seq(A) /\ g[m] = a \o b
          BY <4>2
        <5>. HIDE DEF a, b
        <5>2. /\ g[m] \in Seq(A) /\ Len(g[m]) = Len(a) + Len(b)
              /\ \A j \in 1 .. Len(a) + Len(b) :
                    g[m][j] = IF j <= Len(a) THEN a[j] ELSE b[j - Len(a)]
          BY <5>1, ConcatProperties
        <5>. QED  BY <4>2, <5>2 DEF a, b
      <4>4. ASSUME NEW i \in 1 .. m, NEW k \in 1 .. Len(ss[i]) PROVE g[m][f[i - 1] + k] = ss[i][k]
        <5>1. CASE i = m
          <6>1. k \in 1 .. Len(ss[m])
            BY <5>1
          <6>2. f[m - 1] + k \in 1 .. f[m] /\ ~(f[m - 1] + k <= f[m - 1])
                /\ (f[m - 1] + k) - f[m - 1] = k
            <7>. DEFINE u == f[m - 1]
                        l == Len(ss[m])
            <7>1. u \in Nat /\ l \in Nat /\ f[m] = u + l /\ k \in 1 .. l
              BY <4>2, <6>1
            <7>. HIDE DEF u, l
            <7>2. u + k \in 1 .. u + l /\ ~(u + k <= u) /\ (u + k) - u = k
              BY <7>1
            <7>. QED  BY <7>1, <7>2 DEF u
          <6>. QED  BY <4>3, <5>1, <6>2
        <5>2. CASE i # m
          <6>1. i \in 1 .. m - 1
            BY <5>2
          <6>2. g[m - 1][f[i - 1] + k] = ss[i][k]
            BY <4>1, <6>1
          <6>3. f[i - 1] + k \in 1 .. f[m - 1]
            <7>1. i - 1 \in 0 .. N /\ i \in 1 .. N /\ i \in 0 .. N /\ f[i - 1] \in Nat /\ f[i] \in Nat
              BY <6>1
            <7>2. f[i] = f[i - 1] + Len(ss[i]) /\ Len(ss[i]) \in Nat
              BY <1>1, <7>1
            <7>3. f[i] <= f[m - 1]
              <8>1. m - 1 \in 0 .. N /\ i <= m - 1
                BY <1>1, <6>1
              <8>. QED  BY <1>2, <7>1, <8>1
            <7>. DEFINE u == f[i - 1]
                        v == f[i]
                        x == f[m - 1]
                        l == Len(ss[i])
            <7>4. u \in Nat /\ v = u + l /\ l \in Nat /\ v <= x /\ x \in Nat /\ k \in 1 .. l
              BY <4>2, <7>1, <7>2, <7>3
            <7>. HIDE DEF u, v, x, l
            <7>5. u + k \in 1 .. x
              BY <7>4
            <7>. QED  BY <7>5 DEF u, x
          <6>4. f[i - 1] + k \in 1 .. f[m] /\ f[i - 1] + k <= f[m - 1]
            BY <4>2, <6>3
          <6>. QED  BY <4>3, <6>2, <6>4
        <5>. QED  BY <5>1, <5>2
      <4>. QED  BY <4>3, <4>4
    <3>. QED  BY <3>1, <3>2
  <2>5. 0 .. N \subseteq G
    <3>. HIDE DEF G
    <3>. QED  BY <1>1, <2>3, <2>4, UpwardTo
  <2>6. Has(N)
    <3>1. N \in 0 .. N
      BY <1>1
    <3>. QED  BY <1>4, <2>5, <3>1
  <2>. QED  BY <2>1, <2>6
<1>. QED  BY <1>3, <1>4


-----------------------------------------------------------------------------
(* Finding the segments.                                                   *)

\* The names of the segments by number.
Cand == [k \in Nat |-> candidate(k)]

Names == {image.example} \cup DOMAIN image.files

\* The named file may be an image of its own.
Alone ==
    \/ ~has_numeric_suffix
    \/ /\ Cand[0] \notin Visible /\ Cand[1] \notin Visible
       /\ is_zero_padded =>
            \A k \in Nat : (k = num - 1 \/ k = num + 1) /\ k <= U64_MAX => Cand[k] \notin Visible

\* The walk has taken every segment from first up to n.
Walked ==
    /\ first \in {0, 1} /\ first <= n
    /\ paths = [i \in 1 .. n - first |-> Cand[first + i - 1]]
    /\ \A j \in first .. n - 1 : Cand[j] \in Visible
    /\ first = 1 => Cand[0] \notin Visible

\* What each probe of the discovery knows from the ones before it.
Discovery ==
    /\ image \in Images /\ n \in Nat /\ near \in BOOLEAN
    /\ paths \in Seq(Names)
    /\ pc \in {"start", "zero"} => n = 0 /\ first = 0 /\ paths = <<>>
    /\ pc = "one" => paths = <<>> /\ Cand[0] \notin Visible
    /\ pc \in {"below", "above", "down"} => Cand[0] \notin Visible /\ Cand[1] \notin Visible
    /\ pc \in {"below", "above"} => n = num
    /\ pc = "above" /\ near = FALSE => (num > 0 => Cand[num - 1] \notin Visible)
    /\ pc \in {"walk", "past"} => Walked
    /\ pc = "past" => Cand[n] \notin Visible /\ first <= num /\ num < n
    /\ pc \in {"sources", "open"} => IsImage
    /\ missing # <<>> => missing \notin Visible

\* What the probes may rely on about the files and their names.
LEMMA ImageFacts ==
    ASSUME image \in Images
    PROVE  /\ num \in Nat /\ IsFiniteSet(Visible) /\ Visible \subseteq Names
           /\ \A f \in Visible : image.files[f] \in Nat
           /\ \A k \in Nat : Cand[k] = candidate(k) /\ Cand[k][1] = k
<1>1. num \in Nat
  BY ImagesAssumption DEF num
<1>2. IsFiniteSet(Visible)
  <2>1. Visible \in SUBSET (DOMAIN image.files)
    BY DEF Visible
  <2>. QED  BY <2>1, FS_Subset, ImagesAssumption
<1>3. Visible \subseteq Names /\ \A f \in Visible : image.files[f] \in Nat
  BY ImagesAssumption DEF Visible, Names
<1>4. \A k \in Nat : Cand[k] = candidate(k) /\ Cand[k][1] = k
  BY DEF Cand, candidate
<1>. QED  BY <1>1, <1>2, <1>3, <1>4

\* The names depend on the image alone.
LEMMA ImageKept ==
    ASSUME UNCHANGED image
    PROVE  Cand' = Cand /\ Visible' = Visible /\ Names' = Names /\ num' = num /\ (Alone' <=> Alone)
<1>1. Cand' = Cand
  BY DEF Cand, candidate, width, Digits
<1>2. Visible' = Visible /\ Names' = Names /\ num' = num
  BY DEF Visible, Names, num
<1>3. (has_numeric_suffix' <=> has_numeric_suffix) /\ (is_zero_padded' <=> is_zero_padded)
  BY DEF has_numeric_suffix, is_zero_padded, num, width
<1>4. Alone' <=> Alone
  BY <1>1, <1>2, <1>3 DEF Alone
<1>. QED  BY <1>1, <1>2, <1>4

\* Whether the list found is the image depends on image and list alone.
LEMMA IsImageKept == ASSUME UNCHANGED <<image, paths>> PROVE IsImage' <=> IsImage
<1>1. Visible' = Visible /\ num' = num /\ width' = width
  BY DEF Visible, num, width
<1>2. Joined' = Joined
  BY <1>1 DEF Joined, candidate, Digits
<1>3. (has_numeric_suffix' <=> has_numeric_suffix) /\ (is_zero_padded' <=> is_zero_padded)
  BY DEF has_numeric_suffix, is_zero_padded, num, width
<1>. QED  BY <1>1, <1>2, <1>3 DEF IsImage, candidate, Digits

\* A probe that can tell says whether the segment is there.
LEMMA AnswerFacts ==
    ASSUME image \in Images, NEW k \in Nat, NEW yes \in BOOLEAN, yes \in Answers(k)
    PROVE  yes = TRUE <=> Cand[k] \in Visible
<1>1. Cand[k] = candidate(k)
  BY ImageFacts
<1>2. CASE candidate(k) \in Visible
  BY <1>1, <1>2 DEF Answers
<1>3. CASE candidate(k) \notin Visible
  BY <1>1, <1>3 DEF Answers
<1>. QED  BY <1>2, <1>3

\* A file that is alone is the whole image.
LEMMA AloneIsImage == image \in Images /\ Alone /\ paths = <<image.example>> => IsImage
<1>. SUFFICES ASSUME image \in Images, Alone, paths = <<image.example>> PROVE IsImage
  OBVIOUS
<1>1. CASE ~has_numeric_suffix
  BY <1>1 DEF IsImage
<1>2. CASE has_numeric_suffix
  <2>1. candidate(0) \notin Visible /\ candidate(1) \notin Visible
    BY <1>2, ImageFacts DEF Alone
  <2>2. ASSUME is_zero_padded, NEW k \in 0 .. U64_MAX, k \in {num - 1, num + 1}
        PROVE  candidate(k) \notin Visible
    <3>1. k \in Nat /\ k <= U64_MAX
      BY RawdiskAssumption
    <3>. QED  BY <1>2, <2>2, <3>1, ImageFacts DEF Alone
  <2>3. {candidate(0), candidate(1)} \cap Visible = {}
    BY <2>1
  <2>4. is_zero_padded => {candidate(k) : k \in {j \in 0 .. U64_MAX : j \in {num - 1, num + 1}}}
                            \cap Visible = {}
    BY <2>2
  <2>. QED  BY <2>3, <2>4 DEF IsImage
<1>. QED  BY <1>1, <1>2

\* The segments that join on to the named one are those of the walk.
LEMMA JoinedIs ==
    ASSUME image \in Images, n \in Nat, Walked, Cand[n] \notin Visible, first <= num, num < n
    PROVE  /\ Joined = first .. n - 1 /\ Joined # {} /\ Cardinality(Joined) = n - first
           /\ Min(Joined) = first /\ Max(Joined) = n - 1
<1>1. /\ num \in Nat /\ first \in {0, 1} /\ \A j \in first .. n - 1 : Cand[j] \in Visible
      /\ first = 1 => Cand[0] \notin Visible
      /\ \A k \in Nat : Cand[k] = candidate(k) /\ Cand[k][1] = k
  BY ImageFacts DEF Walked
<1>2. IsFiniteSet(Visible) /\ Cardinality(Visible) \in Nat
  BY ImageFacts, FS_CardinalityType
<1>3. ASSUME NEW k \in Nat
      PROVE  /\ Min({k, num}) = IF k <= num THEN k ELSE num
             /\ Max({k, num}) = IF k <= num THEN num ELSE k
  BY <1>1, LesserOf, GreaterOf
<1>4. ASSUME NEW k \in Joined PROVE k \in first .. n - 1
  <2>1. /\ k \in Nat
        /\ \A j \in Min({k, num}) .. Max({k, num}) : candidate(j) \in Visible
    BY <1>1, <1>2 DEF Joined
  <2>2. ~(k >= n)
    <3>. SUFFICES ASSUME k >= n PROVE FALSE
      OBVIOUS
    <3>1. n \in Min({k, num}) .. Max({k, num})
      BY <1>1, <1>3, <2>1
    <3>. QED  BY <1>1, <2>1, <3>1
  <2>3. ~(k < first)
    <3>. SUFFICES ASSUME k < first PROVE FALSE
      OBVIOUS
    <3>1. first = 1 /\ k = 0
      BY <1>1, <2>1
    <3>2. 0 \in Min({k, num}) .. Max({k, num})
      BY <1>1, <1>3, <2>1, <3>1
    <3>3. candidate(0) = Cand[0]
      BY <1>1
    <3>. QED  BY <1>1, <2>1, <3>1, <3>2, <3>3
  <2>. QED  BY <1>1, <2>1, <2>2, <2>3
<1>5. ASSUME NEW k \in first .. n - 1 PROVE k \in Joined
  <2>1. k \in Nat
    BY <1>1
  <2>2. ASSUME NEW j \in Min({k, num}) .. Max({k, num}) PROVE candidate(j) \in Visible
    <3>1. j \in first .. n - 1 /\ j \in Nat
      BY <1>1, <1>3, <2>1
    <3>. QED  BY <1>1, <3>1
  <2>3. k <= num + Cardinality(Visible)
    <3>1. CASE k <= num
      BY <1>1, <1>2, <2>1, <3>1
    <3>2. CASE k > num
      <4>. DEFINE f == [j \in num .. k |-> Cand[j]]
      <4>1. f \in Injection(num .. k, Visible)
        <5>1. ASSUME NEW j \in num .. k PROVE Cand[j] \in Visible /\ Cand[j][1] = j
          <6>1. j \in first .. n - 1 /\ j \in Nat
            BY <1>1, <2>1, <3>2
          <6>. QED  BY <1>1, <6>1
        <5>2. f \in [num .. k -> Visible]
          BY <5>1
        <5>3. \A i, j \in num .. k : f[i] = f[j] => i = j
          BY <5>1
        <5>. QED  BY <5>2, <5>3 DEF Injection, IsInjective
      <4>2. Cardinality(num .. k) <= Cardinality(Visible)
        <5>. HIDE DEF f
        <5>. QED  BY <1>2, <4>1, FS_Injection
      <4>3. Cardinality(num .. k) = k - num + 1
        BY <1>1, <2>1, <3>2, FS_Interval
      <4>. QED  BY <1>1, <1>2, <2>1, <4>2, <4>3
    <3>. QED  BY <1>1, <2>1, <3>1, <3>2
  <2>4. k \in 0 .. num + Cardinality(Visible)
    BY <1>1, <1>2, <2>1, <2>3
  <2>. QED  BY <2>2, <2>4 DEF Joined
<1>6. Joined = first .. n - 1 /\ first \in Int /\ n - 1 \in Int /\ first <= n - 1
  <2>1. Joined \subseteq first .. n - 1 /\ first .. n - 1 \subseteq Joined
    BY <1>4, <1>5
  <2>2. first \in Int /\ n - 1 \in Int /\ first <= n - 1
    BY <1>1
  <2>. QED  BY <2>1, <2>2
<1>7. Cardinality(Joined) = n - first
  BY <1>6, FS_Interval
<1>8. Min(Joined) = first
  <2>1. first \in Joined /\ \A y \in Joined : first <= y
    BY <1>6
  <2>2. Min(Joined) \in Joined /\ \A y \in Joined : Min(Joined) <= y
    BY <2>1 DEF Min
  <2>. QED  BY <1>6, <2>1, <2>2
<1>9. Max(Joined) = n - 1
  <2>1. n - 1 \in Joined /\ \A y \in Joined : n - 1 >= y
    BY <1>6
  <2>2. Max(Joined) \in Joined /\ \A y \in Joined : Max(Joined) >= y
    BY <2>1 DEF Max
  <2>. QED  BY <1>6, <2>1, <2>2
<1>10. Joined # {}
  <2>1. first \in first .. n - 1
    BY <1>6
  <2>. QED  BY <1>6, <2>1
<1>. QED  BY <1>6, <1>7, <1>8, <1>9, <1>10

\* A walk that ends at a name that is not there has found the image.
LEMMA WalkedIsImage ==
    ASSUME image \in Images, n \in Nat, Walked, Cand[n] \notin Visible, first <= num, num < n,
           Cand[n + 1] \notin Visible
    PROVE  IsImage
<1>1. /\ Joined # {} /\ Cardinality(Joined) = n - first
      /\ Min(Joined) = first /\ Max(Joined) = n - 1
  BY JoinedIs
<1>2. first \in {0, 1} /\ paths = [i \in 1 .. n - first |-> Cand[first + i - 1]]
  BY DEF Walked
<1>3. \A i \in 1 .. n - first : Cand[first + i - 1] = candidate(first + i - 1)
  <2>1. \A i \in 1 .. n - first : first + i - 1 \in Nat
    BY <1>2
  <2>. QED  BY <2>1, ImageFacts
<1>4. paths = [i \in 1 .. Cardinality(Joined) |-> candidate(Min(Joined) + i - 1)]
  BY <1>1, <1>2, <1>3
<1>5. candidate(Max(Joined) + 2) \notin Visible
  <2>1. n - 1 + 2 = n + 1 /\ n + 1 \in Nat
    OBVIOUS
  <2>. QED  BY <1>1, <2>1, ImageFacts
<1>6. Min(Joined) \in {0, 1}
  BY <1>1, <1>2
<1>. QED  BY <1>1, <1>4, <1>5, <1>6 DEF IsImage


\* What discovery knows survives a step that leaves its variables alone and only moves on.
LEMMA DiscoveryKept ==
    ASSUME Discovery, UNCHANGED <<image, n, first, near, paths, missing>>,
           pc' = pc \/ pc' = "refused" \/ (pc = "sources" /\ pc' = "open")
    PROVE  Discovery'
<1>1. Cand' = Cand /\ Visible' = Visible /\ Names' = Names /\ num' = num
  BY ImageKept
<1>2. IsImage' <=> IsImage
  BY IsImageKept
<1>3. Walked' <=> Walked
  BY <1>1 DEF Walked
<1>. QED  BY <1>1, <1>2, <1>3 DEF Discovery


\* A file that may be an image of its own is one when it is all that is found.
LEMMA AloneIsFound ==
    ASSUME image \in Images, Alone, UNCHANGED image, paths' = <<image.example>>
    PROVE  IsImage' /\ paths' \in Seq(Names)
<1>1. (image \in Images /\ Alone /\ paths = <<image.example>>)'
  BY ImageKept
<1>2. IsImage'
  BY <1>1, AloneIsImage, PTL
<1>. QED  BY <1>2 DEF Names

\* The start of discovery keeps what is known.
LEMMA StartDiscovers == ASSUME Discovery, Start PROVE Discovery'
<1>1. /\ Cand' = Cand /\ Visible' = Visible /\ Names' = Names /\ num' = num
      /\ (Alone' <=> Alone)
  BY ImageKept DEF Start, found
<1>2. UNCHANGED <<image, n, first, near, missing>>
  BY DEF Start, found
<1>3. CASE pc' \in {"refused", "zero"} /\ paths' = paths
  BY <1>1, <1>2, <1>3 DEF Discovery, Start
<1>4. CASE pc' = "sources" /\ paths' = <<image.example>> /\ ~has_numeric_suffix
  <2>1. image \in Images /\ Alone
    BY <1>4 DEF Alone, Discovery
  <2>2. IsImage' /\ paths' \in Seq(Names)
    BY <1>2, <1>4, <2>1, AloneIsFound
  <2>. QED  BY <1>1, <1>2, <1>4, <2>2 DEF Discovery
<1>. QED  BY <1>3, <1>4 DEF Start

\* The probe of number 0 keeps what is known.
LEMMA ZeroDiscovers == ASSUME Discovery, NEW yes \in BOOLEAN, ProbeZero(yes) PROVE Discovery'
<1>1. Cand' = Cand /\ Visible' = Visible /\ Names' = Names /\ num' = num
  BY ImageKept DEF ProbeZero, found
<1>2. /\ UNCHANGED <<image, n, first, near, paths, missing>>
      /\ pc' = IF yes THEN "walk" ELSE "one"
      /\ n = 0 /\ first = 0 /\ paths = <<>> /\ image \in Images
  BY DEF ProbeZero, found, Discovery
<1>3. yes = TRUE <=> Cand[0] \in Visible
  BY <1>2, AnswerFacts DEF ProbeZero
<1>4. Walked
  BY <1>2 DEF Walked
<1>5. Walked' <=> Walked
  BY <1>1, <1>2 DEF Walked
<1>. QED  BY <1>1, <1>2, <1>3, <1>4, <1>5 DEF Discovery

\* The probe of number 1 keeps what is known.
LEMMA OneDiscovers == ASSUME Discovery, NEW yes \in BOOLEAN, ProbeOne(yes) PROVE Discovery'
<1>1. Cand' = Cand /\ Visible' = Visible /\ Names' = Names /\ num' = num
  BY ImageKept DEF ProbeOne, found
<1>2. /\ UNCHANGED <<image, near, missing>> /\ pc = "one"
      /\ paths = <<>> /\ Cand[0] \notin Visible /\ image \in Images /\ num \in Nat
  BY ImageFacts DEF ProbeOne, found, Discovery
<1>3. yes = TRUE <=> Cand[1] \in Visible
  BY <1>2, AnswerFacts DEF ProbeOne
<1>4. CASE yes
  <2>1. pc' = "walk" /\ first' = 1 /\ n' = 1 /\ paths' = paths
    BY <1>4 DEF ProbeOne
  <2>2. Walked'
    BY <1>1, <1>2, <2>1 DEF Walked
  <2>. QED  BY <1>1, <1>2, <2>1, <2>2 DEF Discovery
<1>5. CASE ~yes /\ is_zero_padded
  <2>1. pc' = "below" /\ n' = num /\ first' = first /\ paths' = paths
    BY <1>5 DEF ProbeOne
  <2>. QED  BY <1>1, <1>2, <1>3, <1>5, <2>1 DEF Discovery
<1>6. CASE ~yes /\ ~is_zero_padded
  <2>1. pc' = "sources" /\ n' = n /\ first' = first /\ paths' = <<image.example>>
    BY <1>6 DEF ProbeOne
  <2>2. Alone
    BY <1>2, <1>3, <1>6 DEF Alone
  <2>3. IsImage' /\ paths' \in Seq(Names)
    BY <1>2, <2>1, <2>2, AloneIsFound
  <2>. QED  BY <1>1, <1>2, <2>1, <2>3 DEF Discovery
<1>. QED  BY <1>4, <1>5, <1>6

\* The probe of the neighbour below keeps what is known.
LEMMA BelowDiscovers == ASSUME Discovery, NEW yes \in BOOLEAN, ProbeBelow(yes) PROVE Discovery'
<1>1. Cand' = Cand /\ Visible' = Visible /\ Names' = Names /\ num' = num
  BY ImageKept DEF ProbeBelow, found
<1>2. /\ UNCHANGED <<image, n, first, paths, missing>> /\ pc = "below" /\ pc' = "above"
      /\ near' = yes /\ n = num /\ n \in Nat /\ image \in Images
  BY DEF ProbeBelow, found, Discovery
<1>3. n > 0 => (yes = TRUE <=> Cand[n - 1] \in Visible)
  <2>. SUFFICES ASSUME n > 0 PROVE yes = TRUE <=> Cand[n - 1] \in Visible
    OBVIOUS
  <2>1. n - 1 \in Nat /\ yes \in Answers(n - 1)
    BY <1>2 DEF ProbeBelow
  <2>. QED  BY <1>2, <2>1, AnswerFacts
<1>. QED  BY <1>1, <1>2, <1>3 DEF Discovery

\* The probe of the neighbour above keeps what is known.
LEMMA AboveDiscovers == ASSUME Discovery, NEW yes \in BOOLEAN, ProbeAbove(yes) PROVE Discovery'
<1>1. Cand' = Cand /\ Visible' = Visible /\ Names' = Names /\ num' = num
  BY ImageKept DEF ProbeAbove, found
<1>2. /\ UNCHANGED <<image, n, first, near, missing>> /\ pc = "above"
      /\ n = num /\ num \in Nat /\ image \in Images /\ near \in BOOLEAN
      /\ Cand[0] \notin Visible /\ Cand[1] \notin Visible
      /\ near = FALSE => (num > 0 => Cand[num - 1] \notin Visible)
  BY DEF ProbeAbove, found, Discovery
<1>3. CASE near \/ yes
  <2>1. pc' = "down" /\ paths' = paths
    BY <1>3 DEF ProbeAbove
  <2>. QED  BY <1>1, <1>2, <2>1 DEF Discovery
<1>4. CASE ~(near \/ yes)
  <2>1. pc' = "sources" /\ paths' = <<image.example>>
    BY <1>4 DEF ProbeAbove
  <2>2. num + 1 <= U64_MAX => Cand[num + 1] \notin Visible
    <3>. SUFFICES ASSUME num + 1 <= U64_MAX PROVE Cand[num + 1] \notin Visible
      OBVIOUS
    <3>1. num + 1 \in Nat /\ num < U64_MAX
      BY <1>2, RawdiskAssumption
    <3>2. yes \in Answers(num + 1)
      BY <3>1 DEF ProbeAbove
    <3>. QED  BY <1>2, <1>4, <3>1, <3>2, AnswerFacts
  <2>3. ASSUME NEW k \in Nat, k = num - 1 \/ k = num + 1, k <= U64_MAX PROVE Cand[k] \notin Visible
    BY <1>2, <1>4, <2>2, <2>3
  <2>4. Alone
    BY <1>2, <2>3 DEF Alone
  <2>5. IsImage' /\ paths' \in Seq(Names)
    BY <1>2, <2>1, <2>4, AloneIsFound
  <2>. QED  BY <1>1, <1>2, <2>1, <2>5 DEF Discovery
<1>. QED  BY <1>3, <1>4


\* A probe on the way down keeps what is known.
LEMMA DownDiscovers == ASSUME Discovery, NEW yes \in BOOLEAN, ProbeDown(yes) PROVE Discovery'
<1>1. Cand' = Cand /\ Visible' = Visible /\ Names' = Names /\ num' = num
  BY ImageKept DEF ProbeDown, found
<1>2. /\ UNCHANGED <<image, first, near, paths>> /\ pc = "down"
      /\ n \in Nat /\ image \in Images /\ Cand[0] \notin Visible /\ Cand[1] \notin Visible
  BY DEF ProbeDown, found, Discovery
<1>3. CASE yes
  <2>1. n' = n - 1 /\ n > 0 /\ pc' = pc /\ missing' = missing
    BY <1>2, <1>3 DEF ProbeDown
  <2>. QED  BY <1>1, <1>2, <2>1 DEF Discovery
<1>4. CASE ~yes
  <2>1. n' = n /\ pc' = "refused" /\ missing' = candidate(Max({n - 1, 0}))
    BY <1>4 DEF ProbeDown
  <2>2. Max({n - 1, 0}) = IF n > 0 THEN n - 1 ELSE 0
    BY <1>2, GreaterOf
  <2>3. missing' \notin Visible
    <3>1. CASE n > 0
      <4>1. n - 1 \in Nat /\ yes \in Answers(n - 1)
        BY <1>2, <3>1 DEF ProbeDown
      <4>2. Cand[n - 1] \notin Visible
        BY <1>2, <1>4, <4>1, AnswerFacts
      <4>. QED  BY <1>2, <2>1, <2>2, <3>1, <4>1, <4>2, ImageFacts
    <3>2. CASE n = 0
      BY <1>2, <2>1, <2>2, <3>2, ImageFacts
    <3>. QED  BY <1>2, <3>1, <3>2
  <2>. QED  BY <1>1, <1>2, <2>1, <2>3 DEF Discovery
<1>. QED  BY <1>3, <1>4

\* A probe of the walk up keeps what is known.
LEMMA WalkDiscovers == ASSUME Discovery, NEW yes \in BOOLEAN, ProbeWalk(yes) PROVE Discovery'
<1>1. Cand' = Cand /\ Visible' = Visible /\ Names' = Names /\ num' = num
  BY ImageKept DEF ProbeWalk, found
<1>2. /\ UNCHANGED <<image, first, near>> /\ pc = "walk"
      /\ n \in Nat /\ image \in Images /\ Walked /\ paths \in Seq(Names)
  BY DEF ProbeWalk, found, Discovery
<1>3. /\ yes = TRUE <=> Cand[n] \in Visible
      /\ num \in Nat /\ Visible \subseteq Names /\ Cand[n] = candidate(n)
      /\ Cand[num] = candidate(num) /\ Cand[0] = candidate(0)
  BY <1>2, AnswerFacts, ImageFacts DEF ProbeWalk
<1>4. /\ first \in {0, 1} /\ first <= n
      /\ paths = [i \in 1 .. n - first |-> Cand[first + i - 1]]
      /\ \A j \in first .. n - 1 : Cand[j] \in Visible
      /\ first = 1 => Cand[0] \notin Visible
  BY <1>2 DEF Walked
<1>5. CASE yes
  <2>1. /\ paths' = Append(paths, Cand[n]) /\ n' = n + 1 /\ pc' = pc /\ missing' = missing
        /\ Cand[n] \in Visible
    BY <1>3, <1>5 DEF ProbeWalk
  <2>2. paths' \in Seq(Names)
    BY <1>2, <1>3, <2>1
  <2>3. paths' = [i \in 1 .. n + 1 - first |-> Cand[first + i - 1]]
    <3>1. Len(paths) = n - first
      BY <1>2, <1>4
    <3>2. paths' = [i \in 1 .. n - first + 1 |-> IF i <= n - first THEN paths[i] ELSE Cand[n]]
      <4>1. /\ paths' \in Seq(Names) /\ Len(paths') = n - first + 1
            /\ \A i \in 1 .. n - first : paths'[i] = paths[i]
            /\ paths'[n - first + 1] = Cand[n]
        BY <1>2, <1>3, <2>1, <3>1, AppendProperties
      <4>2. n - first \in Nat
        BY <1>2, <1>4
      <4>3. paths' = [i \in 1 .. n - first + 1 |-> paths'[i]]
        BY <4>1
      <4>4. \A i \in 1 .. n - first + 1 :
              paths'[i] = IF i <= n - first THEN paths[i] ELSE Cand[n]
        BY <4>1, <4>2
      <4>. QED  BY <4>3, <4>4
    <3>3. ASSUME NEW i \in 1 .. n + 1 - first
          PROVE  (IF i <= n - first THEN paths[i] ELSE Cand[n]) = Cand[first + i - 1]
      <4>1. CASE i <= n - first
        BY <1>2, <1>4, <4>1
      <4>2. CASE ~(i <= n - first)
        <5>1. first + i - 1 = n
          BY <1>2, <1>4, <4>2
        <5>. QED  BY <4>2, <5>1
      <4>. QED  BY <4>1, <4>2
    <3>4. n - first + 1 = n + 1 - first
      BY <1>2, <1>4
    <3>. QED  BY <3>1, <3>2, <3>3, <3>4
  <2>4. \A j \in first .. n : Cand[j] \in Visible
    BY <1>2, <1>4, <2>1
  <2>5. Walked'
    BY <1>1, <1>2, <1>4, <2>1, <2>3, <2>4 DEF Walked
  <2>. QED  BY <1>1, <1>2, <2>1, <2>2, <2>5 DEF Discovery
<1>6. CASE ~yes
  <2>1. /\ paths' = paths /\ n' = n /\ missing' = MissingAt(n)
        /\ pc' = IF missing' = <<>> THEN "past" ELSE "refused"
        /\ Cand[n] \notin Visible
    BY <1>3, <1>6 DEF ProbeWalk
  <2>2. Walked'
    BY <1>1, <1>2, <2>1 DEF Walked
  <2>3. missing' # <<>> => missing' \notin Visible
    <3>1. CASE num < first
      <4>1. num = 0 /\ first = 1
        BY <1>3, <1>4, <3>1
      <4>. QED  BY <1>3, <1>4, <2>1, <4>1 DEF MissingAt
    <3>2. CASE ~(num < first)
      BY <1>3, <2>1, <3>2 DEF MissingAt
    <3>. QED  BY <3>1, <3>2
  <2>4. missing' = <<>> => first <= num /\ num < n
    <3>1. \A k : candidate(k) # <<>>
      BY DEF candidate
    <3>. QED  BY <1>2, <1>3, <1>4, <2>1, <3>1 DEF MissingAt
  <2>. QED  BY <1>1, <1>2, <2>1, <2>2, <2>3, <2>4 DEF Discovery
<1>. QED  BY <1>5, <1>6

\* The probe past the end keeps what is known.
LEMMA PastDiscovers == ASSUME Discovery, NEW yes \in BOOLEAN, ProbePast(yes) PROVE Discovery'
<1>1. Cand' = Cand /\ Visible' = Visible /\ Names' = Names /\ num' = num
  BY ImageKept DEF ProbePast, found
<1>2. /\ UNCHANGED <<image, n, first, near, paths>> /\ pc = "past"
      /\ n \in Nat /\ image \in Images /\ Walked
      /\ Cand[n] \notin Visible /\ first <= num /\ num < n
  BY DEF ProbePast, found, Discovery
<1>3. (yes = TRUE <=> Cand[n + 1] \in Visible) /\ Cand[n] = candidate(n)
  <2>1. n + 1 \in Nat /\ yes \in Answers(n + 1)
    BY <1>2 DEF ProbePast
  <2>2. yes = TRUE <=> Cand[n + 1] \in Visible
    BY <1>2, <2>1, AnswerFacts
  <2>. QED  BY <1>2, <2>2, ImageFacts
<1>4. CASE yes
  BY <1>1, <1>2, <1>3, <1>4 DEF Discovery, ProbePast
<1>5. CASE ~yes
  <2>1. pc' = "sources" /\ missing' = missing
    BY <1>5 DEF ProbePast
  <2>2. IsImage
    BY <1>2, <1>3, <1>5, WalkedIsImage
  <2>3. IsImage'
    BY <1>2, <2>2, IsImageKept
  <2>. QED  BY <1>1, <1>2, <2>1, <2>3 DEF Discovery
<1>. QED  BY <1>4, <1>5

\* Every step keeps what discovery knows.
LEMMA NextDiscovers == ASSUME Discovery, [Next]_vars PROVE Discovery'
<1>1. ASSUME NEW yes \in BOOLEAN, Probe(yes) PROVE Discovery'
  BY <1>1, ZeroDiscovers, OneDiscovers, BelowDiscovers, AboveDiscovers, DownDiscovers,
     WalkDiscovers, PastDiscovers DEF Probe
<1>2. CASE Undetermined \/ OpenSource \/ Opened \/ ReadSlice \/ EndRead \/ Return \/ Rest
           \/ UNCHANGED vars \/ \E r \in Reads : BeginRead(r[1], r[2])
  <2>1. /\ UNCHANGED <<image, n, first, near, paths, missing>>
        /\ pc' = pc \/ pc' = "refused" \/ (pc = "sources" /\ pc' = "open")
    BY <1>2 DEF Undetermined, OpenSource, Opened, ReadSlice, EndRead, Return, Rest, vars,
                BeginRead, found
  <2>. QED  BY <2>1, DiscoveryKept
<1>. QED  BY <1>1, <1>2, StartDiscovers DEF Next

\* Discovery knows nothing at first.
LEMMA InitDiscovers == ASSUME Init PROVE Discovery
<1>1. /\ image \in Images /\ n = 0 /\ first = 0 /\ near = FALSE /\ pc = "start"
      /\ paths = <<>> /\ missing = <<>>
  BY DEF Init
<1>2. near \in BOOLEAN
  BY <1>1, Zenon
<1>3. n \in Nat /\ paths \in Seq(Names)
  BY <1>1
<1>. QED  BY <1>1, <1>2, <1>3 DEF Discovery

\* The reader that opens is over the image that was named, and all of it: a probe that
\* could not tell never shortens it (segment_paths, open_with_options).
THEOREM OpensWholeImage == Spec => []OpenedIsImage
<1>1. Discovery => OpenedIsImage
  BY DEF Discovery, OpenedIsImage
<1>. QED  BY <1>1, InitDiscovers, NextDiscovers, PTL DEF Spec

\* A name that is reported missing is one that no probe can see: absent, or there and
\* answered with 403 (segment_paths, classify_head_status).
THEOREM ReportsMissing == Spec => []MissingIsUnseen
<1>1. Discovery => MissingIsUnseen
  BY DEF Discovery, MissingIsUnseen
<1>. QED  BY <1>1, InitDiscovers, NextDiscovers, PTL DEF Spec


-----------------------------------------------------------------------------
(* Opening the segments.                                                   *)

\* The segments opened so far are the first of those found, at their lengths; none of
\* several is empty.
Registered ==
    /\ lengths \in Seq(Nat) /\ sources \in Seq(Names)
    /\ Len(sources) = Len(lengths) /\ Len(sources) <= Len(paths)
    /\ \A i \in 1 .. Len(sources) : sources[i] = paths[i] /\ lengths[i] = image.files[paths[i]]
    /\ Len(paths) > 1 => \A i \in 1 .. Len(lengths) : lengths[i] > 0
    /\ pc \notin {"sources", "open", "refused"} => sources = <<>> /\ lengths = <<>>
    /\ pc = "open" => Len(sources) = Len(paths)

\* No segment is registered at first.
LEMMA InitRegistered == ASSUME Init PROVE Registered
<1>1. sources = <<>> /\ lengths = <<>> /\ paths = <<>> /\ pc = "start"
  BY DEF Init
<1>. QED  BY <1>1 DEF Registered

\* Nothing is found once opening has begun.
LEMMA FoundEarly ==
    ASSUME [Next]_vars
    PROVE  /\ image' = image
           /\ pc \in {"sources", "open", "refused"} => paths' = paths
           /\ pc' \notin {"sources", "open", "refused"} => pc \notin {"sources", "open", "refused"}
           /\ pc = "open" => UNCHANGED <<pc, sources, lengths>>
           /\ pc' = "open" => pc = "open" \/ Opened
           /\ OpenSource \/ UNCHANGED <<sources, lengths>>
<1>1. CASE Start \/ Undetermined
  BY <1>1 DEF Start, Undetermined, found
<1>2. ASSUME NEW yes \in BOOLEAN, ProbeZero(yes) \/ ProbeOne(yes) \/ ProbeBelow(yes) \/ ProbeAbove(yes)
      PROVE  /\ UNCHANGED <<image, sources, lengths>> /\ pc \in {"zero", "one", "below", "above"}
             /\ pc' # "open"
  BY <1>2 DEF ProbeZero, ProbeOne, ProbeBelow, ProbeAbove, found
<1>3. ASSUME NEW yes \in BOOLEAN, ProbeDown(yes) \/ ProbeWalk(yes) \/ ProbePast(yes)
      PROVE  /\ UNCHANGED <<image, sources, lengths>> /\ pc \in {"down", "walk", "past"}
             /\ pc' # "open"
  BY <1>3 DEF ProbeDown, ProbeWalk, ProbePast, found
<1>4. CASE OpenSource
  BY <1>4 DEF OpenSource
<1>5. CASE Opened
  BY <1>5 DEF Opened, found
<1>6. CASE ReadSlice \/ EndRead \/ Return \/ Rest \/ UNCHANGED vars \/ \E r \in Reads : BeginRead(r[1], r[2])
  BY <1>6 DEF ReadSlice, EndRead, Return, Rest, vars, BeginRead
<1>. QED  BY <1>1, <1>2, <1>3, <1>4, <1>5, <1>6 DEF Next, Probe

\* Every step keeps the registered segments the first of those found.
LEMMA NextRegistered == ASSUME Discovery, Registered, [Next]_vars PROVE Registered'
<1>1. Names' = Names /\ image' = image
  BY FoundEarly, ImageKept
<1>2. CASE OpenSource
  <2>. DEFINE i == Len(sources) + 1
  <2>1. pc = "sources" /\ i <= Len(paths) /\ paths' = paths /\ paths \in Seq(Names)
        /\ image \in Images
    BY <1>2 DEF OpenSource, Discovery
  <2>2. i \in 1 .. Len(paths) /\ paths[i] \in Names
    <3>1. Len(sources) \in Nat /\ Len(paths) \in Nat
      BY <2>1, LenProperties DEF Registered
    <3>2. i \in 1 .. Len(paths)
      BY <2>1, <3>1
    <3>. QED  BY <2>1, <3>2, ElementOfSeq
  <2>3. CASE pc' = "refused" /\ UNCHANGED <<sources, lengths>>
    BY <1>1, <2>1, <2>3 DEF Registered
  <2>4. CASE /\ paths[i] \in Visible /\ ~EmptySegment(image.files[paths[i]])
             /\ pc' = pc /\ sources' = Append(sources, paths[i])
             /\ lengths' = Append(lengths, image.files[paths[i]])
    <3>1. image.files[paths[i]] \in Nat
      BY <2>1, <2>4, ImageFacts
    <3>2. Len(paths) > 1 => image.files[paths[i]] > 0
      BY <2>4, <3>1 DEF EmptySegment
    <3>3. /\ sources' \in Seq(Names) /\ Len(sources') = i /\ sources'[i] = paths[i]
          /\ \A j \in 1 .. Len(sources) : sources'[j] = sources[j]
      BY <2>2, <2>4, AppendProperties DEF Registered
    <3>4. /\ lengths' \in Seq(Nat) /\ Len(lengths') = i /\ lengths'[i] = image.files[paths[i]]
          /\ \A j \in 1 .. Len(sources) : lengths'[j] = lengths[j]
      BY <2>4, <3>1, AppendProperties DEF Registered
    <3>5. \A j \in 1 .. i : j \in 1 .. Len(sources) \/ j = i
      BY <2>2
    <3>. HIDE DEF i
    <3>. QED  BY <1>1, <2>1, <2>2, <2>4, <3>2, <3>3, <3>4, <3>5 DEF Registered
  <2>. QED  BY <1>2, <2>3, <2>4 DEF OpenSource
<1>3. CASE UNCHANGED <<sources, lengths>>
  <2>1. CASE pc \in {"sources", "open", "refused"}
    <3>1. paths' = paths /\ (pc' \in {"sources", "open", "refused"})
      BY <2>1, FoundEarly
    <3>2. pc' = "open" => Len(sources) = Len(paths)
      BY FoundEarly DEF Opened, Registered
    <3>. QED  BY <1>1, <1>3, <3>1, <3>2 DEF Registered
  <2>2. CASE pc \notin {"sources", "open", "refused"}
    <3>1. sources' = <<>> /\ lengths' = <<>> /\ pc' # "open"
      BY <1>3, <2>2, FoundEarly DEF Registered, Opened
    <3>2. paths' \in Seq(Names')
      BY NextDiscovers DEF Discovery
    <3>3. Len(paths') \in Nat
      BY <3>2, LenProperties
    <3>. QED  BY <3>1, <3>3 DEF Registered
  <2>. QED  BY <2>1, <2>2
<1>. QED  BY <1>2, <1>3, FoundEarly


-----------------------------------------------------------------------------
(* Reading.                                                                *)

Bytes == Names \X Nat

\* The bytes of segment i.
SegmentBytes == [i \in DOMAIN paths |-> [k \in 1 .. image.files[paths[i]] |-> <<paths[i], k - 1>>]]

\* An open image is as long as its segments together, and byte k of segment i is at
\* starts[i] + k of it.
LEMMA ContentFacts ==
    ASSUME Discovery, Registered, pc = "open"
    PROVE  /\ Content \in Seq(Bytes) /\ Len(Content) = image_size /\ image_size \in Nat
           /\ \A i \in 1 .. Len(lengths) : \A k \in 1 .. lengths[i] :
                Content[acc[i - 1] + k] = <<sources[i], k - 1>>
<1>. DEFINE N == Len(lengths)
<1>1. /\ N \in Nat /\ N = Len(paths) /\ paths \in Seq(Names) /\ DOMAIN paths = 1 .. N
      /\ \A i \in 1 .. N : paths[i] \in Names /\ sources[i] = paths[i]
                           /\ lengths[i] = image.files[paths[i]] /\ lengths[i] \in Nat
  <2>1. paths \in Seq(Names) /\ lengths \in Seq(Nat) /\ N = Len(paths)
    BY DEF Discovery, Registered
  <2>2. \A i \in 1 .. N : paths[i] \in Names /\ lengths[i] \in Nat
    BY <2>1, ElementOfSeq
  <2>3. N \in Nat /\ DOMAIN paths = 1 .. N
    BY <2>1, LenProperties
  <2>. QED  BY <2>1, <2>2, <2>3 DEF Registered
<1>. HIDE DEF N
<1>2. ASSUME NEW i \in 1 .. N
      PROVE  /\ SegmentBytes[i] = [k \in 1 .. lengths[i] |-> <<paths[i], k - 1>>]
             /\ SegmentBytes[i] \in Seq(Bytes) /\ Len(SegmentBytes[i]) = lengths[i]
  <2>1. SegmentBytes[i] = [k \in 1 .. lengths[i] |-> <<paths[i], k - 1>>]
    BY <1>1 DEF SegmentBytes
  <2>2. \A k \in 1 .. lengths[i] : <<paths[i], k - 1>> \in Bytes
    BY <1>1 DEF Bytes
  <2>. QED  BY <1>1, <2>1, <2>2
<1>3. SegmentBytes \in Seq(Seq(Bytes)) /\ Len(SegmentBytes) = N
  <2>1. SegmentBytes = [i \in 1 .. N |-> SegmentBytes[i]]
    BY <1>1 DEF SegmentBytes
  <2>. QED  BY <1>1, <1>2, <2>1
<1>4. /\ acc[0] = 0 /\ \A i \in 0 .. N : acc[i] \in Nat
      /\ \A i \in 1 .. N : acc[i] = acc[i - 1] + Len(SegmentBytes[i])
  <2>1. lengths \in Seq(Nat)
    BY DEF Registered
  <2>. QED  BY <1>2, <2>1, AccFacts DEF N
<1>5. /\ FlattenSeq(SegmentBytes) \in Seq(Bytes) /\ Len(FlattenSeq(SegmentBytes)) = acc[N]
      /\ \A i \in 1 .. N : \A k \in 1 .. Len(SegmentBytes[i]) :
           FlattenSeq(SegmentBytes)[acc[i - 1] + k] = SegmentBytes[i][k]
  <2>1. Places(SegmentBytes, N, acc)
    BY <1>3, <1>4 DEF Places
  <2>. QED  BY <1>3, <2>1, FlattenFacts
<1>6. Content = FlattenSeq(SegmentBytes) /\ image_size = acc[N] /\ N \in 0 .. N
  BY <1>1 DEF Content, SegmentBytes, image_size, N
<1>7. ASSUME NEW i \in 1 .. N, NEW k \in 1 .. lengths[i]
      PROVE  Content[acc[i - 1] + k] = <<sources[i], k - 1>>
  <2>1. k \in 1 .. Len(SegmentBytes[i]) /\ SegmentBytes[i][k] = <<paths[i], k - 1>>
    BY <1>2
  <2>. QED  BY <1>1, <1>5, <1>6, <2>1
<1>. QED  BY <1>4, <1>5, <1>6, <1>7 DEF N

\* Whatever segment the search comes up with for an offset within the image has a byte
\* at it.
LEMMA LocateFacts ==
    ASSUME Discovery, Registered, pc = "open", NEW want \in Nat, want < image_size,
           NEW i \in Locate(want)
    PROVE  /\ i \in 1 .. Len(lengths) /\ starts[i] = acc[i - 1] /\ acc[i - 1] \in Nat
           /\ lengths[i] \in Nat /\ acc[i - 1] <= want /\ want - acc[i - 1] < lengths[i]
<1>. DEFINE N == Len(lengths)
<1>1. lengths \in Seq(Nat) /\ N = Len(paths)
  BY DEF Registered
<1>2. /\ N \in Nat /\ acc[0] = 0 /\ \A j \in 0 .. N : acc[j] \in Nat
      /\ \A j \in 1 .. N : lengths[j] \in Nat /\ acc[j] = acc[j - 1] + lengths[j]
  BY <1>1, AccFacts
<1>3. DOMAIN starts = 1 .. N /\ \A j \in 1 .. N : starts[j] = acc[j - 1]
  BY <1>1, LenProperties DEF starts
<1>4. image_size = acc[N]
  BY DEF image_size
<1>5. N > 1 => \A j \in 1 .. N : lengths[j] > 0
  BY <1>1 DEF Registered
<1>. HIDE DEF N
<1>6. CASE want \in Range(starts)
  <2>1. i \in 1 .. N /\ starts[i] = want
    BY <1>3, <1>6 DEF Locate
  <2>2. i - 1 \in 0 .. N /\ acc[i - 1] = want /\ acc[i] = want + lengths[i]
    BY <1>2, <1>3, <2>1
  <2>3. lengths[i] > 0
    <3>1. CASE N > 1
      BY <1>5, <2>1, <3>1
    <3>2. CASE ~(N > 1)
      <4>1. i = N
        BY <1>2, <2>1, <3>2
      <4>. QED  BY <1>2, <1>4, <2>1, <2>2, <4>1
    <3>. QED  BY <3>1, <3>2
  <2>. QED  BY <1>2, <1>3, <2>1, <2>2, <2>3 DEF N
<1>7. CASE want \notin Range(starts)
  <2>. DEFINE T == {j \in DOMAIN starts : starts[j] < want}
  <2>1. i = Max(T)
    BY <1>7 DEF Locate
  <2>2. T \in SUBSET (0 .. N)
    BY <1>2, <1>3
  <2>3. \A j \in 1 .. N : acc[j - 1] # want
    BY <1>3, <1>7 DEF Range
  <2>4. T # {}
    <3>1. N # 0
      BY <1>2, <1>4
    <3>2. 1 \in 1 .. N /\ starts[1] = 0 /\ want # 0
      <4>1. 1 \in 1 .. N
        BY <1>2, <3>1
      <4>2. acc[1 - 1] # want /\ starts[1] = acc[1 - 1]
        BY <1>3, <2>3, <4>1
      <4>. QED  BY <1>2, <4>1, <4>2
    <3>3. 1 \in T
      BY <1>3, <3>2
    <3>. QED  BY <3>3
  <2>5. i \in T /\ \A j \in T : i >= j
    <3>. HIDE DEF T
    <3>. QED  BY <1>2, <2>1, <2>2, <2>4, GreatestOf
  <2>6. i \in 1 .. N /\ starts[i] < want
    BY <1>3, <2>5
  <2>7. i - 1 \in 0 .. N /\ acc[i - 1] < want /\ acc[i] = acc[i - 1] + lengths[i] /\ acc[i] \in Nat
    BY <1>2, <1>3, <2>6
  <2>8. acc[i] > want
    <3>1. CASE i = N
      BY <1>4, <3>1
    <3>2. CASE i # N
      <4>1. i + 1 \in 1 .. N /\ (i + 1) - 1 = i
        BY <1>2, <2>6, <3>2
      <4>2. acc[i] # want /\ starts[i + 1] = acc[i]
        BY <1>3, <2>3, <4>1
      <4>3. ~(acc[i] < want)
        BY <1>3, <2>5, <2>6, <4>1, <4>2
      <4>. QED  BY <2>7, <4>2, <4>3
    <3>. QED  BY <3>1, <3>2
  <2>. QED  BY <1>2, <1>3, <2>6, <2>7, <2>8 DEF N
<1>. QED  BY <1>6, <1>7


\* seq is what whole has behind its first off places.
IsAt(seq, whole, off) == \A j \in 1 .. Len(seq) : seq[j] = whole[off + j]

\* A read under way has the bytes of the image at its offset, and asks for no more of
\* them than there are.
Reading ==
    /\ rd \in [st : {"none", "running", "ok", "beyond", "io"}, off : Nat, len : 0 .. USIZE - 1,
               total : Nat, out : Seq(Bytes)]
    /\ rd.st # "none" => pc = "open"
    /\ rd.st \in {"running", "ok"} =>
         /\ rd.off + rd.total <= image_size
         /\ rd.total = IF rd.len <= image_size - rd.off THEN rd.len ELSE image_size - rd.off
         /\ Len(rd.out) <= rd.total
         /\ IsAt(rd.out, Content, rd.off)
    /\ rd.st = "ok" => Len(rd.out) = rd.total
    /\ rd.st = "beyond" => rd.off > image_size

\* Nothing is being read at first.
LEMMA InitReading == ASSUME Init PROVE Reading
<1>1. <<>> \in Seq(Bytes) /\ 0 \in 0 .. USIZE - 1
  BY RawdiskAssumption
<1>2. rd = [st |-> "none", off |-> 0, len |-> 0, total |-> 0, out |-> <<>>]
  BY DEF Init, NoRead
<1>. QED  BY <1>1, <1>2 DEF Reading

\* The image does not change under its reader.
LEMMA OpenKept ==
    ASSUME UNCHANGED <<image, pc, paths, sources, lengths>>
    PROVE  /\ Content' = Content /\ image_size' = image_size /\ acc' = acc
           /\ Bytes' = Bytes
<1>1. acc' = acc
  BY DEF acc
<1>. QED  BY <1>1 DEF Content, image_size, Bytes, Names

\* The start of a read keeps Reading.
LEMMA BeginReads ==
    ASSUME Discovery, Registered, Reading, NEW off \in Nat, NEW len \in 0 .. USIZE - 1,
           BeginRead(off, len)
    PROVE  Reading'
<1>1. /\ Content' = Content /\ image_size' = image_size /\ Bytes' = Bytes /\ pc' = pc
      /\ pc = "open"
  BY OpenKept DEF BeginRead
<1>2. image_size \in Nat /\ len \in Nat
  BY <1>1, ContentFacts, RawdiskAssumption
<1>3. <<>> \in Seq(Bytes) /\ Len(<<>>) = 0
  OBVIOUS
<1>4. CASE off > image_size
  <2>1. rd' = [st |-> "beyond", off |-> off, len |-> len, total |-> 0, out |-> <<>>]
    BY <1>4 DEF BeginRead, NoRead
  <2>. QED  BY <1>1, <1>3, <1>4, <2>1 DEF Reading
<1>5. CASE ~(off > image_size)
  <2>. DEFINE total == IF len <= image_size - off THEN len ELSE image_size - off
  <2>1. Clamp(off, len) = total /\ total \in Nat /\ off + total <= image_size
    BY <1>2, <1>5, LesserOf DEF Clamp
  <2>2. rd' = [st |-> "running", off |-> off, len |-> len, total |-> total, out |-> <<>>]
    BY <1>5, <2>1 DEF BeginRead, NoRead
  <2>. QED  BY <1>1, <1>3, <2>1, <2>2 DEF Reading, IsAt
<1>. QED  BY <1>4, <1>5

\* What fits a usize is not narrowed.
LEMMA TakeFacts ==
    ASSUME NEW left \in Nat, NEW room \in Nat, left >= 1, left < USIZE, room >= 1
    PROVE  /\ take_bytes(left, room) \in Nat /\ take_bytes(left, room) >= 1
           /\ take_bytes(left, room) <= left /\ take_bytes(left, room) <= room
<1>1. PICK m : m = Min({left, room})
  OBVIOUS
<1>2. m \in Nat /\ m >= 1 /\ m <= left /\ m <= room
  BY <1>1, LesserOf
<1>3. m < USIZE /\ USIZE \in Nat
  BY <1>2, RawdiskAssumption
<1>4. m % USIZE = m
  BY <1>2, <1>3
<1>. QED  BY <1>1, <1>2, <1>4 DEF take_bytes

\* Two runs of the content that meet are one.
LEMMA Extends ==
    ASSUME NEW A, NEW out \in Seq(A), NEW got \in Seq(A), NEW whole, NEW off \in Nat,
           IsAt(out, whole, off), IsAt(got, whole, off + Len(out))
    PROVE  /\ out \o got \in Seq(A) /\ Len(out \o got) = Len(out) + Len(got)
           /\ IsAt(out \o got, whole, off)
<1>1. Len(out) \in Nat /\ Len(got) \in Nat
  BY LenProperties
<1>2. ASSUME NEW j \in 1 .. Len(out) + Len(got) PROVE (out \o got)[j] = whole[off + j]
  <2>1. (out \o got)[j] = IF j <= Len(out) THEN out[j] ELSE got[j - Len(out)]
    BY ConcatProperties
  <2>2. CASE j <= Len(out)
    BY <1>1, <2>1, <2>2 DEF IsAt
  <2>3. CASE ~(j <= Len(out))
    <3>1. j - Len(out) \in 1 .. Len(got) /\ off + Len(out) + (j - Len(out)) = off + j
      BY <1>1, <2>3
    <3>. QED  BY <2>1, <2>3, <3>1 DEF IsAt
  <2>. QED  BY <2>2, <2>3
<1>. QED  BY <1>2, ConcatProperties DEF IsAt

\* A read of one segment keeps Reading.
LEMMA SliceReads == ASSUME Discovery, Registered, Reading, ReadSlice PROVE Reading'
<1>. DEFINE want == rd.off + Len(rd.out)
            left == rd.total - Len(rd.out)
<1>1. /\ rd.st = "running" /\ pc = "open" /\ Len(rd.out) < rd.total
      /\ rd.off \in Nat /\ rd.total \in Nat /\ rd.out \in Seq(Bytes) /\ rd.len \in 0 .. USIZE - 1
      /\ rd.off + rd.total <= image_size
      /\ rd.total = IF rd.len <= image_size - rd.off THEN rd.len ELSE image_size - rd.off
      /\ IsAt(rd.out, Content, rd.off)
  BY DEF Reading, ReadSlice
<1>2. Content' = Content /\ image_size' = image_size /\ Bytes' = Bytes /\ pc' = pc
  BY OpenKept DEF ReadSlice
<1>3. image_size \in Nat /\ Content \in Seq(Bytes) /\ Len(Content) = image_size
  BY <1>1, ContentFacts
<1>4. Len(rd.out) \in Nat /\ want \in Nat /\ want < image_size /\ left \in Nat
      /\ left >= 1 /\ left < USIZE
  <2>1. Len(rd.out) \in Nat
    BY <1>1, LenProperties
  <2>2. rd.total <= rd.len /\ rd.len \in Nat /\ rd.len < USIZE /\ USIZE \in Nat
    BY <1>1, <1>3, RawdiskAssumption
  <2>3. want \in Nat /\ want < image_size
    BY <1>1, <1>3, <2>1
  <2>4. left \in Nat /\ left >= 1 /\ left < USIZE
    BY <1>1, <2>1, <2>2
  <2>. HIDE DEF want, left
  <2>. QED  BY <2>1, <2>2, <2>3, <2>4
<1>5. PICK i \in Locate(want) :
        LET within == want - starts[i]
            take   == take_bytes(left, lengths[i] - within)
            got    == [k \in 1 .. take |-> <<sources[i], within + k - 1>>]
        IN  IF take = 0 THEN rd' = [rd EXCEPT !.st = "stuck"]
            ELSE rd' = [rd EXCEPT !.out = @ \o got] \/ rd' = [rd EXCEPT !.st = "io"]
  <2>1. ~(want >= image_size)
    BY <1>3, <1>4
  <2>. QED  BY <2>1, Zenon DEF ReadSlice
<1>. DEFINE within == want - starts[i]
            take   == take_bytes(left, lengths[i] - within)
            got    == [k \in 1 .. take |-> <<sources[i], within + k - 1>>]
<1>6. /\ i \in 1 .. Len(lengths) /\ starts[i] = acc[i - 1] /\ acc[i - 1] \in Nat
      /\ lengths[i] \in Nat /\ acc[i - 1] <= want /\ want - acc[i - 1] < lengths[i]
  BY <1>1, <1>4, LocateFacts
<1>7. within \in Nat /\ within < lengths[i] /\ want = acc[i - 1] + within
  BY <1>4, <1>6
<1>8. take \in Nat /\ take >= 1 /\ take <= left /\ take <= lengths[i] - within
  <2>1. lengths[i] - within \in Nat /\ lengths[i] - within >= 1
    BY <1>6, <1>7
  <2>2. PICK room : room = lengths[i] - within
    OBVIOUS
  <2>. HIDE DEF left, within
  <2>. QED  BY <1>4, <2>1, <2>2, TakeFacts
<1>13. \/ take = 0 /\ rd' = [rd EXCEPT !.st = "stuck"]
       \/ rd' = [rd EXCEPT !.out = @ \o got]
       \/ rd' = [rd EXCEPT !.st = "io"]
  BY <1>5
<1>. HIDE DEF take, within, want, left
<1>9. sources[i] \in Names
  BY <1>6, ElementOfSeq DEF Registered
<1>10. /\ got \in Seq(Bytes) /\ Len(got) = take
       /\ \A k \in 1 .. take : got[k] = Content[want + k]
  <2>1. ASSUME NEW k \in 1 .. take
        PROVE  <<sources[i], within + k - 1>> \in Bytes
               /\ <<sources[i], within + k - 1>> = Content[want + k]
    <3>1. PICK p \in 1 .. lengths[i] : p = within + k
      BY <1>6, <1>7, <1>8
    <3>2. Content[acc[i - 1] + p] = <<sources[i], p - 1>>
      BY <1>1, <1>6, ContentFacts
    <3>3. acc[i - 1] + p = want + k /\ p - 1 = within + k - 1 /\ p - 1 \in Nat
      BY <1>6, <1>7, <1>8, <3>1
    <3>. QED  BY <1>9, <3>2, <3>3 DEF Bytes
  <2>2. take \in Nat
    BY <1>8
  <2>3. \A k \in 1 .. take : got[k] \in Bytes /\ got[k] = Content[want + k]
    BY <2>1
  <2>4. got \in [1 .. take -> Bytes]
    BY <2>1
  <2>. HIDE DEF got
  <2>5. got \in Seq(Bytes) /\ Len(got) = take
    BY <2>2, <2>4
  <2>. QED  BY <2>3, <2>5
<1>11. CASE rd' = [rd EXCEPT !.st = "io"]
  BY <1>1, <1>2, <1>11 DEF Reading
<1>12. CASE rd' = [rd EXCEPT !.out = @ \o got]
  <2>. HIDE DEF got
  <2>1. IsAt(got, Content, rd.off + Len(rd.out))
    BY <1>10 DEF want, IsAt
  <2>2. /\ rd.out \o got \in Seq(Bytes) /\ Len(rd.out \o got) = Len(rd.out) + take
        /\ IsAt(rd.out \o got, Content, rd.off)
    BY <1>1, <1>10, <2>1, Extends
  <2>3. Len(rd.out) + take <= rd.total
    BY <1>1, <1>4, <1>8 DEF left
  <2>4. /\ rd' \in [st : {"running"}, off : Nat, len : 0 .. USIZE - 1, total : Nat, out : Seq(Bytes)]
        /\ rd'.off = rd.off /\ rd'.total = rd.total /\ rd'.len = rd.len /\ rd'.st = rd.st
        /\ rd'.out = rd.out \o got
    BY <1>1, <1>12, <2>2 DEF Reading
  <2>. QED  BY <1>1, <1>2, <2>2, <2>3, <2>4 DEF Reading
<1>. QED  BY <1>8, <1>11, <1>12, <1>13


\* The end of a read keeps Reading.
LEMMA EndReads == ASSUME Reading, EndRead \/ Return PROVE Reading'
<1>1. Content' = Content /\ image_size' = image_size /\ Bytes' = Bytes /\ pc' = pc
  BY OpenKept DEF EndRead, Return
<1>2. CASE EndRead
  <2>1. /\ rd.st = "running" /\ Len(rd.out) >= rd.total /\ rd' = [rd EXCEPT !.st = "ok"]
        /\ Len(rd.out) \in Nat /\ rd.total \in Nat
    BY <1>2, LenProperties DEF EndRead, Reading
  <2>2. rd'.out = rd.out /\ rd'.total = rd.total /\ rd'.len = rd.len /\ rd'.off = rd.off /\ rd'.st = "ok"
    BY <2>1 DEF Reading
  <2>3. Len(rd.out) = rd.total
    BY <2>1 DEF Reading
  <2>. QED  BY <1>1, <2>1, <2>2, <2>3 DEF Reading
<1>3. CASE Return
  <2>1. <<>> \in Seq(Bytes) /\ 0 \in 0 .. USIZE - 1
    BY RawdiskAssumption
  <2>2. rd' = [st |-> "none", off |-> 0, len |-> 0, total |-> 0, out |-> <<>>]
    BY <1>3 DEF Return, NoRead
  <2>. QED  BY <1>1, <2>1, <2>2 DEF Reading
<1>. QED  BY <1>2, <1>3

\* Every step keeps Reading.
LEMMA NextReads == ASSUME Discovery, Registered, Reading, [Next]_vars PROVE Reading'
<1>1. ASSUME NEW r \in Reads, BeginRead(r[1], r[2]) PROVE Reading'
  <2>1. r[1] \in Nat /\ r[2] \in 0 .. USIZE - 1
    BY RawdiskAssumption
  <2>. QED  BY <1>1, <2>1, BeginReads
<1>2. CASE rd' = rd
  <2>1. CASE pc = "open"
    <3>1. UNCHANGED <<image, pc, paths, sources, lengths>>
      BY <2>1, FoundEarly
    <3>2. Content' = Content /\ image_size' = image_size /\ Bytes' = Bytes
      BY <3>1, OpenKept
    <3>. QED  BY <1>2, <3>1, <3>2 DEF Reading
  <2>2. CASE pc # "open"
    <3>1. rd.st = "none" /\ image' = image
      BY <2>2, FoundEarly DEF Reading
    <3>2. Bytes' = Bytes
      BY <3>1 DEF Bytes, Names
    <3>. QED  BY <1>2, <3>1, <3>2 DEF Reading
  <2>. QED  BY <2>1, <2>2
<1>3. Start \/ Undetermined \/ OpenSource \/ Opened \/ Rest \/ UNCHANGED vars => rd' = rd
  BY DEF Start, Undetermined, OpenSource, Opened, Rest, vars, found
<1>4. ASSUME NEW yes \in BOOLEAN, Probe(yes) PROVE rd' = rd
  BY <1>4 DEF Probe, ProbeZero, ProbeOne, ProbeBelow, ProbeAbove, ProbeDown, ProbeWalk, ProbePast,
              found
<1>. QED  BY <1>1, <1>2, <1>3, <1>4, SliceReads, EndReads DEF Next

Inv == Discovery /\ Registered /\ Reading

\* The invariant holds in every state.
LEMMA InvHolds == Spec => []Inv
<1>1. Init => Inv
  BY InitDiscovers, InitRegistered, InitReading DEF Inv
<1>2. Inv /\ [Next]_vars => Inv'
  BY NextDiscovers, NextRegistered, NextReads DEF Inv
<1>. QED  BY <1>1, <1>2, PTL DEF Spec

\* A sequence that is what whole has at a place is a part of it.
LEMMA SubSeqIs ==
    ASSUME NEW A, NEW whole \in Seq(A), NEW out \in Seq(A), NEW off \in Nat,
           IsAt(out, whole, off), off + Len(out) <= Len(whole)
    PROVE  out = SubSeq(whole, off + 1, off + Len(out))
<1>1. Len(out) \in Nat /\ Len(whole) \in Nat
  BY LenProperties
<1>2. PICK m \in Int, e \in Int : m = off + 1 /\ e = off + Len(out)
  BY <1>1
<1>3. \A j \in m .. e : whole[j] \in A
  <2>1. \A j \in m .. e : j \in 1 .. Len(whole)
    BY <1>1, <1>2
  <2>. QED  BY <2>1, ElementOfSeq
<1>4. PICK q : q = SubSeq(whole, m, e)
  OBVIOUS
<1>5. /\ q \in Seq(A) /\ Len(q) = IF m <= e THEN e - m + 1 ELSE 0
      /\ \A j \in 1 .. e - m + 1 : q[j] = whole[m + j - 1]
  BY <1>3, <1>4, SubSeqProperties
<1>6. e - m + 1 = Len(out) /\ Len(q) = Len(out)
  BY <1>1, <1>2, <1>5
<1>7. \A j \in 1 .. Len(out) : q[j] = out[j]
  <2>1. \A j \in 1 .. Len(out) : m + j - 1 = off + j
    BY <1>1, <1>2
  <2>. QED  BY <1>5, <1>6, <2>1 DEF IsAt
<1>8. q = out
  BY <1>5, <1>6, <1>7, SeqEqual
<1>. QED  BY <1>2, <1>4, <1>8

\* The invariant implies that reads match the segments.
LEMMA ReadsMatch == ASSUME Inv PROVE ReadsMatchSegments
<1>1. rd.st # "none" => Content \in Seq(Bytes) /\ Len(Content) = image_size /\ image_size \in Nat
  BY ContentFacts DEF Inv, Reading
<1>2. ASSUME rd.st = "ok"
      PROVE  rd.out = SubSeq(Content, rd.off + 1, Min({rd.off + rd.len, Len(Content)}))
  <2>1. /\ rd.off \in Nat /\ rd.len \in Nat /\ rd.total \in Nat /\ rd.out \in Seq(Bytes)
        /\ rd.off + rd.total <= image_size /\ Len(rd.out) = rd.total
        /\ rd.total = IF rd.len <= image_size - rd.off THEN rd.len ELSE image_size - rd.off
        /\ IsAt(rd.out, Content, rd.off)
    BY <1>2, RawdiskAssumption DEF Inv, Reading
  <2>2. rd.out = SubSeq(Content, rd.off + 1, rd.off + Len(rd.out))
    BY <1>1, <1>2, <2>1, SubSeqIs
  <2>3. Min({rd.off + rd.len, Len(Content)}) = rd.off + Len(rd.out)
    <3>1. PICK a \in Int, b \in Int : a = rd.off + rd.len /\ b = Len(Content)
      BY <1>1, <1>2, <2>1
    <3>2. rd.off + Len(rd.out) = IF a <= b THEN a ELSE b
      BY <1>1, <1>2, <2>1, <3>1
    <3>. QED  BY <3>1, <3>2, LesserOf
  <2>. QED  BY <2>2, <2>3
<1>3. rd.st = "beyond" => rd.off > Len(Content)
  BY <1>1 DEF Inv, Reading
<1>4. rd.st # "stuck"
  BY DEF Inv, Reading
<1>. QED  BY <1>2, <1>3, <1>4 DEF ReadsMatchSegments

\* A read returns the bytes of the concatenated segments at its offset, up to the end of
\* the image, whatever boundaries it crosses; it fails only past the end or when the
\* store does, and always gets on (SegmentMap, read_at_offset).
THEOREM ReadsAreOfTheSegments == Spec => []ReadsMatchSegments
BY InvHolds, ReadsMatch, PTL
=============================================================================
