----------------------------- MODULE VmdkProofs -----------------------------
(***************************************************************************)
(* Proofs about VmdkReader, for every set of disks.                        *)
(***************************************************************************)
EXTENDS VmdkReader, FiniteSetTheorems, SequenceTheorems, WellFoundedInduction, TLAPS

-----------------------------------------------------------------------------
(* Least and greatest elements.                                            *)

\* A set of natural numbers has a least element.
LEMMA LeastOf ==
    ASSUME NEW T \in SUBSET Nat, T # {}
    PROVE  \E x \in T : \A y \in T : x <= y
<1>. DEFINE R == {ss \in Nat \X Nat : ss[1] < ss[2]}
<1>1. IsWellFoundedOn(R, Nat)
  BY NatLessThanWellFounded, Zenon DEF OpToRel
<1>2. \A x, y \in Nat : x < y => <<x, y>> \in R
  OBVIOUS
<1>. HIDE DEF R
<1>3. PICK x \in T : \A y \in T : ~(<<y, x>> \in R)
  BY <1>1, WFMin
<1>4. \A y \in T : ~(y < x)
  BY <1>2, <1>3
<1>. QED  BY <1>4

\* What holds of 0 and of the next number holds of all up to m.
LEMMA UpwardTo ==
    ASSUME NEW m \in Nat, NEW S, 0 \in S, \A i \in 1 .. m : i - 1 \in S => i \in S
    PROVE  0 .. m \subseteq S
<1>. SUFFICES ASSUME NEW z \in 0 .. m, z \notin S PROVE FALSE
  OBVIOUS
<1>. DEFINE T == {i \in 0 .. m : i \notin S}
<1>1. T \in SUBSET Nat /\ T # {}
  OBVIOUS
<1>2. PICK x \in T : \A y \in T : x <= y
  <2>. HIDE DEF T
  <2>. QED  BY <1>1, LeastOf
<1>3. x \in 0 .. m /\ x # 0
  OBVIOUS
<1>4. x \in 1 .. m /\ x - 1 \in 0 .. m
  BY <1>3
<1>5. x - 1 \in S
  BY <1>2, <1>4
<1>. QED  BY <1>4, <1>5

\* A set of numbers with a bound has a greatest element.
LEMMA GreatestOf ==
    ASSUME NEW b \in Nat, NEW T \in SUBSET (0 .. b), T # {}
    PROVE  Max(T) \in T /\ \A y \in T : Max(T) >= y
<1>. DEFINE U == {b - x : x \in T}
<1>1. U \in SUBSET Nat /\ U # {}
  <2>1. \A x \in T : b - x \in Nat
    OBVIOUS
  <2>. QED  BY <2>1
<1>2. PICK u \in U : \A y \in U : u <= y
  <2>. HIDE DEF U
  <2>. QED  BY <1>1, LeastOf
<1>3. PICK x \in T : u = b - x
  BY <1>2
<1>4. ASSUME NEW y \in T PROVE x >= y
  <2>1. b - x <= b - y
    BY <1>2, <1>3
  <2>. QED  BY <1>3, <2>1
<1>5. \E z \in T : \A y \in T : z >= y
  BY <1>3, <1>4
<1>. QED  BY <1>5 DEF Max

\* The lesser of two numbers.
LEMMA LesserOf ==
    ASSUME NEW a \in Int, NEW b \in Int
    PROVE  Min({a, b}) = IF a <= b THEN a ELSE b
<1>1. PICK x \in {a, b} : \A y \in {a, b} : x <= y
  OBVIOUS
<1>2. Min({a, b}) \in {a, b} /\ \A y \in {a, b} : Min({a, b}) <= y
  BY <1>1 DEF Min
<1>. QED  BY <1>2

\* The greater of two numbers.
LEMMA GreaterOf ==
    ASSUME NEW a \in Int, NEW b \in Int
    PROVE  Max({a, b}) = IF a <= b THEN b ELSE a
<1>1. PICK x \in {a, b} : \A y \in {a, b} : x >= y
  OBVIOUS
<1>2. Max({a, b}) \in {a, b} /\ \A y \in {a, b} : Max({a, b}) >= y
  BY <1>1 DEF Max
<1>. QED  BY <1>2

\* Max and Min of sets of naturals that have one.
LEMMA LeastIs ==
    ASSUME NEW T \in SUBSET Nat, T # {}
    PROVE  Min(T) \in T /\ Min(T) \in Nat /\ \A y \in T : Min(T) <= y
<1>1. \E x \in T : \A y \in T : x <= y
  BY LeastOf
<1>2. Min(T) \in T /\ \A y \in T : Min(T) <= y
  BY <1>1 DEF Min
<1>. QED  BY <1>2

-----------------------------------------------------------------------------
(* Maps of spans.                                                          *)

\* The starts are numbers.
Starting(m) == DOMAIN m \in SUBSET Nat

\* A map with one entry put into it.
LEMMA PutIs ==
    ASSUME NEW m, NEW k, NEW v
    PROVE  /\ DOMAIN Put(m, k, v) = DOMAIN m \cup {k}
           /\ Put(m, k, v)[k] = v
           /\ \A x \in DOMAIN m : x # k => Put(m, k, v)[x] = m[x]
BY DEF Put

\* A map with one entry dropped.
LEMMA DropIs ==
    ASSUME NEW m, NEW k
    PROVE  /\ DOMAIN Drop(m, k) = DOMAIN m \ {k}
           /\ \A x \in DOMAIN m : x # k => Drop(m, k)[x] = m[x]
BY DEF Drop

\* The last start at or before s, and the first one after it.
LEMMA LastUpTo ==
    ASSUME NEW m, Starting(m), NEW s \in Nat, UpTo(m, s) # {}
    PROVE  /\ Max(UpTo(m, s)) \in DOMAIN m /\ Max(UpTo(m, s)) \in Nat /\ Max(UpTo(m, s)) <= s
           /\ \A k \in DOMAIN m : k <= s => k <= Max(UpTo(m, s))
<1>1. UpTo(m, s) \in SUBSET (0 .. s)
  BY DEF UpTo, Starting
<1>2. Max(UpTo(m, s)) \in UpTo(m, s) /\ \A k \in UpTo(m, s) : Max(UpTo(m, s)) >= k
  BY <1>1, GreatestOf
<1>. QED  BY <1>1, <1>2 DEF UpTo

\* The first key after s, as the range queries of the code find it.
LEMMA FirstAfter ==
    ASSUME NEW m, Starting(m), NEW s \in Nat, After(m, s) # {}
    PROVE  /\ Min(After(m, s)) \in DOMAIN m /\ Min(After(m, s)) \in Nat /\ Min(After(m, s)) > s
           /\ \A k \in DOMAIN m : k > s => k >= Min(After(m, s))
<1>1. After(m, s) \in SUBSET Nat
  BY DEF After, Starting
<1>2. Min(After(m, s)) \in After(m, s) /\ \A k \in After(m, s) : Min(After(m, s)) <= k
  BY <1>1, LeastIs
<1>. QED  BY <1>1, <1>2 DEF After

-----------------------------------------------------------------------------
(* remove_span, a turn of its loop at a time.                              *)

\* Spans from start to end.
Ends(m) == Starting(m) /\ \A b \in DOMAIN m : m[b] \in Nat /\ b <= m[b]

\* No two overlap, or none even touch.
Ordered(m) == Ends(m) /\ \A b, c \in DOMAIN m : b < c => m[b] <= c

Apart(m) == \A b, c \in DOMAIN m : b < c => m[b] < c

\* None is empty.
Filled(m) == \A b \in DOMAIN m : b < m[b]

\* Some span has sector s.
Has(m, s) == \E b \in DOMAIN m : b <= s /\ s < m[b]

\* No span that starts up to s reaches beyond it.
Clear(m, s) == \A b \in DOMAIN m : b <= s => m[b] <= s

\* Only sectors from sbeg on and before send are gone.
Removes(m, r, sbeg, send) ==
    /\ Ordered(r.map)
    /\ \A s \in Nat : Has(m, s) /\ ~(sbeg <= s /\ s < send) => Has(r.map, s)
    /\ \A s \in Nat : Has(r.map, s) => Has(m, s)
    /\ \A N \in Nat : (\A b \in DOMAIN m : m[b] <= N) => \A b \in DOMAIN r.map : r.map[b] <= N
    /\ Filled(m) => Filled(r.map)
    /\ ~r.done => r.sbeg \in Nat /\ sbeg <= r.sbeg /\ r.sbeg <= send

\* All of them are, or at least those the turn has passed.
RemovesAll(r, sbeg, send) ==
    /\ Apart(r.map)
    /\ \A s \in Nat : sbeg <= s /\ s < (IF r.done THEN send ELSE r.sbeg) => ~Has(r.map, s)
    /\ ~r.done => Clear(r.map, r.sbeg)

\* Dropping a span takes its sectors out and nothing else.
LEMMA DropRemoves ==
    ASSUME NEW m, Ordered(m), NEW u \in DOMAIN m
    PROVE  /\ Ordered(Drop(m, u))
           /\ Apart(m) => Apart(Drop(m, u))
           /\ Filled(m) => Filled(Drop(m, u))
           /\ \A s \in Nat : Has(Drop(m, u), s) => Has(m, s) /\ ~(u <= s /\ s < m[u])
           /\ \A s \in Nat : Has(m, s) /\ ~(u <= s /\ s < m[u]) => Has(Drop(m, u), s)
<1>. DEFINE t == Drop(m, u)
<1>1. DOMAIN t = DOMAIN m \ {u} /\ \A x \in DOMAIN t : t[x] = m[x]
  BY DropIs
<1>2. u \in Nat /\ m[u] \in Nat /\ u <= m[u] /\ \A b \in DOMAIN m : b \in Nat /\ m[b] \in Nat /\ b <= m[b]
  BY DEF Ordered, Ends, Starting
<1>3. \A b, c \in DOMAIN m : b < c => m[b] <= c
  BY DEF Ordered
<1>. HIDE DEF t
<1>4. Ordered(t)
  BY <1>1, <1>2, <1>3 DEF Ordered, Ends, Starting
<1>5. (Apart(m) => Apart(t)) /\ (Filled(m) => Filled(t))
  BY <1>1 DEF Apart, Filled
<1>6. ASSUME NEW s \in Nat, Has(t, s) PROVE Has(m, s) /\ ~(u <= s /\ s < m[u])
  <2>1. PICK b \in DOMAIN t : b <= s /\ s < t[b]
    BY <1>6 DEF Has
  <2>2. b \in DOMAIN m /\ b # u /\ t[b] = m[b]
    BY <1>1
  <2>3. Has(m, s)
    BY <2>1, <2>2 DEF Has
  <2>4. b < u => m[b] <= u
    BY <1>3, <2>2
  <2>5. u < b => m[u] <= b
    BY <1>3, <2>2
  <2>. QED  BY <1>2, <2>1, <2>2, <2>3, <2>4, <2>5
<1>7. ASSUME NEW s \in Nat, Has(m, s), ~(u <= s /\ s < m[u]) PROVE Has(t, s)
  BY <1>1, <1>7 DEF Has
<1>. QED  BY <1>4, <1>5, <1>6, <1>7 DEF t

\* A span put in where there is room for it.
LEMMA PutAdds ==
    ASSUME NEW m, Ordered(m), NEW k \in Nat, NEW e \in Nat, k <= e,
           \A b \in DOMAIN m : (b < k => m[b] <= k) /\ (k < b => e <= b) /\ b # k
    PROVE  /\ Ordered(Put(m, k, e))
           /\ \A s \in Nat : Has(Put(m, k, e), s) <=> Has(m, s) \/ (k <= s /\ s < e)
           /\ Filled(m) /\ k < e => Filled(Put(m, k, e))
           /\ Apart(m) /\ (\A b \in DOMAIN m : (b < k => m[b] < k) /\ (k < b => e < b))
                => Apart(Put(m, k, e))
<1>. DEFINE t == Put(m, k, e)
<1>1. DOMAIN t = DOMAIN m \cup {k} /\ t[k] = e /\ \A x \in DOMAIN m : t[x] = m[x]
  BY DEF Put
<1>2. \A b \in DOMAIN m : b \in Nat /\ m[b] \in Nat /\ b <= m[b]
  BY DEF Ordered, Ends, Starting
<1>3. \A b, c \in DOMAIN m : b < c => m[b] <= c
  BY DEF Ordered
<1>. HIDE DEF t
<1>4. Ordered(t)
  <2>1. Ends(t)
    BY <1>1, <1>2 DEF Ends, Starting
  <2>. QED  BY <1>1, <1>2, <1>3, <2>1 DEF Ordered
<1>5. ASSUME NEW s \in Nat PROVE Has(t, s) <=> Has(m, s) \/ (k <= s /\ s < e)
  BY <1>1 DEF Has
<1>6. Filled(m) /\ k < e => Filled(t)
  BY <1>1 DEF Filled
<1>7. Apart(m) /\ (\A b \in DOMAIN m : (b < k => m[b] < k) /\ (k < b => e < b)) => Apart(t)
  BY <1>1 DEF Apart
<1>. QED  BY <1>4, <1>5, <1>6, <1>7 DEF t

\* The second half of a turn, which looks for a span above sbeg.
LEMMA AboveRemoves ==
    ASSUME NEW m, Ordered(m), NEW sbeg \in Nat, NEW send \in Nat, sbeg <= send
    PROVE  LET r == RemoveAbove(m, sbeg, send)
           IN  /\ Removes(m, r, sbeg, send)
               /\ Apart(m) /\ Clear(m, sbeg) => RemovesAll(r, sbeg, send)
<1>. DEFINE r == RemoveAbove(m, sbeg, send)
            u == Min(After(m, sbeg))
            d == Drop(m, u)
            p == Put(d, send, m[u])
<1>0. Starting(m) /\ \A b \in DOMAIN m : b \in Nat /\ m[b] \in Nat /\ b <= m[b]
  BY DEF Ordered, Ends, Starting
<1>1. CASE After(m, sbeg) = {} \/ u > send
  <2>1. r = Done(m, sbeg)
    BY <1>1 DEF RemoveAbove
  <2>2. r.map = m /\ r.done
    BY <2>1 DEF Done
  <2>3. Removes(m, r, sbeg, send)
    BY <2>2 DEF Removes
  <2>4. \A b \in DOMAIN m : b > sbeg => b > send
    <3>1. CASE After(m, sbeg) = {}
      BY <3>1 DEF After
    <3>2. CASE After(m, sbeg) # {}
      <4>1. u \in Nat /\ \A k \in DOMAIN m : k > sbeg => k >= u
        BY <1>0, <3>2, FirstAfter
      <4>. QED  BY <1>0, <1>1, <3>2, <4>1
    <3>. QED  BY <3>1, <3>2
  <2>5. ASSUME Apart(m), Clear(m, sbeg) PROVE RemovesAll(r, sbeg, send)
    <3>1. ASSUME NEW s \in Nat, sbeg <= s, s < send, NEW b \in DOMAIN m, b <= s, s < m[b] PROVE FALSE
      BY <1>0, <2>4, <2>5, <3>1 DEF Clear
    <3>. QED  BY <2>2, <2>5, <3>1 DEF RemovesAll, Has
  <2>. QED  BY <2>3, <2>5
<1>2. CASE ~(After(m, sbeg) = {} \/ u > send)
  <2>1. u \in DOMAIN m /\ u \in Nat /\ u > sbeg /\ \A k \in DOMAIN m : k > sbeg => k >= u
    BY <1>0, <1>2, FirstAfter
  <2>2. m[u] \in Nat /\ u <= m[u] /\ u <= send
    BY <1>0, <1>2, <2>1
  <2>3. DOMAIN d = DOMAIN m \ {u} /\ \A x \in DOMAIN d : d[x] = m[x]
    BY DEF Drop
  <2>. HIDE DEF u, d, p
  <2>4. /\ Ordered(d)
        /\ Apart(m) => Apart(d)
        /\ Filled(m) => Filled(d)
        /\ \A s \in Nat : Has(d, s) => Has(m, s) /\ ~(u <= s /\ s < m[u])
        /\ \A s \in Nat : Has(m, s) /\ ~(u <= s /\ s < m[u]) => Has(d, s)
    BY <2>1, DropRemoves DEF d
  <2>5. \A b, c \in DOMAIN m : b < c => m[b] <= c
    BY DEF Ordered
  <2>6. Apart(m) => \A b, c \in DOMAIN m : b < c => m[b] < c
    BY DEF Apart
  <2>7. Clear(m, sbeg) => \A b \in DOMAIN m : b < u => m[b] <= sbeg
    BY <1>0, <2>1 DEF Clear
  <2>8. CASE send < m[u]
    <3>1. r = Done(p, sbeg)
      BY <1>2, <2>8 DEF RemoveAbove, u, d, p
    <3>2. r.map = p /\ r.done
      BY <3>1 DEF Done
    <3>3. \A b \in DOMAIN d : (b < send => d[b] <= send) /\ (send < b => m[u] <= b) /\ b # send
      <4>1. SUFFICES ASSUME NEW b \in DOMAIN d
                     PROVE  (b < send => d[b] <= send) /\ (send < b => m[u] <= b) /\ b # send
        OBVIOUS
      <4>2. b \in DOMAIN m /\ b # u /\ d[b] = m[b] /\ b \in Nat /\ m[b] \in Nat
        BY <1>0, <2>3
      <4>3. CASE b < u
        BY <2>1, <2>2, <2>5, <4>2, <4>3
      <4>4. CASE u < b
        <5>1. m[u] <= b
          BY <2>1, <2>5, <4>2, <4>4
        <5>. QED  BY <2>2, <2>8, <4>2, <5>1
      <4>. QED  BY <2>1, <4>2, <4>3, <4>4
    <3>4. /\ Ordered(p)
          /\ \A s \in Nat : Has(p, s) <=> Has(d, s) \/ (send <= s /\ s < m[u])
          /\ Filled(d) /\ send < m[u] => Filled(p)
          /\ Apart(d) /\ (\A b \in DOMAIN d : (b < send => d[b] < send) /\ (send < b => m[u] < b))
                => Apart(p)
      BY <2>2, <2>4, <2>8, <3>3, PutAdds DEF p
    <3>5. DOMAIN p = DOMAIN d \cup {send} /\ p[send] = m[u] /\ \A x \in DOMAIN d : x # send => p[x] = d[x]
      BY DEF Put, p
    <3>6. ASSUME NEW s \in Nat, Has(m, s), ~(sbeg <= s /\ s < send) PROVE Has(p, s)
      BY <2>1, <2>2, <2>4, <3>4, <3>6
    <3>7. ASSUME NEW s \in Nat, Has(p, s) PROVE Has(m, s)
      <4>1. Has(d, s) \/ (u <= s /\ s < m[u])
        BY <2>1, <2>2, <3>4, <3>7
      <4>. QED  BY <2>1, <2>4, <4>1 DEF Has
    <3>8. ASSUME NEW N \in Nat, \A b \in DOMAIN m : m[b] <= N, NEW b \in DOMAIN p PROVE p[b] <= N
      BY <2>1, <2>3, <3>5, <3>8
    <3>9. Removes(m, r, sbeg, send)
      BY <2>4, <2>8, <3>2, <3>4, <3>6, <3>7, <3>8 DEF Removes
    <3>10. ASSUME Apart(m), Clear(m, sbeg) PROVE RemovesAll(r, sbeg, send)
      <4>1. \A b \in DOMAIN d : (b < send => d[b] < send) /\ (send < b => m[u] < b)
        <5>1. SUFFICES ASSUME NEW b \in DOMAIN d
                       PROVE  (b < send => d[b] < send) /\ (send < b => m[u] < b)
          OBVIOUS
        <5>2. b \in DOMAIN m /\ b # u /\ d[b] = m[b] /\ b \in Nat /\ m[b] \in Nat
          BY <1>0, <2>3
        <5>3. CASE b < u
          BY <2>1, <2>2, <2>7, <3>10, <5>2, <5>3
        <5>4. CASE u < b
          <6>1. m[u] < b
            BY <2>1, <2>6, <3>10, <5>2, <5>4
          <6>. QED  BY <2>2, <2>8, <5>2, <6>1
        <5>. QED  BY <2>1, <5>2, <5>3, <5>4
      <4>2. Apart(p)
        BY <2>4, <2>8, <3>4, <3>10, <4>1
      <4>3. ASSUME NEW s \in Nat, sbeg <= s, s < send, Has(p, s) PROVE FALSE
        <5>1. Has(d, s)
          BY <3>4, <4>3
        <5>2. Has(m, s) /\ ~(u <= s /\ s < m[u])
          BY <2>4, <5>1
        <5>3. PICK b \in DOMAIN m : b <= s /\ s < m[b]
          BY <5>2 DEF Has
        <5>4. CASE b < u
          BY <1>0, <2>7, <3>10, <4>3, <5>3, <5>4
        <5>5. CASE b >= u
          <6>1. b = u \/ m[u] <= b
            BY <1>0, <2>1, <2>5, <5>5
          <6>. QED  BY <1>0, <2>2, <2>8, <4>3, <5>2, <5>3, <6>1
        <5>. QED  BY <1>0, <2>1, <5>4, <5>5
      <4>. QED  BY <3>2, <4>2, <4>3 DEF RemovesAll
    <3>. QED  BY <3>9, <3>10
  <2>9. CASE ~(send < m[u])
    <3>1. r = Again(d, m[u])
      BY <1>2, <2>9 DEF RemoveAbove, u, d
    <3>2. r.map = d /\ ~r.done /\ r.sbeg = m[u]
      BY <3>1 DEF Again
    <3>3. ASSUME NEW s \in Nat, Has(m, s), ~(sbeg <= s /\ s < send) PROVE Has(d, s)
      BY <2>1, <2>2, <2>4, <2>9, <3>3
    <3>4. ASSUME NEW N \in Nat, \A b \in DOMAIN m : m[b] <= N, NEW b \in DOMAIN d PROVE d[b] <= N
      BY <2>1, <2>3, <3>4
    <3>5. Removes(m, r, sbeg, send)
      BY <2>1, <2>2, <2>4, <2>9, <3>2, <3>3, <3>4 DEF Removes
    <3>6. ASSUME Apart(m), Clear(m, sbeg) PROVE RemovesAll(r, sbeg, send)
      <4>1. ASSUME NEW s \in Nat, sbeg <= s, s < m[u], Has(d, s) PROVE FALSE
        <5>2. Has(m, s) /\ ~(u <= s /\ s < m[u])
          BY <2>4, <4>1
        <5>3. PICK b \in DOMAIN m : b <= s /\ s < m[b]
          BY <5>2 DEF Has
        <5>4. CASE b < u
          BY <1>0, <2>7, <3>6, <4>1, <5>3, <5>4
        <5>5. CASE b >= u
          <6>1. b = u \/ m[u] <= b
            BY <1>0, <2>1, <2>5, <5>5
          <6>. QED  BY <1>0, <2>2, <4>1, <5>2, <5>3, <6>1
        <5>. QED  BY <1>0, <2>1, <5>4, <5>5
      <4>2. ASSUME NEW b \in DOMAIN d, b <= m[u] PROVE d[b] <= m[u]
        <5>1. b \in DOMAIN m /\ b # u /\ d[b] = m[b] /\ b \in Nat /\ m[b] \in Nat
          BY <1>0, <2>3
        <5>2. CASE b < u
          BY <2>1, <2>2, <2>7, <3>6, <5>1, <5>2
        <5>3. CASE u < b
          BY <2>1, <2>2, <2>6, <3>6, <4>2, <5>1, <5>3
        <5>. QED  BY <2>1, <5>1, <5>2, <5>3
      <4>. QED  BY <2>4, <3>2, <3>6, <4>1, <4>2 DEF RemovesAll, Clear
    <3>. QED  BY <3>5, <3>6
  <2>. QED  BY <2>8, <2>9
<1>. QED  BY <1>1, <1>2

\* One turn of remove_span takes out only what is to go; and it takes all of that, up to
\* where the next turn goes on, if no spans touch.
LEMMA TurnRemoves ==
    ASSUME NEW m, Ordered(m), NEW sbeg \in Nat, NEW send \in Nat, sbeg <= send
    PROVE  LET r == RemoveTurn(m, sbeg, send)
           IN  /\ Removes(m, r, sbeg, send)
               /\ Apart(m) /\ (sbeg < send \/ Clear(m, sbeg)) => RemovesAll(r, sbeg, send)
<1>. DEFINE r == RemoveTurn(m, sbeg, send)
            l == Max(UpTo(m, sbeg))
            t == TrimBelow(m, sbeg, l)
            p == Put(t, send, m[l])
<1>0. Starting(m) /\ \A b \in DOMAIN m : b \in Nat /\ m[b] \in Nat /\ b <= m[b]
  BY DEF Ordered, Ends, Starting
<1>1. CASE UpTo(m, sbeg) = {} \/ sbeg >= m[l]
  <2>1. r = RemoveAbove(m, sbeg, send)
    BY <1>1 DEF RemoveTurn
  <2>2. ASSUME Apart(m) PROVE Clear(m, sbeg)
    <3>1. CASE UpTo(m, sbeg) = {}
      BY <3>1 DEF UpTo, Clear
    <3>2. CASE UpTo(m, sbeg) # {}
      <4>1. l \in DOMAIN m /\ l \in Nat /\ \A k \in DOMAIN m : k <= sbeg => k <= l
        BY <1>0, <3>2, LastUpTo
      <4>2. m[l] <= sbeg
        BY <1>0, <1>1, <3>2, <4>1
      <4>3. \A k \in DOMAIN m : k < l => m[k] < l
        BY <2>2, <4>1 DEF Apart
      <4>. QED  BY <1>0, <4>1, <4>2, <4>3 DEF Clear
    <3>. QED  BY <3>1, <3>2
  <2>. QED  BY <2>1, <2>2, AboveRemoves
<1>2. CASE ~(UpTo(m, sbeg) = {} \/ sbeg >= m[l])
  <2>1. l \in DOMAIN m /\ l \in Nat /\ l <= sbeg /\ \A k \in DOMAIN m : k <= sbeg => k <= l
    BY <1>0, <1>2, LastUpTo
  <2>2. m[l] \in Nat /\ sbeg < m[l]
    BY <1>0, <1>2, <2>1
  <2>3. \A b, c \in DOMAIN m : b < c => m[b] <= c
    BY DEF Ordered
  <2>4. \A b \in DOMAIN m : b # l => (b < l /\ m[b] <= l) \/ (b > sbeg /\ m[l] <= b)
    BY <1>0, <2>1, <2>3
  <2>5. Apart(m) => \A b \in DOMAIN m : b # l => (b < l /\ m[b] < l) \/ (b > sbeg /\ m[l] < b)
    BY <1>0, <2>1, <2>4 DEF Apart
  \* What is left below.
  <2>6. /\ Ordered(t)
        /\ Apart(m) => Apart(t)
        /\ Filled(m) => Filled(t)
        /\ \A s \in Nat : Has(t, s) <=> Has(m, s) /\ ~(sbeg <= s /\ s < m[l])
        /\ DOMAIN t \subseteq DOMAIN m
        /\ \A b \in DOMAIN t : t[b] <= m[b] /\ (b # l => t[b] = m[b]) /\ (b = l => l < sbeg /\ t[b] = sbeg)
    <3>. HIDE DEF l
    <3>1. CASE l < sbeg
      <4>1. t = Put(m, l, sbeg)
        BY <3>1 DEF TrimBelow
      <4>2. DOMAIN t = DOMAIN m /\ t[l] = sbeg /\ \A x \in DOMAIN m : x # l => t[x] = m[x]
        BY <2>1, <4>1 DEF Put
      <4>. HIDE DEF t
      <4>3. \A b \in DOMAIN t : t[b] \in Nat /\ b <= t[b] /\ t[b] <= m[b]
        BY <1>0, <2>1, <2>2, <3>1, <4>2
      <4>4. Ordered(t)
        <5>1. \A b, c \in DOMAIN t : b < c => t[b] <= c
          BY <1>0, <2>1, <2>2, <2>3, <4>2, <4>3
        <5>. QED  BY <1>0, <4>2, <4>3, <5>1 DEF Ordered, Ends, Starting
      <4>5. Apart(m) => Apart(t)
        <5>1. ASSUME Apart(m), NEW b \in DOMAIN t, NEW c \in DOMAIN t, b < c PROVE t[b] < c
          <6>1. m[b] < c
            BY <4>2, <5>1 DEF Apart
          <6>. QED  BY <1>0, <4>2, <4>3, <6>1
        <5>. QED  BY <5>1 DEF Apart
      <4>6. Filled(m) => Filled(t)
        BY <3>1, <4>2 DEF Filled
      <4>7. ASSUME NEW s \in Nat, Has(t, s) PROVE Has(m, s) /\ ~(sbeg <= s /\ s < m[l])
        <5>1. PICK b \in DOMAIN t : b <= s /\ s < t[b]
          BY <4>7 DEF Has
        <5>2. b \in DOMAIN m /\ s < m[b] /\ b \in Nat /\ m[b] \in Nat /\ t[b] \in Nat
          BY <1>0, <4>2, <4>3, <5>1
        <5>3. CASE b = l
          BY <2>1, <2>2, <4>2, <5>1, <5>2, <5>3 DEF Has
        <5>4. CASE b # l
          BY <2>1, <2>2, <2>4, <4>2, <5>1, <5>2, <5>4 DEF Has
        <5>. QED  BY <5>3, <5>4
      <4>8. ASSUME NEW s \in Nat, Has(m, s), ~(sbeg <= s /\ s < m[l]) PROVE Has(t, s)
        <5>1. PICK b \in DOMAIN m : b <= s /\ s < m[b]
          BY <4>8 DEF Has
        <5>2. CASE b = l
          BY <2>1, <2>2, <4>2, <4>8, <5>1, <5>2 DEF Has
        <5>3. CASE b # l
          BY <4>2, <5>1, <5>3 DEF Has
        <5>. QED  BY <5>2, <5>3
      <4>. QED  BY <2>1, <3>1, <4>2, <4>3, <4>4, <4>5, <4>6, <4>7, <4>8
    <3>2. CASE ~(l < sbeg)
      <4>1. t = Drop(m, l) /\ l = sbeg
        BY <2>1, <3>2 DEF TrimBelow
      <4>2. DOMAIN t = DOMAIN m \ {l} /\ \A x \in DOMAIN t : t[x] = m[x]
        BY <4>1 DEF Drop
      <4>3. /\ Ordered(t)
            /\ Apart(m) => Apart(t)
            /\ Filled(m) => Filled(t)
            /\ \A s \in Nat : Has(t, s) => Has(m, s) /\ ~(l <= s /\ s < m[l])
            /\ \A s \in Nat : Has(m, s) /\ ~(l <= s /\ s < m[l]) => Has(t, s)
        BY <2>1, <4>1, DropRemoves
      <4>. HIDE DEF t
      <4>. QED  BY <1>0, <4>1, <4>2, <4>3
    <3>. QED  BY <3>1, <3>2
  <2>7. CASE send <= m[l] /\ send # m[l]
    <3>1. r = Done(p, sbeg)
      BY <1>2, <2>2, <2>7 DEF RemoveTurn
    <3>2. r.map = p /\ r.done
      BY <3>1 DEF Done
    <3>. HIDE DEF l, t, r
    <3>3. \A b \in DOMAIN t : /\ (b < send => t[b] <= send) /\ (send < b => m[l] <= b) /\ b # send
                              /\ Apart(m) /\ sbeg < send => (b < send => t[b] < send) /\ (send < b => m[l] < b)
      <4>1. SUFFICES ASSUME NEW b \in DOMAIN t
                     PROVE  /\ (b < send => t[b] <= send) /\ (send < b => m[l] <= b) /\ b # send
                            /\ Apart(m) /\ sbeg < send => (b < send => t[b] < send) /\ (send < b => m[l] < b)
        OBVIOUS
      <4>2. b \in DOMAIN m /\ b \in Nat /\ m[b] \in Nat
        BY <1>0, <2>6
      <4>3. CASE b = l
        BY <2>1, <2>2, <2>6, <2>7, <4>2, <4>3
      <4>4. CASE b # l
        BY <2>1, <2>2, <2>4, <2>5, <2>6, <2>7, <4>2, <4>4
      <4>. QED  BY <4>3, <4>4
    <3>4. /\ Ordered(p)
          /\ \A s \in Nat : Has(p, s) <=> Has(t, s) \/ (send <= s /\ s < m[l])
          /\ Filled(t) /\ send < m[l] => Filled(p)
          /\ Apart(t) /\ (\A b \in DOMAIN t : (b < send => t[b] < send) /\ (send < b => m[l] < b))
                => Apart(p)
      <4>1. send <= m[l]
        BY <2>7
      <4>. QED  BY <2>2, <2>6, <3>3, <4>1, PutAdds
    <3>5. DOMAIN p = DOMAIN t \cup {send} /\ p[send] = m[l] /\ \A x \in DOMAIN t : x # send => p[x] = t[x]
      BY DEF Put
    <3>. HIDE DEF p
    <3>6. send < m[l]
      BY <2>2, <2>7
    <3>7. ASSUME NEW s \in Nat, Has(p, s) PROVE Has(m, s)
      <4>1. CASE Has(t, s)
        BY <2>6, <4>1
      <4>2. CASE send <= s /\ s < m[l]
        BY <2>1, <2>2, <4>2 DEF Has
      <4>. QED  BY <3>4, <3>7, <4>1, <4>2
    <3>8. ASSUME NEW s \in Nat, Has(m, s), ~(sbeg <= s /\ s < send) PROVE Has(p, s)
      BY <2>2, <2>6, <3>4, <3>8
    <3>9. ASSUME NEW N \in Nat, \A b \in DOMAIN m : m[b] <= N, NEW b \in DOMAIN p PROVE p[b] <= N
      <4>1. CASE b = send
        BY <2>1, <3>5, <3>9, <4>1
      <4>2. CASE b # send
        <5>1. b \in DOMAIN t /\ p[b] = t[b] /\ t[b] <= m[b] /\ m[b] <= N /\ m[b] \in Nat
          BY <1>0, <2>6, <3>5, <3>9, <4>2
        <5>2. t[b] \in Nat
          BY <2>6, <5>1 DEF Ordered, Ends
        <5>. QED  BY <5>1, <5>2
      <4>. QED  BY <4>1, <4>2
    <3>10. Removes(m, r, sbeg, send)
      BY <2>6, <3>2, <3>4, <3>6, <3>7, <3>8, <3>9 DEF Removes
    <3>11. ASSUME Apart(m), sbeg < send \/ Clear(m, sbeg) PROVE RemovesAll(r, sbeg, send)
      <4>1. sbeg < send
        BY <2>1, <2>2, <3>11 DEF Clear
      <4>2. Apart(p)
        BY <2>6, <3>3, <3>4, <3>11, <4>1
      <4>3. ASSUME NEW s \in Nat, sbeg <= s, s < send, Has(p, s) PROVE FALSE
        BY <2>2, <2>6, <3>4, <3>6, <4>3
      <4>. QED  BY <3>2, <4>2, <4>3 DEF RemovesAll
    <3>. QED  BY <3>10, <3>11 DEF r
  <2>8. CASE send = m[l]
    <3>1. r = Done(t, sbeg)
      BY <1>2, <2>2, <2>8 DEF RemoveTurn
    <3>2. r.map = t /\ r.done
      BY <3>1 DEF Done
    <3>. HIDE DEF l, t, r
    <3>3. ASSUME NEW N \in Nat, \A b \in DOMAIN m : m[b] <= N, NEW b \in DOMAIN t PROVE t[b] <= N
      <4>1. t[b] <= m[b] /\ m[b] <= N /\ m[b] \in Nat
        BY <1>0, <2>6, <3>3
      <4>2. t[b] \in Nat
        BY <2>6 DEF Ordered, Ends
      <4>. QED  BY <4>1, <4>2
    <3>4. Removes(m, r, sbeg, send)
      BY <2>6, <2>8, <3>2, <3>3 DEF Removes
    <3>5. ASSUME Apart(m) PROVE RemovesAll(r, sbeg, send)
      BY <2>6, <2>8, <3>2, <3>5 DEF RemovesAll
    <3>. QED  BY <3>4, <3>5 DEF r
  <2>9. CASE ~(send <= m[l])
    <3>1. r = RemoveAbove(t, m[l], send) /\ m[l] <= send
      BY <1>2, <2>2, <2>9 DEF RemoveTurn
    <3>. HIDE DEF l, t, r
    <3>2. /\ Removes(t, r, m[l], send)
          /\ Apart(t) /\ Clear(t, m[l]) => RemovesAll(r, m[l], send)
      BY <2>2, <2>6, <3>1, AboveRemoves
    <3>3. ASSUME NEW N \in Nat, \A b \in DOMAIN m : m[b] <= N, NEW b \in DOMAIN r.map PROVE r.map[b] <= N
      <4>1. ASSUME NEW c \in DOMAIN t PROVE t[c] <= N
        <5>1. t[c] <= m[c] /\ m[c] <= N /\ m[c] \in Nat
          BY <1>0, <2>6, <3>3
        <5>2. t[c] \in Nat
          BY <2>6 DEF Ordered, Ends
        <5>. QED  BY <5>1, <5>2
      <4>. QED  BY <3>2, <3>3, <4>1 DEF Removes
    <3>4. ASSUME NEW s \in Nat, Has(m, s), ~(sbeg <= s /\ s < send) PROVE Has(r.map, s)
      <4>1. Has(t, s)
        BY <2>2, <2>6, <2>9, <3>4
      <4>. QED  BY <2>2, <3>2, <3>4, <4>1 DEF Removes
    <3>5. ASSUME NEW s \in Nat, Has(r.map, s) PROVE Has(m, s) /\ ~(sbeg <= s /\ s < m[l])
      <4>1. Has(t, s)
        BY <3>2, <3>5 DEF Removes
      <4>. QED  BY <2>6, <4>1
    <3>6. ~r.done => r.sbeg \in Nat /\ sbeg <= r.sbeg /\ r.sbeg <= send
      BY <2>2, <3>2 DEF Removes
    <3>7. Removes(m, r, sbeg, send)
      BY <2>6, <3>2, <3>3, <3>4, <3>5, <3>6 DEF Removes
    <3>8. ASSUME Apart(m) PROVE RemovesAll(r, sbeg, send)
      <4>1. ASSUME NEW b \in DOMAIN t, b <= m[l] PROVE t[b] <= m[l]
        <5>1. b \in DOMAIN m /\ b \in Nat /\ m[b] \in Nat
          BY <1>0, <2>6
        <5>. QED  BY <2>1, <2>2, <2>5, <2>6, <3>8, <4>1, <5>1
      <4>2. RemovesAll(r, m[l], send)
        BY <2>6, <3>2, <3>8, <4>1 DEF Clear
      <4>3. ASSUME NEW s \in Nat, sbeg <= s, s < (IF r.done THEN send ELSE r.sbeg), Has(r.map, s) PROVE FALSE
        <5>1. ~(s < m[l])
          BY <3>5, <4>3
        <5>. QED  BY <2>2, <4>2, <4>3, <5>1 DEF RemovesAll
      <4>. QED  BY <4>2, <4>3 DEF RemovesAll
    <3>. QED  BY <3>7, <3>8 DEF r
  <2>. QED  BY <2>2, <2>7, <2>8, <2>9
<1>. QED  BY <1>1, <1>2

-----------------------------------------------------------------------------
(* insert_span, a turn of its loop at a time.                              *)

\* The spans of a map with values, none of which overlap.
Tidy(m) ==
    /\ Starting(m)
    /\ \A b \in DOMAIN m : m[b].end \in Nat /\ b <= m[b].end
    /\ \A b, c \in DOMAIN m : b < c => m[b].end <= c

\* Sector s is in a span of value v, or of any.
Owns(m, s, v) == \E b \in DOMAIN m : b <= s /\ s < m[b].end /\ m[b].val = v

Owned(m, s) == \E b \in DOMAIN m : b <= s /\ s < m[b].end

\* What lies between b and e lies within extent v of es.
Inside(es, v, b, e) ==
    /\ v \in DOMAIN es
    /\ es[v].start_sector <= b
    /\ e <= es[v].start_sector + es[v].sectors

Fits(m, es) == \A b \in DOMAIN m : Inside(es, m[b].val, b, m[b].end)

Measured(es) == \A v \in DOMAIN es : es[v].start_sector \in Nat /\ es[v].sectors \in Nat

\* What was owned stays so, and val gets all else up to send, or up to where the turn is.
Inserts(m, r, sbeg, send, val) ==
    /\ Tidy(r.map)
    /\ \A s \in Nat : \A v : Owns(m, s, v) => Owns(r.map, s, v)
    /\ \A s \in Nat : \A v : Owns(r.map, s, v) => Owns(m, s, v) \/ (v = val /\ sbeg <= s /\ s < send)
    /\ \A s \in Nat : sbeg <= s /\ s < (IF r.done THEN send ELSE r.sbeg) => Owned(r.map, s)
    /\ ~r.done => r.sbeg \in Nat /\ sbeg <= r.sbeg /\ r.sbeg <= send
    /\ DOMAIN r.map \subseteq DOMAIN m \cup 0 .. sbeg
    /\ 0 \in DOMAIN m \/ sbeg = 0 => 0 \in DOMAIN r.map
    /\ \A es : Fits(m, es) /\ Measured(es) /\ Inside(es, val, sbeg, send) => Fits(r.map, es)

\* There is room at sb for a span of value val.
Room(m, sb, send, val) ==
    /\ \A b \in DOMAIN m : b < sb => m[b].end <= sb
    /\ sb \in DOMAIN m => (m[sb].val = val \/ m[sb].end = sb) /\ m[sb].end <= send

\* A sector is in a span when some extent owns it there.
LEMMA OwnedIs == ASSUME NEW m, NEW s PROVE Owned(m, s) <=> \E v : Owns(m, s, v)
BY DEF Owned, Owns

\* The fields of a span.
LEMMA SpanIs == ASSUME NEW e, NEW v PROVE Span(e, v).end = e /\ Span(e, v).val = v
BY DEF Span

\* A span put where there is room for it adds its sectors and nothing else.
LEMMA PutOwns ==
    ASSUME NEW m, Tidy(m), NEW sb \in Nat, NEW e \in Nat, NEW val, sb <= e, Room(m, sb, e, val),
           \A b \in DOMAIN m : sb < b => e <= b
    PROVE  LET p == Put(m, sb, Span(e, val))
           IN  /\ Tidy(p)
               /\ \A s \in Nat : \A v : Owns(p, s, v) <=> Owns(m, s, v) \/ (v = val /\ sb <= s /\ s < e)
<1>. DEFINE p == Put(m, sb, Span(e, val))
<1>1. DOMAIN p = DOMAIN m \cup {sb} /\ p[sb] = Span(e, val) /\ \A x \in DOMAIN m : x # sb => p[x] = m[x]
  BY DEF Put
<1>2. p[sb].end = e /\ p[sb].val = val
  BY <1>1, SpanIs
<1>3. \A b \in DOMAIN m : b \in Nat /\ m[b].end \in Nat /\ b <= m[b].end
  BY DEF Tidy, Starting
<1>4. \A b, c \in DOMAIN m : b < c => m[b].end <= c
  BY DEF Tidy
<1>5. \A b \in DOMAIN m : b < sb => m[b].end <= sb
  BY DEF Room
<1>6. sb \in DOMAIN m => (m[sb].val = val \/ m[sb].end = sb) /\ m[sb].end <= e
  BY DEF Room
<1>. HIDE DEF p
<1>7. Tidy(p)
  <2>1. \A b \in DOMAIN p : b \in Nat /\ p[b].end \in Nat /\ b <= p[b].end
    BY <1>1, <1>2, <1>3
  <2>2. ASSUME NEW b \in DOMAIN p, NEW c \in DOMAIN p, b < c PROVE p[b].end <= c
    <3>1. CASE b = sb
      BY <1>1, <1>2, <2>1, <2>2, <3>1
    <3>2. CASE b # sb /\ c = sb
      BY <1>1, <1>5, <2>2, <3>2
    <3>3. CASE b # sb /\ c # sb
      BY <1>1, <1>4, <2>2, <3>3
    <3>. QED  BY <3>1, <3>2, <3>3
  <2>. QED  BY <2>1, <2>2 DEF Tidy, Starting
<1>8. ASSUME NEW s \in Nat, NEW v, Owns(p, s, v) PROVE Owns(m, s, v) \/ (v = val /\ sb <= s /\ s < e)
  <2>1. PICK b \in DOMAIN p : b <= s /\ s < p[b].end /\ p[b].val = v
    BY <1>8 DEF Owns
  <2>2. CASE b = sb
    BY <1>2, <2>1, <2>2
  <2>3. CASE b # sb
    BY <1>1, <2>1, <2>3 DEF Owns
  <2>. QED  BY <2>2, <2>3
<1>9. ASSUME NEW s \in Nat, NEW v, Owns(m, s, v) PROVE Owns(p, s, v)
  <2>1. PICK b \in DOMAIN m : b <= s /\ s < m[b].end /\ m[b].val = v
    BY <1>9 DEF Owns
  <2>2. CASE b = sb
    <3>1. v = val /\ m[b].end <= e /\ m[b].end \in Nat
      BY <1>3, <1>6, <2>1, <2>2
    <3>2. b \in DOMAIN p /\ b <= s /\ s < p[b].end /\ p[b].val = v
      BY <1>1, <1>2, <2>1, <2>2, <3>1
    <3>. QED  BY <3>2 DEF Owns
  <2>3. CASE b # sb
    BY <1>1, <2>1, <2>3 DEF Owns
  <2>. QED  BY <2>2, <2>3
<1>10. ASSUME NEW s \in Nat, sb <= s, s < e PROVE Owns(p, s, val)
  BY <1>1, <1>2, <1>10 DEF Owns
<1>. QED  BY <1>7, <1>8, <1>9, <1>10 DEF p

\* Dropping a span takes the sectors from its owner and nothing else.
LEMMA DropOwns ==
    ASSUME NEW m, Tidy(m), NEW u \in DOMAIN m
    PROVE  /\ Tidy(Drop(m, u))
           /\ \A s \in Nat : \A v : Owns(m, s, v)
                <=> Owns(Drop(m, u), s, v) \/ (v = m[u].val /\ u <= s /\ s < m[u].end)
<1>. DEFINE t == Drop(m, u)
<1>1. DOMAIN t = DOMAIN m \ {u} /\ \A x \in DOMAIN t : t[x] = m[x]
  BY DEF Drop
<1>. HIDE DEF t
<1>2. Tidy(t)
  BY <1>1 DEF Tidy, Starting
<1>3. ASSUME NEW s \in Nat, NEW v
      PROVE  Owns(m, s, v) <=> Owns(t, s, v) \/ (v = m[u].val /\ u <= s /\ s < m[u].end)
  BY <1>1 DEF Owns
<1>. QED  BY <1>2, <1>3 DEF t

\* InsertAbove puts its span in from sb on; a turn that goes on has passed a span above.
LEMMA AboveInserts ==
    ASSUME NEW m, Tidy(m), NEW sb \in Nat, NEW send \in Nat, NEW val, sb <= send, Room(m, sb, send, val)
    PROVE  LET r == InsertAbove(m, sb, send, val)
           IN  /\ Inserts(m, r, sb, send, val)
               /\ ~r.done => \E u \in DOMAIN m : sb < u /\ u <= r.sbeg
<1>. DEFINE r == InsertAbove(m, sb, send, val)
            u == Min(After(m, sb))
            end == m[u].end
<1>0. Starting(m) /\ \A b \in DOMAIN m : b \in Nat /\ m[b].end \in Nat /\ b <= m[b].end
  BY DEF Tidy, Starting
<1>1. CASE After(m, sb) = {} \/ u > send
  <2>. DEFINE p == Put(m, sb, Span(send, val))
  <2>1. r = Done(p, sb)
    BY <1>1 DEF InsertAbove
  <2>2. r.map = p /\ r.done
    BY <2>1 DEF Done
  <2>3. \A b \in DOMAIN m : sb < b => send <= b
    <3>1. CASE After(m, sb) = {}
      BY <3>1 DEF After
    <3>2. CASE After(m, sb) # {}
      <4>1. u \in Nat /\ \A k \in DOMAIN m : k > sb => k >= u
        BY <1>0, <3>2, FirstAfter
      <4>. QED  BY <1>0, <1>1, <3>2, <4>1
    <3>. QED  BY <3>1, <3>2
  <2>4. /\ Tidy(p)
        /\ \A s \in Nat : \A v : Owns(p, s, v) <=> Owns(m, s, v) \/ (v = val /\ sb <= s /\ s < send)
    BY <2>3, PutOwns
  <2>5. DOMAIN p = DOMAIN m \cup {sb} /\ p[sb] = Span(send, val) /\ \A x \in DOMAIN m : x # sb => p[x] = m[x]
    BY DEF Put
  <2>6. p[sb].end = send /\ p[sb].val = val
    BY <2>5, SpanIs
  <2>. HIDE DEF p, r, u
  <2>7. \A s \in Nat : sb <= s /\ s < send => Owned(p, s)
    BY <2>5, <2>6 DEF Owned
  <2>8. ASSUME NEW es, Fits(m, es), Inside(es, val, sb, send) PROVE Fits(p, es)
    BY <2>5, <2>6, <2>8 DEF Fits
  <2>9. DOMAIN p \subseteq DOMAIN m \cup 0 .. sb
    BY <2>5
  <2>10. 0 \in DOMAIN m \/ sb = 0 => 0 \in DOMAIN p
    BY <2>5
  <2>. QED  BY <2>2, <2>4, <2>7, <2>8, <2>9, <2>10 DEF Inserts, r
<1>2. CASE ~(After(m, sb) = {} \/ u > send)
  <2>1. u \in DOMAIN m /\ u \in Nat /\ u > sb /\ \A k \in DOMAIN m : k > sb => k >= u
    BY <1>0, <1>2, FirstAfter
  <2>2. end \in Nat /\ u <= end /\ u <= send
    BY <1>0, <1>2, <2>1
  <2>. DEFINE d == Drop(m, u)
              new == IF m[u].val = val THEN Put(d, sb, Span(end, val)) ELSE Put(m, sb, Span(u, val))
  <2>3. r = IF end < send THEN Again(new, end) ELSE Done(new, sb)
    BY <1>2 DEF InsertAbove
  <2>4. r.map = new /\ (~r.done => r.sbeg = end /\ end < send) /\ (r.done => send <= end)
    BY <2>2, <2>3 DEF Again, Done
  <2>. HIDE DEF r, u
  <2>5. \A b, c \in DOMAIN m : b < c => m[b].end <= c
    BY DEF Tidy
  <2>6. /\ Tidy(new)
        /\ \A s \in Nat : \A v : Owns(new, s, v) <=> Owns(m, s, v) \/ (v = val /\ sb <= s /\ s < u)
        /\ DOMAIN new \subseteq DOMAIN m \cup {sb}
        /\ 0 \in DOMAIN m \/ sb = 0 => 0 \in DOMAIN new
        /\ \A es : Fits(m, es) /\ Measured(es) /\ Inside(es, val, sb, send) => Fits(new, es)
    <3>1. CASE m[u].val = val
      <4>1. new = Put(d, sb, Span(end, val))
        BY <3>1
      <4>2. DOMAIN d = DOMAIN m \ {u} /\ \A x \in DOMAIN d : d[x] = m[x]
        BY DEF Drop
      <4>3. /\ Tidy(d)
            /\ \A s \in Nat : \A v : Owns(m, s, v) <=> Owns(d, s, v) \/ (v = val /\ u <= s /\ s < end)
        BY <2>1, <3>1, DropOwns
      <4>. HIDE DEF d, new
      <4>4. Room(d, sb, end, val)
        <5>1. ASSUME sb \in DOMAIN d PROVE m[sb].end <= u
          BY <2>1, <2>5, <4>2, <5>1
        <5>. QED  BY <1>0, <2>1, <2>2, <4>2, <5>1 DEF Room
      <4>5. \A b \in DOMAIN d : sb < b => end <= b
        <5>1. SUFFICES ASSUME NEW b \in DOMAIN d, sb < b PROVE end <= b
          OBVIOUS
        <5>2. b \in DOMAIN m /\ b # u /\ b >= u /\ b \in Nat
          BY <1>0, <2>1, <4>2, <5>1
        <5>. QED  BY <2>1, <2>5, <5>2
      <4>6. /\ Tidy(new)
            /\ \A s \in Nat : \A v : Owns(new, s, v) <=> Owns(d, s, v) \/ (v = val /\ sb <= s /\ s < end)
        <5>1. sb <= end
          BY <2>1, <2>2
        <5>. QED  BY <2>2, <4>1, <4>3, <4>4, <4>5, <5>1, PutOwns
      <4>7. DOMAIN new = DOMAIN d \cup {sb} /\ new[sb] = Span(end, val) /\ \A x \in DOMAIN d : x # sb => new[x] = d[x]
        BY <4>1 DEF Put
      <4>8. new[sb].end = end /\ new[sb].val = val
        BY <4>7, SpanIs
      <4>9. ASSUME NEW s \in Nat, NEW v
            PROVE  Owns(new, s, v) <=> Owns(m, s, v) \/ (v = val /\ sb <= s /\ s < u)
        BY <2>1, <2>2, <4>3, <4>6
      <4>10. ASSUME NEW es, Fits(m, es), Inside(es, val, sb, send) PROVE Fits(new, es)
        <5>1. Inside(es, val, u, end)
          BY <2>1, <3>1, <4>10 DEF Fits
        <5>2. Inside(es, val, sb, end)
          BY <4>10, <5>1 DEF Inside
        <5>. QED  BY <4>2, <4>7, <4>8, <4>10, <5>2 DEF Fits
      <4>11. 0 \in DOMAIN m \/ sb = 0 => 0 \in DOMAIN new
        BY <2>1, <4>2, <4>7
      <4>. QED  BY <4>2, <4>6, <4>7, <4>9, <4>10, <4>11
    <3>2. CASE m[u].val # val
      <4>1. new = Put(m, sb, Span(u, val))
        BY <3>2
      <4>. HIDE DEF d, new
      <4>2. Room(m, sb, u, val)
        <5>1. ASSUME sb \in DOMAIN m PROVE m[sb].end <= u
          BY <2>1, <2>5, <5>1
        <5>. QED  BY <5>1 DEF Room
      <4>3. /\ Tidy(new)
            /\ \A s \in Nat : \A v : Owns(new, s, v) <=> Owns(m, s, v) \/ (v = val /\ sb <= s /\ s < u)
        <5>1. sb <= u /\ \A b \in DOMAIN m : sb < b => u <= b
          BY <2>1
        <5>. QED  BY <2>1, <4>1, <4>2, <5>1, PutOwns
      <4>4. DOMAIN new = DOMAIN m \cup {sb} /\ new[sb] = Span(u, val) /\ \A x \in DOMAIN m : x # sb => new[x] = m[x]
        BY <4>1 DEF Put
      <4>5. new[sb].end = u /\ new[sb].val = val
        BY <4>4, SpanIs
      <4>6. ASSUME NEW es, Measured(es), Fits(m, es), Inside(es, val, sb, send) PROVE Fits(new, es)
        <5>1. Inside(es, val, sb, u)
          BY <2>1, <2>2, <4>6 DEF Inside, Measured
        <5>. QED  BY <4>4, <4>5, <4>6, <5>1 DEF Fits
      <4>. QED  BY <4>3, <4>4, <4>6
    <3>. QED  BY <3>1, <3>2
  <2>. HIDE DEF new
  <2>7. ASSUME NEW s \in Nat, sb <= s, s < (IF r.done THEN send ELSE r.sbeg) PROVE Owned(new, s)
    <3>1. s < end
      BY <2>2, <2>4, <2>7
    <3>2. CASE s < u
      <4>1. Owns(new, s, val)
        BY <2>6, <2>7, <3>2
      <4>. QED  BY <4>1, OwnedIs
    <3>3. CASE s >= u
      <4>1. Owns(m, s, m[u].val)
        BY <2>1, <3>1, <3>3 DEF Owns
      <4>2. Owns(new, s, m[u].val)
        BY <2>6, <4>1
      <4>. QED  BY <4>2, OwnedIs
    <3>. QED  BY <2>1, <3>2, <3>3
  <2>8. ~r.done => r.sbeg \in Nat /\ sb <= r.sbeg /\ r.sbeg <= send /\ u <= r.sbeg
    BY <2>1, <2>2, <2>4
  <2>9. ASSUME NEW s \in Nat, NEW v, Owns(new, s, v)
        PROVE  Owns(m, s, v) \/ (v = val /\ sb <= s /\ s < send)
    BY <2>1, <2>2, <2>6, <2>9
  <2>10. DOMAIN new \subseteq DOMAIN m \cup 0 .. sb
    BY <2>6
  <2>11. Inserts(m, r, sb, send, val)
    BY <2>4, <2>6, <2>7, <2>8, <2>9, <2>10 DEF Inserts
  <2>. QED  BY <2>1, <2>8, <2>11 DEF r
<1>. QED  BY <1>1, <1>2

\* One turn of insert_span fills the gap it is at with the new extent, leaves what others
\* own, and goes on where everything before is filled.
LEMMA TurnInserts ==
    ASSUME NEW m, Tidy(m), NEW sbeg \in Nat, NEW send \in Nat, NEW val, sbeg <= send
    PROVE  Inserts(m, InsertTurn(m, sbeg, send, val), sbeg, send, val)
<1>. DEFINE r == InsertTurn(m, sbeg, send, val)
            l == Max(UpTo(m, sbeg))
<1>0. Starting(m) /\ \A b \in DOMAIN m : b \in Nat /\ m[b].end \in Nat /\ b <= m[b].end
  BY DEF Tidy, Starting
<1>1. \A b, c \in DOMAIN m : b < c => m[b].end <= c
  BY DEF Tidy
<1>2. CASE UpTo(m, sbeg) = {}
  <2>1. r = InsertAbove(m, sbeg, send, val)
    BY <1>2 DEF InsertTurn
  <2>2. \A b \in DOMAIN m : ~(b <= sbeg)
    BY <1>2 DEF UpTo
  <2>3. Room(m, sbeg, send, val)
    BY <1>0, <2>2 DEF Room
  <2>. QED  BY <2>1, <2>3, AboveInserts
<1>3. CASE UpTo(m, sbeg) # {}
  <2>1. l \in DOMAIN m /\ l \in Nat /\ l <= sbeg /\ \A k \in DOMAIN m : k <= sbeg => k <= l
    BY <1>0, <1>3, LastUpTo
  <2>2. m[l].end \in Nat /\ l <= m[l].end
    BY <1>0, <2>1
  <2>3. 0 \in DOMAIN m \/ sbeg = 0 => 0 \in DOMAIN m
    BY <2>1
  <2>. HIDE DEF l
  <2>4. CASE sbeg < m[l].end /\ send <= m[l].end
    <3>1. r = Done(m, sbeg)
      BY <1>3, <2>4 DEF InsertTurn, l
    <3>2. r.map = m /\ r.done
      BY <3>1 DEF Done
    <3>3. \A s \in Nat : sbeg <= s /\ s < send => Owned(m, s)
      BY <2>1, <2>2, <2>4 DEF Owned
    <3>. HIDE DEF r
    <3>. QED  BY <2>3, <3>2, <3>3 DEF Inserts, r
  <2>5. CASE sbeg < m[l].end /\ ~(send <= m[l].end)
    <3>1. r = Again(m, m[l].end)
      BY <1>3, <2>5 DEF InsertTurn, l
    <3>2. r.map = m /\ ~r.done /\ r.sbeg = m[l].end
      BY <3>1 DEF Again
    <3>3. \A s \in Nat : sbeg <= s /\ s < m[l].end => Owned(m, s)
      BY <2>1, <2>2 DEF Owned
    <3>. HIDE DEF r
    <3>4. r.sbeg \in Nat /\ sbeg <= r.sbeg /\ r.sbeg <= send
      BY <2>2, <2>5, <3>2
    <3>. QED  BY <2>3, <3>2, <3>3, <3>4 DEF Inserts, r
  <2>6. CASE ~(sbeg < m[l].end) /\ ~(sbeg = m[l].end /\ m[l].val = val)
    <3>1. r = InsertAbove(m, sbeg, send, val)
      BY <1>3, <2>6 DEF InsertTurn, l
    <3>2. ASSUME NEW b \in DOMAIN m, b < sbeg PROVE m[b].end <= sbeg
      <4>1. b = l \/ m[b].end <= l
        BY <1>0, <1>1, <2>1, <3>2
      <4>. QED  BY <1>0, <2>1, <2>2, <2>6, <4>1
    <3>3. sbeg \in DOMAIN m => m[sbeg].end = sbeg
      <4>1. sbeg \in DOMAIN m => sbeg = l
        BY <2>1
      <4>. QED  BY <2>2, <2>6, <4>1
    <3>4. Room(m, sbeg, send, val)
      BY <3>2, <3>3 DEF Room
    <3>. QED  BY <3>1, <3>4, AboveInserts
  <2>7. CASE ~(sbeg < m[l].end) /\ sbeg = m[l].end /\ m[l].val = val
    <3>1. r = InsertAbove(m, l, send, val)
      BY <1>3, <2>7 DEF InsertTurn, l
    <3>2. Room(m, l, send, val)
      BY <1>1, <2>1, <2>7 DEF Room
    <3>3. Inserts(m, r, l, send, val) /\ (~r.done => \E u \in DOMAIN m : l < u /\ u <= r.sbeg)
      <4>1. l <= send
        BY <2>1
      <4>. QED  BY <2>1, <3>1, <3>2, <4>1, AboveInserts
    <3>. HIDE DEF r
    <3>4. ~r.done => r.sbeg \in Nat /\ sbeg <= r.sbeg /\ r.sbeg <= send
      <4>1. \A u \in DOMAIN m : l < u => sbeg < u
        BY <1>0, <2>1
      <4>. QED  BY <1>0, <3>3, <4>1 DEF Inserts
    <3>5. ASSUME NEW s \in Nat, NEW v, Owns(r.map, s, v)
          PROVE  Owns(m, s, v) \/ (v = val /\ sbeg <= s /\ s < send)
      <4>1. Owns(m, s, v) \/ (v = val /\ l <= s /\ s < send)
        BY <3>3, <3>5 DEF Inserts
      <4>2. l <= s /\ s < sbeg => Owns(m, s, val)
        BY <2>1, <2>7 DEF Owns
      <4>. QED  BY <4>1, <4>2
    <3>6. ASSUME NEW s \in Nat, sbeg <= s, s < (IF r.done THEN send ELSE r.sbeg) PROVE Owned(r.map, s)
      BY <2>1, <3>3, <3>6 DEF Inserts
    <3>7. DOMAIN r.map \subseteq DOMAIN m \cup 0 .. sbeg
      BY <2>1, <3>3 DEF Inserts
    <3>8. ASSUME NEW es, Fits(m, es), Measured(es), Inside(es, val, sbeg, send) PROVE Fits(r.map, es)
      <4>1. Inside(es, val, l, sbeg)
        BY <2>1, <2>7, <3>8 DEF Fits
      <4>2. Inside(es, val, l, send)
        BY <3>8, <4>1 DEF Inside
      <4>. QED  BY <3>3, <3>8, <4>2 DEF Inserts
    <3>9. 0 \in DOMAIN m \/ sbeg = 0 => 0 \in DOMAIN r.map
      BY <2>3, <3>3 DEF Inserts
    <3>. QED  BY <3>3, <3>4, <3>5, <3>6, <3>7, <3>8, <3>9 DEF Inserts, r
  <2>. QED  BY <2>4, <2>5, <2>6, <2>7
<1>. QED  BY <1>2, <1>3

-----------------------------------------------------------------------------
(* Sequences of anything.                                                  *)

IsSeq(s) == s \in Seq(Range(s))

\* The elements of a sequence.
LEMMA SeqFacts ==
    ASSUME NEW s, IsSeq(s)
    PROVE  /\ Len(s) \in Nat /\ DOMAIN s = 1 .. Len(s)
           /\ \A i \in 1 .. Len(s) : s[i] \in Range(s)
           /\ \A x \in Range(s) : \E i \in 1 .. Len(s) : x = s[i]
<1>1. Len(s) \in Nat /\ DOMAIN s = 1 .. Len(s)
  BY LenProperties DEF IsSeq
<1>. QED  BY <1>1 DEF Range

\* A sequence over some set is one over its range.
LEMMA MakesSeq ==
    ASSUME NEW S, NEW s \in Seq(S)
    PROVE  IsSeq(s)
<1>1. Len(s) \in Nat /\ DOMAIN s = 1 .. Len(s) /\ s \in [1 .. Len(s) -> S]
  BY LenProperties
<1>2. s \in [1 .. Len(s) -> Range(s)]
  BY <1>1 DEF Range
<1>. QED  BY <1>1, <1>2 DEF IsSeq

\* A sequence with one element appended.
LEMMA AppendIs ==
    ASSUME NEW s, IsSeq(s), NEW e
    PROVE  /\ IsSeq(Append(s, e))
           /\ Len(Append(s, e)) = Len(s) + 1
           /\ \A i \in 1 .. Len(s) : Append(s, e)[i] = s[i]
           /\ Append(s, e)[Len(s) + 1] = e
           /\ Range(Append(s, e)) = Range(s) \cup {e}
           /\ Append(s, e) # <<>>
<1>. DEFINE S == Range(s) \cup {e}
            a == Append(s, e)
<1>1. s \in Seq(S)
  BY DEF IsSeq
<1>2. /\ a \in Seq(S) /\ a # <<>> /\ Len(a) = Len(s) + 1
      /\ \A i \in 1 .. Len(s) : a[i] = s[i]
      /\ a[Len(s) + 1] = e
  BY <1>1, AppendProperties, e \in S
<1>3. IsSeq(a)
  BY <1>2, MakesSeq
<1>. HIDE DEF a
<1>4. Range(a) = Range(s) \cup {e}
  <2>1. Len(s) \in Nat /\ DOMAIN s = 1 .. Len(s)
    BY SeqFacts
  <2>2. DOMAIN a = 1 .. Len(s) + 1
    BY <1>2, <1>3, SeqFacts
  <2>3. ASSUME NEW x \in Range(a) PROVE x \in S
    BY <1>2, <2>1, <2>2, <2>3 DEF Range
  <2>4. ASSUME NEW x \in S PROVE x \in Range(a)
    <3>1. CASE x = e
      <4>1. Len(s) + 1 \in DOMAIN a
        BY <2>1, <2>2
      <4>. QED  BY <1>2, <3>1, <4>1 DEF Range
    <3>2. CASE x \in Range(s)
      <4>1. PICK i \in DOMAIN s : x = s[i]
        BY <3>2 DEF Range
      <4>2. i \in DOMAIN a /\ a[i] = x
        BY <1>2, <2>1, <2>2, <4>1
      <4>. QED  BY <4>2 DEF Range
    <3>. QED  BY <3>1, <3>2
  <2>. QED  BY <2>3, <2>4
<1>. QED  BY <1>2, <1>3, <1>4 DEF a

\* Head and tail of a sequence.
LEMMA TailIs ==
    ASSUME NEW s, IsSeq(s), s # <<>>
    PROVE  /\ IsSeq(Tail(s)) /\ Range(Tail(s)) \subseteq Range(s)
           /\ Head(s) \in Range(s)
<1>1. s \in Seq(Range(s))
  BY DEF IsSeq
<1>2. Tail(s) \in Seq(Range(s)) /\ Head(s) \in Range(s)
  BY <1>1, HeadTailProperties
<1>3. IsSeq(Tail(s))
  BY <1>2, MakesSeq
<1>4. Range(Tail(s)) \subseteq Range(s)
  <2>1. \A i \in 1 .. Len(Tail(s)) : Tail(s)[i] \in Range(s)
    BY <1>2, ElementOfSeq
  <2>2. \A x \in Range(Tail(s)) : \E i \in 1 .. Len(Tail(s)) : x = Tail(s)[i]
    BY <1>3, SeqFacts, Zenon
  <2>. QED  BY <2>1, <2>2, Zenon
<1>. QED  BY <1>2, <1>3, <1>4

-----------------------------------------------------------------------------
(* Where the extents of an image start.                                    *)

\* What a function that rises from each number to the next does over all of them.
LEMMA Rises ==
    ASSUME NEW N \in Nat, NEW f, \A i \in 0 .. N : f[i] \in Nat,
           \A i \in 1 .. N : f[i - 1] <= f[i]
    PROVE  \A i \in 0 .. N : f[i] <= f[N]
<1>. DEFINE G == {j \in 0 .. N : f[N - j] <= f[N]}
<1>1. 0 \in G
  OBVIOUS
<1>2. ASSUME NEW j \in 1 .. N, j - 1 \in G PROVE j \in G
  <2>1. N - j + 1 \in 1 .. N /\ N - j \in 0 .. N /\ N \in 0 .. N
    OBVIOUS
  <2>2. f[N - j + 1 - 1] <= f[N - j + 1]
    BY <2>1
  <2>3. N - j + 1 - 1 = N - j /\ N - (j - 1) = N - j + 1
    OBVIOUS
  <2>4. f[N - j] <= f[N - j + 1] /\ f[N - j + 1] <= f[N]
    BY <1>2, <2>2, <2>3
  <2>5. f[N - j] \in Nat /\ f[N - j + 1] \in Nat /\ f[N] \in Nat
    BY <2>1
  <2>. QED  BY <2>4, <2>5
<1>3. 0 .. N \subseteq G
  <2>. HIDE DEF G
  <2>. QED  BY <1>1, <1>2, UpwardTo
<1>4. ASSUME NEW i \in 0 .. N PROVE f[i] <= f[N]
  <2>1. N - i \in 0 .. N /\ N - (N - i) = i
    OBVIOUS
  <2>2. N - i \in G
    BY <1>3, <2>1
  <2>3. f[N - (N - i)] <= f[N]
    BY <2>2
  <2>. QED  BY <2>1, <2>3
<1>. QED  BY <1>4

\* g[i] is the number of sectors of the first i of eds.
SumsUp(eds, g, m) == g = [k \in 0 .. m |-> IF k = 0 THEN 0 ELSE g[k - 1] + eds[k].sectors]

\* The recursive function of the extents' starts exists up to any length.
LEMMA SumsExist == ASSUME NEW eds, NEW m \in Nat PROVE \E g : SumsUp(eds, g, m)
<1>. DEFINE Good == {k \in Nat : \E g : SumsUp(eds, g, k)}
<1>1. 0 \in Good
  <2>. DEFINE h == [k \in 0 .. 0 |-> 0]
  <2>1. h = [k \in 0 .. 0 |-> IF k = 0 THEN 0 ELSE h[k - 1] + eds[k].sectors]
    <3>1. \A k \in 0 .. 0 : k = 0
      OBVIOUS
    <3>. QED  BY <3>1
  <2>2. SumsUp(eds, h, 0)
    <3>. HIDE DEF h
    <3>. QED  BY <2>1 DEF SumsUp
  <2>. QED  BY <2>2
<1>2. ASSUME NEW k \in 1 .. m, k - 1 \in Good PROVE k \in Good
  <2>1. PICK g : SumsUp(eds, g, k - 1)
    BY <1>2
  <2>. DEFINE h == [i \in 0 .. k |-> IF i = 0 THEN 0 ELSE g[i - 1] + eds[i].sectors]
  <2>2. \A i \in 0 .. k - 1 : h[i] = g[i]
    <3>1. \A i \in 0 .. k - 1 : g[i] = IF i = 0 THEN 0 ELSE g[i - 1] + eds[i].sectors
      BY <2>1 DEF SumsUp
    <3>2. \A i \in 0 .. k - 1 : i \in 0 .. k
      OBVIOUS
    <3>. QED  BY <3>1, <3>2
  <2>3. \A i \in 0 .. k : i # 0 => i - 1 \in 0 .. k - 1
    OBVIOUS
  <2>4. SumsUp(eds, h, k)
    BY <2>2, <2>3 DEF SumsUp
  <2>. QED  BY <2>4, k \in Nat
<1>3. 0 .. m \subseteq Good
  <2>. HIDE DEF Good
  <2>. QED  BY <1>1, <1>2, UpwardTo
<1>4. m \in Good
  BY <1>3
<1>. QED  BY <1>4

\* Each extent starts where the one before it ends, and all end on the disk.
LEMMA StartFacts ==
    ASSUME NEW eds, IsSeq(eds), \A i \in 1 .. Len(eds) : eds[i].sectors \in Nat
    PROVE  /\ StartSector(eds, 1) = 0
           /\ \A i \in 1 .. Len(eds) + 1 : /\ StartSector(eds, i) \in Nat
                                           /\ StartSector(eds, i) <= StartSector(eds, Len(eds) + 1)
           /\ \A i \in 1 .. Len(eds) : StartSector(eds, i + 1) = StartSector(eds, i) + eds[i].sectors
<1>. DEFINE N == Len(eds)
            g == CHOOSE h : SumsUp(eds, h, N)
<1>1. N \in Nat
  BY SeqFacts
<1>2. SumsUp(eds, g, N)
  <2>. HIDE DEF N
  <2>. QED  BY <1>1, SumsExist
<1>3. ASSUME NEW i PROVE StartSector(eds, i) = g[i - 1]
  BY DEF StartSector, SumsUp
<1>. HIDE DEF g, N
<1>4. \A i \in 0 .. N : g[i] = IF i = 0 THEN 0 ELSE g[i - 1] + eds[i].sectors
  BY <1>2 DEF SumsUp
<1>5. g[0] = 0 /\ \A i \in 1 .. N : g[i] = g[i - 1] + eds[i].sectors
  BY <1>1, <1>4
<1>6. \A i \in 1 .. N : eds[i].sectors \in Nat
  BY DEF N
<1>7. \A i \in 0 .. N : g[i] \in Nat
  <2>. DEFINE G == {i \in 0 .. N : g[i] \in Nat}
  <2>1. 0 \in G
    BY <1>1, <1>5
  <2>2. ASSUME NEW i \in 1 .. N, i - 1 \in G PROVE i \in G
    BY <1>1, <1>5, <1>6, <2>2
  <2>3. 0 .. N \subseteq G
    <3>. HIDE DEF G
    <3>. QED  BY <1>1, <2>1, <2>2, UpwardTo
  <2>. QED  BY <2>3
<1>8. \A i \in 0 .. N : g[i] <= g[N]
  <2>1. ASSUME NEW i \in 1 .. N PROVE g[i - 1] <= g[i]
    <3>1. i - 1 \in 0 .. N
      BY <1>1
    <3>2. g[i - 1] \in Nat /\ eds[i].sectors \in Nat /\ g[i] = g[i - 1] + eds[i].sectors
      BY <1>5, <1>6, <1>7, <3>1
    <3>. QED  BY <3>2
  <2>. QED  BY <1>1, <1>7, <2>1, Rises
<1>9. StartSector(eds, 1) = 0
  BY <1>3, <1>5
<1>10. ASSUME NEW i \in 1 .. N + 1
       PROVE  StartSector(eds, i) \in Nat /\ StartSector(eds, i) <= StartSector(eds, N + 1)
  <2>1. i - 1 \in 0 .. N /\ N + 1 - 1 = N
    BY <1>1
  <2>2. ASSUME NEW k, k = N + 1 PROVE StartSector(eds, k) = g[N]
    <3>1. StartSector(eds, k) = g[k - 1]
      BY <1>3
    <3>. QED  BY <1>1, <2>2, <3>1
  <2>3. StartSector(eds, i) = g[i - 1] /\ StartSector(eds, N + 1) = g[N]
    BY <1>3, <2>2
  <2>. QED  BY <1>7, <1>8, <2>1, <2>3
<1>11. ASSUME NEW i \in 1 .. N PROVE StartSector(eds, i + 1) = StartSector(eds, i) + eds[i].sectors
  <2>1. i + 1 - 1 = i
    OBVIOUS
  <2>2. StartSector(eds, i + 1) = g[i] /\ StartSector(eds, i) = g[i - 1]
    BY <1>3, <2>1
  <2>. QED  BY <1>5, <2>2
<1>. QED  BY <1>9, <1>10, <1>11 DEF N

-----------------------------------------------------------------------------
(* Extents.                                                                *)

\* A multiple divided by its factor.
LEMMA DivExact ==
    ASSUME NEW n \in Nat, NEW k \in Nat \ {0}
    PROVE  (n * k) \div k = n
BY SMT

\* An extent lies within the n sectors of the disk.
Good(ex, n) ==
    /\ ex.start_sector \in Nat /\ ex.sectors \in Nat
    /\ ex.start_sector + ex.sectors <= n

\* A span of an extent lies within it, and is only empty if that is.
PieceOf(ex, p) ==
    /\ p[1] \in Nat /\ p[2] \in Nat
    /\ ex.start_sector <= p[1] /\ p[1] <= p[2] /\ p[2] <= ex.start_sector + ex.sectors
    /\ ex.sectors > 0 => p[1] < p[2]

Whole(ex, n) ==
    /\ Good(ex, n)
    /\ \A p \in SpansOf(ex) : PieceOf(ex, p)
    /\ ExtentsHaveSectors => ex.sectors > 0

\* What is made of a header that is not refused has grains of some size.
LEMMA MetaFacts ==
    ASSUME disk \in Disks, NEW u \in DOMAIN disk.images, NEW i \in DOMAIN disk.images[u].extents,
           disk.images[u].extents[i].kind \in SparseKinds, ~HeaderFails(disk.images[u].extents[i])
    PROVE  LET m == Meta(disk.images[u].extents[i].header)
           IN  m.sectors \in Nat /\ m.cluster_sectors \in Nat \ {0}
<1>. DEFINE ed == disk.images[u].extents[i]
            h == ed.header
            m == Meta(h)
<1>1. h # Absent
  BY DEF HeaderFails
<1>2. h.capacity \in Nat /\ h.granularity \in Nat /\ (h.ft = "vmdk3" => h.granularity > 0)
  <2>1. /\ {h.capacity, h.granularity, h.num_gtes_per_gt} \subseteq Nat
        /\ h.ft = "vmdk3" => h.granularity > 0
    BY <1>1, DisksAssumption
  <2>. HIDE DEF h
  <2>. QED  BY <2>1
<1>3. h.ft \in {"sesparse", "vmdk3", "vmdk4"}
  BY DEF HeaderFails, SparseKinds
<1>4. h.ft = "vmdk4" => h.granularity # 0
  BY DEF HeaderFails
<1>5. SE_GRAIN_SIZE \in Nat \ {0}
  BY VmdkAssumption
<1>6. m.sectors = h.capacity /\ m.cluster_sectors = IF h.ft = "sesparse" THEN SE_GRAIN_SIZE ELSE h.granularity
  <2>. HIDE DEF h
  <2>. QED  BY DEF Meta
<1>. HIDE DEF h
<1>7. m.cluster_sectors \in Nat \ {0}
  BY <1>2, <1>3, <1>4, <1>5, <1>6
<1>. QED  BY <1>2, <1>6, <1>7 DEF h

\* Grains have numbers from 0 on.
LEMMA GrainsAre ==
    ASSUME NEW m, m.sectors \in Nat, m.cluster_sectors \in Nat \ {0}
    PROVE  DOMAIN GrainTable(m) \subseteq Nat
<1>1. DivCeil(m.sectors, m.cluster_sectors) \in Int
  BY DEF DivCeil
<1>. DEFINE total == DivCeil(m.sectors, m.cluster_sectors)
            L2(g) == m.l1[(g \div m.l2_len) + 1]
            E(g)  == L2(g)[(g % m.l2_len) + 1]
            there == {g \in 0 .. total - 1 :
                        /\ (g \div m.l2_len) + 1 \in DOMAIN m.l1
                        /\ L2(g) # Absent /\ E(g) # 0}
<1>2. GrainTable(m) = [g \in there |-> E(g)]
  BY DEF GrainTable
<1>3. DOMAIN GrainTable(m) = there
  <2>. HIDE DEF there, E
  <2>. QED  BY <1>2
<1>4. there \subseteq 0 .. total - 1
  OBVIOUS
<1>. HIDE DEF there, total
<1>5. 0 .. total - 1 \subseteq Nat
  OBVIOUS
<1>. QED  BY <1>3, <1>4, <1>5

\* Every span of an extent lies within it: the last grain is clamped.
LEMMA SpansAre ==
    ASSUME NEW ex, ex.start_sector \in Nat, ex.sectors \in Nat,
           ex.ed.kind \in SparseKinds =>
              ex.meta.cluster_sectors \in Nat \ {0} /\ DOMAIN ex.grains \subseteq Nat
    PROVE  \A p \in SpansOf(ex) : PieceOf(ex, p)
<1>. DEFINE end == ex.start_sector + ex.sectors
            Beg(g) == ex.start_sector + g * ex.meta.cluster_sectors
<1>1. CASE ex.ed.kind \notin SparseKinds
  <2>1. SpansOf(ex) = {<<ex.start_sector, end>>}
    BY <1>1 DEF SpansOf
  <2>2. PieceOf(ex, <<ex.start_sector, end>>)
    BY DEF PieceOf
  <2>. QED  BY <2>1, <2>2
<1>2. CASE ex.ed.kind \in SparseKinds
  <2>1. SUFFICES ASSUME NEW p \in SpansOf(ex) PROVE PieceOf(ex, p)
    OBVIOUS
  <2>2. SpansOf(ex) = {<<Beg(g), Min({Beg(g) + ex.meta.cluster_sectors, end})>> :
                         g \in {h \in DOMAIN ex.grains : Beg(h) < end}}
    BY <1>2 DEF SpansOf
  <2>3. PICK g \in DOMAIN ex.grains : /\ Beg(g) < end
                                      /\ p = <<Beg(g), Min({Beg(g) + ex.meta.cluster_sectors, end})>>
    BY <2>1, <2>2
  <2>4. PICK c \in Nat \ {0} : c = ex.meta.cluster_sectors
    BY <1>2
  <2>5. g * c \in Nat
    BY <1>2, <2>4
  <2>6. PICK b \in Nat : b = Beg(g) /\ ex.start_sector <= b
    BY <2>4, <2>5
  <2>7. end \in Nat /\ b < end
    BY <2>3, <2>6
  <2>. HIDE DEF Beg
  <2>8. p = <<b, Min({b + c, end})>>
    BY <2>3, <2>4, <2>6
  <2>. HIDE DEF end
  <2>9. Min({b + c, end}) = IF b + c <= end THEN b + c ELSE end
    BY <2>6, <2>7, LesserOf
  <2>10. PICK e \in Nat : e = Min({b + c, end}) /\ b < e /\ e <= end
    BY <2>6, <2>7, <2>9
  <2>11. p[1] = b /\ p[2] = e
    BY <2>8, <2>10
  <2>. QED  BY <2>6, <2>10, <2>11 DEF PieceOf, end
<1>. QED  BY <1>1, <1>2

\* The extents of an image that is not refused lie within the disk.
LEMMA ExtentsAre ==
    ASSUME disk \in Disks, NEW u, ~ImageFails(u), NEW first
    PROVE  /\ IsSeq(read_extents(u, first))
           /\ SizeOf(u) \div SECTOR_SIZE \in Nat
           /\ SizeOf(u) = (SizeOf(u) \div SECTOR_SIZE) * SECTOR_SIZE
           /\ \A ex \in Range(read_extents(u, first)) : Whole(ex, SizeOf(u) \div SECTOR_SIZE)
<1>. DEFINE eds == disk.images[u].extents
            exs == read_extents(u, first)
            n == StartSector(eds, Len(eds) + 1)
<1>1. u \in DOMAIN disk.images
  BY DEF ImageFails
<1>2. IsSeq(eds) /\ \A i \in DOMAIN eds : eds[i].sectors \in Nat
  BY <1>1, DisksAssumption DEF IsSeq
<1>3. Len(eds) \in Nat /\ DOMAIN eds = 1 .. Len(eds)
  BY <1>2, SeqFacts, Zenon
<1>4. /\ StartSector(eds, 1) = 0
      /\ \A i \in 1 .. Len(eds) + 1 : /\ StartSector(eds, i) \in Nat
                                      /\ StartSector(eds, i) <= StartSector(eds, Len(eds) + 1)
      /\ \A i \in 1 .. Len(eds) : StartSector(eds, i + 1) = StartSector(eds, i) + eds[i].sectors
  BY <1>2, <1>3, StartFacts, Zenon
<1>5. n \in Nat
  <2>1. Len(eds) + 1 \in 1 .. Len(eds) + 1
    BY <1>3
  <2>. QED  BY <1>4, <2>1
<1>6. SizeOf(u) = n * SECTOR_SIZE
  BY DEF SizeOf
<1>7. SizeOf(u) \div SECTOR_SIZE = n
  <2>1. SECTOR_SIZE \in Nat \ {0}
    BY VmdkAssumption
  <2>. HIDE DEF n
  <2>. QED  BY <1>5, <1>6, <2>1, DivExact
<1>8. DOMAIN exs = 1 .. Len(eds)
  BY <1>3 DEF read_extents
<1>9. ASSUME NEW i \in 1 .. Len(eds)
      PROVE  /\ exs[i].start_sector = StartSector(eds, i) /\ exs[i].sectors = eds[i].sectors
             /\ exs[i].ed = eds[i]
             /\ eds[i].kind \in SparseKinds => exs[i].meta = Meta(eds[i].header) /\ exs[i].grains = GrainTable(Meta(eds[i].header))
  BY <1>3 DEF read_extents
<1>10. IsSeq(exs)
  <2>. HIDE DEF exs
  <2>1. exs \in [1 .. Len(eds) -> Range(exs)]
    <3>1. exs = [i \in DOMAIN exs |-> exs[i]]
      BY DEF read_extents, exs
    <3>2. \A i \in DOMAIN exs : exs[i] \in Range(exs)
      BY DEF Range
    <3>. QED  BY <1>8, <3>1, <3>2
  <2>. QED  BY <1>3, <2>1 DEF IsSeq
<1>11. ASSUME NEW i \in 1 .. Len(eds) PROVE Whole(exs[i], n)
  <2>1. exs[i].start_sector \in Nat /\ exs[i].sectors \in Nat /\ exs[i].start_sector + exs[i].sectors <= n
    <3>1. i \in 1 .. Len(eds) + 1 /\ i + 1 \in 1 .. Len(eds) + 1
      BY <1>3
    <3>. QED  BY <1>2, <1>3, <1>4, <1>9, <3>1
  <2>2. exs[i].ed.kind \in SparseKinds =>
              exs[i].meta.cluster_sectors \in Nat \ {0} /\ DOMAIN exs[i].grains \subseteq Nat
    <3>1. ASSUME eds[i].kind \in SparseKinds
          PROVE  exs[i].meta.cluster_sectors \in Nat \ {0} /\ DOMAIN exs[i].grains \subseteq Nat
      <4>1. ~HeaderFails(eds[i])
        BY <1>3, <3>1 DEF ImageFails
      <4>2. Meta(eds[i].header).sectors \in Nat /\ Meta(eds[i].header).cluster_sectors \in Nat \ {0}
        BY <1>1, <1>3, <3>1, <4>1, MetaFacts
      <4>. QED  BY <1>9, <3>1, <4>2, GrainsAre
    <3>. QED  BY <1>9, <3>1
  <2>3. \A p \in SpansOf(exs[i]) : PieceOf(exs[i], p)
    <3>. HIDE DEF exs
    <3>. QED  BY <2>1, <2>2, SpansAre
  <2>4. ExtentsHaveSectors => exs[i].sectors > 0
    <3>1. eds[i] \in Range(eds)
      BY <1>3 DEF Range
    <3>. QED  BY <1>1, <1>9, <3>1 DEF ExtentsHaveSectors
  <2>. QED  BY <2>1, <2>3, <2>4 DEF Whole, Good
<1>. HIDE DEF exs, n
<1>12. \A ex \in Range(exs) : Whole(ex, n)
  BY <1>8, <1>11 DEF Range
<1>. QED  BY <1>5, <1>6, <1>7, <1>10, <1>12 DEF exs

-----------------------------------------------------------------------------
(* The walk over the images.                                               *)

N == image_size \div SECTOR_SIZE

InPiece == pc \in {"piece", "insert", "remove"}

Walking == pc \in {"image", "extent"} \/ InPiece

\* The extents that spans may lead to: those added and the one that is being.
Pending ==
    IF InPiece THEN Append(extents, Head(todo))
    ELSE IF pc = "gap" THEN Append(extents, ZeroExtent(cur.beg, cur.end))
    ELSE extents

\* Nothing is known of the disk before the first image is in.
SizeKnown ==
    /\ disk \in Disks
    /\ image_size = Absent => pc \in {"image", "refused"} /\ extents = <<>>
    /\ image_size # Absent => N \in Nat /\ image_size = N * SECTOR_SIZE

\* The extents to come and the pieces of the one at hand lie within the disk.
TodoWhole ==
    /\ IsSeq(todo) /\ IsSeq(extents)
    /\ \A ex \in Range(todo) : Whole(ex, N)
    /\ \A ex \in Range(extents) : Good(ex, N)
    /\ InPiece => todo # <<>> /\ \A p \in pieces : PieceOf(Head(todo), p)

CurFits ==
    /\ cur \in [beg : Nat, end : Nat, sbeg : Nat]
    /\ cur.beg <= cur.sbeg /\ cur.sbeg <= cur.end
    /\ pc \in {"insert", "remove"} => PieceOf(Head(todo), <<cur.beg, cur.end>>)
    /\ pc = "gap" => cur.end <= N

SpansFit ==
    /\ Tidy(spans)
    /\ IsFiniteSet(DOMAIN spans)
    /\ Fits(spans, Pending)

UncoveredFits ==
    /\ Ordered(uncovered)
    /\ image_size = Absent => DOMAIN uncovered = {}
    /\ \A b \in DOMAIN uncovered : uncovered[b] <= N
    /\ pc = "open" => DOMAIN uncovered = {}

\* Every sector of the disk is in a span, uncovered, or about to be zero.
AllThere ==
    /\ image_size # Absent => \A s \in Nat : s < N =>
        Owned(spans, s) \/ Has(uncovered, s) \/ (pc = "gap" /\ cur.sbeg <= s /\ s < cur.end)
    /\ pc \in {"insert", "gap"} => \A s \in Nat : cur.beg <= s /\ s < cur.sbeg => Owned(spans, s)
    /\ pc = "remove" => \A s \in Nat : cur.beg <= s /\ s < cur.end => Owned(spans, s)

\* A disk of no sectors has a span all the same.
FirstThere ==
    image_size # Absent /\ N = 0 =>
        0 \in DOMAIN spans \/ 0 \in DOMAIN uncovered \/ (pc = "gap" /\ cur.sbeg = 0)

\* With no empty extent the spans of uncovered stay apart and are cut exactly.
CutExactly ==
    /\ Apart(uncovered)
    /\ N > 0 => Filled(uncovered)
    /\ \A s \in Nat : Has(uncovered, s) /\ Owned(spans, s) =>
        \/ pc = "insert" /\ cur.beg <= s /\ s < cur.end
        \/ pc = "remove" /\ cur.sbeg <= s /\ s < cur.end
    /\ pc = "remove" => cur.sbeg = cur.beg \/ Clear(uncovered, cur.sbeg)
    /\ pc \in {"image", "extent"} /\ image_size # Absent => DOMAIN uncovered # {}
    /\ extents # <<>> => N > 0

Inv ==
    /\ SizeKnown /\ TodoWhole /\ CurFits /\ SpansFit /\ UncoveredFits /\ AllThere /\ FirstThere
    /\ ExtentsHaveSectors /\ Walking => CutExactly

\* The invariant holds at first.
LEMMA InitInv == ASSUME Init PROVE Inv
<1>. USE DEF Init
<1>1. SizeKnown
  BY VmdkAssumption DEF SizeKnown
<1>2. ~InPiece /\ Pending = <<>>
  BY DEF InPiece, Pending
<1>3. IsSeq(<<>>) /\ Range(<<>>) = {} /\ DOMAIN <<>> = {}
  BY DEF IsSeq, Range
<1>4. TodoWhole
  BY <1>2, <1>3 DEF TodoWhole
<1>5. CurFits
  BY DEF CurFits, NoSpan
<1>6. SpansFit
  BY <1>2, <1>3, FS_EmptySet DEF SpansFit, Tidy, Starting, Fits
<1>7. UncoveredFits
  BY <1>3 DEF UncoveredFits, Ordered, Ends, Starting
<1>8. AllThere /\ FirstThere
  BY DEF AllThere, FirstThere
<1>9. CutExactly
  BY <1>3 DEF CutExactly, Apart, Filled, Has
<1>. QED  BY <1>1, <1>4, <1>5, <1>6, <1>7, <1>8, <1>9 DEF Inv

\* What is known of extents stays known while the disk and its size do.
LEMMA DiskKept ==
    ASSUME UNCHANGED <<disk, image_size>>
    PROVE  /\ ExtentsHaveSectors' <=> ExtentsHaveSectors
           /\ N' = N
           /\ \A ex : Whole(ex, N)' <=> Whole(ex, N)
BY DEF ExtentsHaveSectors, N, Whole

\* Extents keep their numbers when more are added.
LEMMA FitsMore ==
    ASSUME NEW m, NEW es, IsSeq(es), Fits(m, es), NEW e
    PROVE  Fits(m, Append(es, e))
<1>1. Len(es) \in Nat /\ DOMAIN es = 1 .. Len(es)
  BY SeqFacts
<1>2. /\ IsSeq(Append(es, e)) /\ Len(Append(es, e)) = Len(es) + 1
      /\ \A i \in 1 .. Len(es) : Append(es, e)[i] = es[i]
  BY AppendIs
<1>3. DOMAIN Append(es, e) = 1 .. Len(es) + 1
  BY <1>2, SeqFacts
<1>. DEFINE a == Append(es, e)
<1>. HIDE DEF a
<1>4. DOMAIN es \subseteq DOMAIN a /\ \A i \in DOMAIN es : a[i] = es[i]
  BY <1>1, <1>2, <1>3 DEF a
<1>5. Fits(m, a)
  BY <1>4 DEF Fits, Inside
<1>. QED  BY <1>5 DEF a

\* A step of a read keeps the invariant of the walk.
LEMMA SameInv == ASSUME Inv, UNCHANGED <<disk, pc, build>> PROVE Inv'
<1>. USE DEF build
<1>1. /\ ExtentsHaveSectors' <=> ExtentsHaveSectors
      /\ N' = N
      /\ \A ex : Whole(ex, N)' <=> Whole(ex, N)
  BY DiskKept
<1>2. (InPiece' <=> InPiece) /\ (Walking' <=> Walking)
  BY DEF InPiece, Walking
<1>3. Pending' = Pending
  BY <1>2 DEF Pending, ZeroExtent
<1>4. SizeKnown'
  BY <1>1 DEF Inv, SizeKnown
<1>5. TodoWhole'
  BY <1>1, <1>2 DEF Inv, TodoWhole
<1>6. CurFits'
  BY <1>1 DEF Inv, CurFits
<1>7. SpansFit'
  BY <1>3 DEF Inv, SpansFit
<1>8. UncoveredFits'
  BY <1>1 DEF Inv, UncoveredFits
<1>9. AllThere' /\ FirstThere'
  BY <1>1 DEF Inv, AllThere, FirstThere
<1>10. ExtentsHaveSectors' /\ Walking' => CutExactly'
  BY <1>1, <1>2 DEF Inv, CutExactly
<1>. QED  BY <1>4, <1>5, <1>6, <1>7, <1>8, <1>9, <1>10 DEF Inv

\* Taking up an image, or refusing it, keeps the invariant.
LEMMA TakeImageInv == ASSUME Inv, TakeImage PROVE Inv'
<1>1. pc = "image" /\ UNCHANGED <<disk, url, pieces, cur, spans, extents, rd>>
  BY DEF TakeImage
<1>2. ~InPiece /\ Walking /\ Pending = extents
  BY <1>1 DEF InPiece, Walking, Pending
<1>3. CASE Refuses(url)
  <2>1. pc' = "refused" /\ UNCHANGED <<image_size, todo, uncovered>>
    BY <1>3 DEF TakeImage
  <2>2. /\ ExtentsHaveSectors' <=> ExtentsHaveSectors
        /\ N' = N
        /\ \A ex : Whole(ex, N)' <=> Whole(ex, N)
    BY <1>1, <2>1, DiskKept
  <2>3. ~InPiece' /\ ~Walking' /\ Pending' = extents
    BY <1>1, <2>1 DEF InPiece, Walking, Pending
  <2>4. SizeKnown'
    BY <1>1, <2>1, <2>2 DEF Inv, SizeKnown
  <2>5. TodoWhole'
    BY <1>1, <2>1, <2>2, <2>3 DEF Inv, TodoWhole
  <2>6. CurFits'
    BY <1>1, <2>1, <2>2 DEF Inv, CurFits
  <2>7. SpansFit'
    BY <1>1, <1>2, <2>3 DEF Inv, SpansFit
  <2>8. UncoveredFits'
    BY <1>1, <2>1, <2>2 DEF Inv, UncoveredFits
  <2>9. AllThere' /\ FirstThere'
    BY <1>1, <2>1, <2>2 DEF Inv, AllThere, FirstThere
  <2>. QED  BY <2>3, <2>4, <2>5, <2>6, <2>7, <2>8, <2>9 DEF Inv
<1>4. CASE ~Refuses(url)
  <2>. DEFINE n == SizeOf(url) \div SECTOR_SIZE
  <2>1. /\ pc' = "extent" /\ todo' = read_extents(url, idx + 1) /\ image_size' = SizeOf(url)
        /\ uncovered' = IF image_size = Absent THEN Put(uncovered, 0, n) ELSE uncovered
    BY <1>4 DEF TakeImage
  <2>2. ~ImageFails(url) /\ (image_size # Absent => image_size = SizeOf(url))
    BY <1>4 DEF Refuses
  <2>3. /\ IsSeq(read_extents(url, idx + 1))
        /\ n \in Nat
        /\ SizeOf(url) = n * SECTOR_SIZE
        /\ \A ex \in Range(read_extents(url, idx + 1)) : Whole(ex, n)
    BY <2>2, ExtentsAre DEF Inv, SizeKnown
  <2>4. N' = n
    BY <2>1 DEF N
  <2>. HIDE DEF n
  <2>5. ~InPiece' /\ Walking' /\ Pending' = extents
    BY <1>1, <2>1 DEF InPiece, Walking, Pending
  <2>6. image_size' # Absent
    <3>1. SECTOR_SIZE \in Nat /\ n * SECTOR_SIZE \in Nat
      BY <2>3, VmdkAssumption
    <3>. QED  BY <2>1, <2>3, <3>1, VmdkAssumption
  <2>7. SizeKnown'
    BY <1>1, <2>1, <2>3, <2>4, <2>6 DEF Inv, SizeKnown
  <2>8. image_size # Absent => N = n
    BY <2>2 DEF N, n
  <2>9. image_size = Absent => extents = <<>>
    BY DEF Inv, SizeKnown
  <2>10. TodoWhole'
    <3>1. \A ex \in Range(todo') : Whole(ex, N)'
      <4>1. ASSUME NEW ex, Whole(ex, n) PROVE Whole(ex, N)'
        BY <1>1, <2>4, <4>1 DEF Whole, ExtentsHaveSectors
      <4>. QED  BY <2>1, <2>3, <4>1
    <3>2. \A ex \in Range(extents) : Good(ex, n)
      <4>1. Range(<<>>) = {}
        BY DEF Range
      <4>. QED  BY <2>8, <2>9, <4>1 DEF Inv, TodoWhole
    <3>. QED  BY <1>1, <2>1, <2>3, <2>4, <2>5, <3>1, <3>2 DEF Inv, TodoWhole
  <2>11. CurFits'
    BY <1>1, <2>1 DEF Inv, CurFits
  <2>12. SpansFit'
    BY <1>1, <1>2, <2>5 DEF Inv, SpansFit
  <2>13. CASE image_size = Absent
    <3>1. DOMAIN uncovered = {}
      BY <2>13 DEF Inv, UncoveredFits
    <3>2. DOMAIN uncovered' = {0} /\ uncovered'[0] = n
      BY <2>1, <2>13, <3>1 DEF Put
    <3>3. Ordered(uncovered')
      BY <2>3, <3>2 DEF Ordered, Ends, Starting
    <3>4. UncoveredFits'
      BY <2>1, <2>3, <2>4, <2>6, <3>2, <3>3 DEF UncoveredFits
    <3>5. \A s \in Nat : s < n => Has(uncovered', s)
      BY <3>2 DEF Has
    <3>6. AllThere'
      BY <2>1, <2>4, <3>5 DEF AllThere
    <3>7. FirstThere'
      BY <3>2 DEF FirstThere
    <3>8. \A s \in Nat : ~Owned(spans, s)
      <4>1. spans = <<>> \/ DOMAIN spans = {}
        <5>1. ASSUME NEW b \in DOMAIN spans PROVE FALSE
          <6>1. DOMAIN extents = {}
            BY <2>9, <2>13
          <6>. QED  BY <1>2, <6>1 DEF Inv, SpansFit, Fits, Inside
        <5>. QED  BY <5>1
      <4>. QED  BY <4>1 DEF Owned
    <3>9. CutExactly'
      <4>1. Apart(uncovered') /\ (n > 0 => Filled(uncovered')) /\ DOMAIN uncovered' # {}
        BY <3>2 DEF Apart, Filled
      <4>2. extents' = <<>>
        BY <1>1, <2>9, <2>13
      <4>. QED  BY <1>1, <2>1, <2>4, <3>8, <4>1, <4>2 DEF CutExactly
    <3>. QED  BY <2>7, <2>10, <2>11, <2>12, <3>4, <3>6, <3>7, <3>9 DEF Inv
  <2>14. CASE image_size # Absent
    <3>1. N' = N /\ UNCHANGED uncovered
      BY <2>1, <2>4, <2>8, <2>14
    <3>2. UncoveredFits'
      BY <2>1, <2>6, <3>1 DEF Inv, UncoveredFits
    <3>3. AllThere' /\ FirstThere'
      BY <1>1, <2>1, <2>14, <3>1 DEF Inv, AllThere, FirstThere
    <3>4. ASSUME ExtentsHaveSectors' PROVE CutExactly'
      <4>1. CutExactly
        BY <1>1, <1>2, <3>4 DEF Inv, ExtentsHaveSectors
      <4>. QED  BY <1>1, <2>1, <2>14, <3>1, <4>1 DEF CutExactly
    <3>. QED  BY <2>7, <2>10, <2>11, <2>12, <3>2, <3>3, <3>4 DEF Inv
  <2>. QED  BY <2>13, <2>14
<1>. QED  BY <1>3, <1>4

\* Taking up an extent keeps the invariant.
LEMMA TakeExtentInv == ASSUME Inv, TakeExtent PROVE Inv'
<1>1. /\ pc = "extent" /\ pc' = "piece" /\ todo # <<>> /\ pieces' = SpansOf(Head(todo))
      /\ UNCHANGED <<disk, url, chain, idx, sources, image_size, todo, cur, spans, uncovered,
                     extents, rd>>
  BY DEF TakeExtent
<1>2. /\ ExtentsHaveSectors' <=> ExtentsHaveSectors
      /\ N' = N
      /\ \A ex : Whole(ex, N)' <=> Whole(ex, N)
  BY <1>1, DiskKept
<1>3. InPiece' /\ Walking' /\ Walking /\ Pending = extents /\ Pending' = Append(extents, Head(todo))
  BY <1>1 DEF InPiece, Walking, Pending
<1>4. SizeKnown'
  BY <1>1, <1>2 DEF Inv, SizeKnown
<1>5. Head(todo) \in Range(todo)
  BY <1>1, TailIs DEF Inv, TodoWhole
<1>6. TodoWhole'
  <2>1. \A p \in pieces' : PieceOf(Head(todo), p)
    BY <1>1, <1>5 DEF Inv, TodoWhole, Whole
  <2>. QED  BY <1>1, <1>2, <2>1 DEF Inv, TodoWhole
<1>7. CurFits'
  BY <1>1, <1>2 DEF Inv, CurFits
<1>8. SpansFit'
  <2>1. Fits(spans, extents)
    BY <1>3 DEF Inv, SpansFit
  <2>2. Fits(spans, Append(extents, Head(todo)))
    BY <2>1, FitsMore DEF Inv, TodoWhole
  <2>. QED  BY <1>1, <1>3, <2>2 DEF Inv, SpansFit
<1>9. UncoveredFits'
  BY <1>1, <1>2 DEF Inv, UncoveredFits
<1>10. AllThere' /\ FirstThere'
  BY <1>1, <1>2 DEF Inv, AllThere, FirstThere
<1>11. ExtentsHaveSectors' => CutExactly'
  BY <1>1, <1>2, <1>3 DEF Inv, CutExactly
<1>. QED  BY <1>4, <1>6, <1>7, <1>8, <1>9, <1>10, <1>11 DEF Inv

\* Taking up a piece of an extent keeps the invariant.
LEMMA TakePieceInv == ASSUME Inv, NEW p \in pieces, TakePiece(p) PROVE Inv'
<1>1. /\ pc = "piece" /\ pc' = "insert" /\ pieces' = pieces \ {p}
      /\ cur' = [beg |-> p[1], end |-> p[2], sbeg |-> p[1]]
      /\ UNCHANGED <<disk, url, chain, idx, sources, image_size, todo, spans, uncovered,
                     extents, rd>>
  BY DEF TakePiece
<1>2. /\ ExtentsHaveSectors' <=> ExtentsHaveSectors
      /\ N' = N
      /\ \A ex : Whole(ex, N)' <=> Whole(ex, N)
  BY <1>1, DiskKept
<1>3. InPiece' /\ InPiece /\ Walking' /\ Walking /\ Pending' = Pending
  BY <1>1 DEF InPiece, Walking, Pending
<1>4. SizeKnown'
  BY <1>1, <1>2 DEF Inv, SizeKnown
<1>5. PieceOf(Head(todo), p)
  BY <1>3 DEF Inv, TodoWhole
<1>6. TodoWhole'
  BY <1>1, <1>2, <1>3 DEF Inv, TodoWhole
<1>7. cur'.beg = p[1] /\ cur'.end = p[2] /\ cur'.sbeg = p[1]
  BY <1>1
<1>8. CurFits'
  <2>1. PieceOf(Head(todo), <<p[1], p[2]>>)
    BY <1>5 DEF PieceOf
  <2>. QED  BY <1>1, <1>5, <1>7, <2>1 DEF CurFits, PieceOf
<1>9. SpansFit'
  BY <1>1, <1>3 DEF Inv, SpansFit
<1>10. UncoveredFits'
  BY <1>1, <1>2 DEF Inv, UncoveredFits
<1>11. p[1] \in Nat
  BY <1>5 DEF PieceOf
<1>12. AllThere' /\ FirstThere'
  BY <1>1, <1>2, <1>7, <1>11 DEF Inv, AllThere, FirstThere
<1>13. ExtentsHaveSectors' => CutExactly'
  <2>1. ASSUME ExtentsHaveSectors' PROVE CutExactly'
    <3>1. CutExactly
      BY <1>2, <1>3, <2>1 DEF Inv
    <3>. QED  BY <1>1, <1>2, <3>1 DEF CutExactly
  <2>. QED  BY <2>1
<1>. QED  BY <1>4, <1>6, <1>8, <1>9, <1>10, <1>12, <1>13 DEF Inv

\* The extents that spans may lead to have their place on the disk.
LEMMA PendingFacts ==
    ASSUME Inv, pc \in {"piece", "insert", "remove", "gap"}
    PROVE  /\ Measured(Pending) /\ Val \in DOMAIN Pending
           /\ image_size # Absent /\ N \in Nat
           /\ pc # "gap" => Pending[Val] = Head(todo) /\ Good(Head(todo), N) /\ Head(todo) \in Range(todo)
           /\ pc = "gap" => Pending[Val] = ZeroExtent(cur.beg, cur.end)
<1>. DEFINE last == IF pc = "gap" THEN ZeroExtent(cur.beg, cur.end) ELSE Head(todo)
<1>1. Pending = Append(extents, last)
  BY DEF Pending, InPiece
<1>2. image_size # Absent /\ N \in Nat
  BY DEF Inv, SizeKnown
<1>3. pc # "gap" => Head(todo) \in Range(todo)
  BY TailIs DEF Inv, TodoWhole, InPiece
<1>4. pc # "gap" => Good(Head(todo), N)
  BY <1>3 DEF Inv, TodoWhole, Whole
<1>5. last.start_sector \in Nat /\ last.sectors \in Nat
  <2>1. CASE pc = "gap"
    BY <2>1 DEF Inv, CurFits, ZeroExtent
  <2>2. CASE pc # "gap"
    BY <1>4, <2>2 DEF Good
  <2>. QED  BY <2>1, <2>2
<1>6. IsSeq(extents) /\ \A ex \in Range(extents) : Good(ex, N)
  BY DEF Inv, TodoWhole
<1>7. Len(extents) \in Nat /\ \A i \in 1 .. Len(extents) : extents[i] \in Range(extents)
  BY <1>6, SeqFacts
<1>. HIDE DEF last
<1>8. /\ IsSeq(Pending) /\ Len(Pending) = Len(extents) + 1
      /\ \A i \in 1 .. Len(extents) : Pending[i] = extents[i]
      /\ Pending[Val] = last
  BY <1>1, <1>6, AppendIs DEF Val
<1>9. DOMAIN Pending = 1 .. Len(extents) + 1
  BY <1>8, SeqFacts
<1>10. Val \in DOMAIN Pending
  BY <1>7, <1>9 DEF Val
<1>11. Measured(Pending)
  <2>1. ASSUME NEW i \in DOMAIN Pending PROVE Pending[i].start_sector \in Nat /\ Pending[i].sectors \in Nat
    <3>1. CASE i = Val
      BY <1>5, <1>8, <3>1
    <3>2. CASE i # Val
      <4>1. i \in 1 .. Len(extents)
        BY <1>7, <1>9, <3>2 DEF Val
      <4>2. Good(Pending[i], N)
        BY <1>6, <1>7, <1>8, <4>1
      <4>. QED  BY <4>2 DEF Good
    <3>. QED  BY <3>1, <3>2
  <2>. QED  BY <2>1 DEF Measured
<1>. QED  BY <1>2, <1>3, <1>4, <1>8, <1>10, <1>11 DEF last

\* What a turn of insert_span does to spans.
LEMMA InsertFacts ==
    ASSUME Inv, pc \in {"insert", "gap"}
    PROVE  LET r == InsertTurn(spans, cur.sbeg, cur.end, Val)
           IN  /\ Tidy(r.map) /\ IsFiniteSet(DOMAIN r.map) /\ Fits(r.map, Pending)
               /\ \A s \in Nat : Owned(spans, s) => Owned(r.map, s)
               /\ \A s \in Nat : Owned(r.map, s) => Owned(spans, s) \/ (cur.sbeg <= s /\ s < cur.end)
               /\ \A s \in Nat : cur.beg <= s /\ s < cur.sbeg => Owned(r.map, s)
               /\ \A s \in Nat : cur.sbeg <= s /\ s < (IF r.done THEN cur.end ELSE r.sbeg) => Owned(r.map, s)
               /\ ~r.done => r.sbeg \in Nat /\ cur.sbeg <= r.sbeg /\ r.sbeg <= cur.end
               /\ 0 \in DOMAIN spans \/ cur.sbeg = 0 => 0 \in DOMAIN r.map
<1>. DEFINE r == InsertTurn(spans, cur.sbeg, cur.end, Val)
<1>1. /\ cur.beg \in Nat /\ cur.end \in Nat /\ cur.sbeg \in Nat
      /\ cur.beg <= cur.sbeg /\ cur.sbeg <= cur.end
  BY DEF Inv, CurFits
<1>2. Tidy(spans) /\ IsFiniteSet(DOMAIN spans) /\ Fits(spans, Pending)
  BY DEF Inv, SpansFit
<1>3. Inserts(spans, r, cur.sbeg, cur.end, Val)
  BY <1>1, <1>2, TurnInserts
<1>4. /\ Measured(Pending) /\ Val \in DOMAIN Pending
      /\ pc # "gap" => Pending[Val] = Head(todo) /\ Good(Head(todo), N)
      /\ pc = "gap" => Pending[Val] = ZeroExtent(cur.beg, cur.end)
  BY PendingFacts
<1>5. Inside(Pending, Val, cur.sbeg, cur.end)
  <2>1. CASE pc = "gap"
    <3>1. Pending[Val].start_sector = cur.beg /\ Pending[Val].sectors = cur.end - cur.beg
      BY <1>4, <2>1 DEF ZeroExtent
    <3>. QED  BY <1>1, <1>4, <3>1 DEF Inside
  <2>2. CASE pc = "insert"
    <3>1. PieceOf(Head(todo), <<cur.beg, cur.end>>)
      BY <2>2 DEF Inv, CurFits
    <3>2. Head(todo).start_sector <= cur.beg /\ cur.end <= Head(todo).start_sector + Head(todo).sectors
      BY <3>1 DEF PieceOf
    <3>3. Head(todo).start_sector \in Nat
      BY <1>4, <2>2 DEF Good
    <3>. QED  BY <1>1, <1>4, <2>2, <3>2, <3>3 DEF Inside
  <2>. QED  BY <2>1, <2>2
<1>. HIDE DEF r
<1>6. Fits(r.map, Pending)
  BY <1>2, <1>3, <1>4, <1>5 DEF Inserts
<1>7. IsFiniteSet(DOMAIN r.map)
  <2>. DEFINE k == cur.sbeg
  <2>0. k \in Int /\ 0 \in Int
    BY <1>1
  <2>1. IsFiniteSet(0 .. cur.sbeg)
    <3>. HIDE DEF k
    <3>1. IsFiniteSet(0 .. k)
      BY <2>0, FS_Interval
    <3>. QED  BY <3>1 DEF k
  <2>2. IsFiniteSet(DOMAIN spans \cup 0 .. cur.sbeg)
    BY <1>2, <2>1, FS_Union
  <2>3. DOMAIN r.map \subseteq DOMAIN spans \cup 0 .. cur.sbeg
    BY <1>3 DEF Inserts
  <2>. QED  BY <2>2, <2>3, FS_Subset
<1>8. ASSUME NEW s \in Nat, Owned(spans, s) PROVE Owned(r.map, s)
  BY <1>3, <1>8, OwnedIs DEF Inserts
<1>9. ASSUME NEW s \in Nat, Owned(r.map, s) PROVE Owned(spans, s) \/ (cur.sbeg <= s /\ s < cur.end)
  BY <1>3, <1>9, OwnedIs DEF Inserts
<1>10. ASSUME NEW s \in Nat, cur.beg <= s, s < cur.sbeg PROVE Owned(r.map, s)
  BY <1>8, <1>10 DEF Inv, AllThere
<1>. QED  BY <1>3, <1>6, <1>7, <1>8, <1>9, <1>10 DEF Inserts, r

\* A turn of insert_span keeps the invariant.
LEMMA InsertSpanInv == ASSUME Inv, InsertSpan PROVE Inv'
<1>. DEFINE r == InsertTurn(spans, cur.sbeg, cur.end, Val)
<1>1. /\ pc \in {"insert", "gap"} /\ spans' = r.map
      /\ UNCHANGED <<disk, url, chain, idx, sources, image_size, todo, pieces, uncovered, rd>>
  BY DEF InsertSpan
<1>2. /\ ExtentsHaveSectors' <=> ExtentsHaveSectors
      /\ N' = N
      /\ \A ex : Whole(ex, N)' <=> Whole(ex, N)
  BY <1>1, DiskKept
<1>3. /\ Tidy(r.map) /\ IsFiniteSet(DOMAIN r.map) /\ Fits(r.map, Pending)
      /\ \A s \in Nat : Owned(spans, s) => Owned(r.map, s)
      /\ \A s \in Nat : Owned(r.map, s) => Owned(spans, s) \/ (cur.sbeg <= s /\ s < cur.end)
      /\ \A s \in Nat : cur.beg <= s /\ s < cur.sbeg => Owned(r.map, s)
      /\ \A s \in Nat : cur.sbeg <= s /\ s < (IF r.done THEN cur.end ELSE r.sbeg) => Owned(r.map, s)
      /\ ~r.done => r.sbeg \in Nat /\ cur.sbeg <= r.sbeg /\ r.sbeg <= cur.end
      /\ 0 \in DOMAIN spans \/ cur.sbeg = 0 => 0 \in DOMAIN r.map
  BY <1>1, InsertFacts
<1>4. \/ ~r.done /\ cur' = [cur EXCEPT !.sbeg = r.sbeg] /\ UNCHANGED <<pc, extents>>
      \/ r.done /\ pc = "insert" /\ cur' = [cur EXCEPT !.sbeg = cur.beg] /\ pc' = "remove" /\ UNCHANGED extents
      \/ /\ r.done /\ pc = "gap" /\ cur' = NoSpan /\ pc' = "fill"
         /\ extents' = Append(extents, ZeroExtent(cur.beg, cur.end))
  BY DEF InsertSpan
<1>5. /\ cur.beg \in Nat /\ cur.end \in Nat /\ cur.sbeg \in Nat
      /\ cur.beg <= cur.sbeg /\ cur.sbeg <= cur.end /\ cur \in [beg : Nat, end : Nat, sbeg : Nat]
  BY DEF Inv, CurFits
<1>6. image_size # Absent /\ N \in Nat
  BY <1>1, PendingFacts
<1>. HIDE DEF r
<1>7. CASE ~r.done /\ cur' = [cur EXCEPT !.sbeg = r.sbeg] /\ UNCHANGED <<pc, extents>>
  <2>1. cur'.beg = cur.beg /\ cur'.end = cur.end /\ cur'.sbeg = r.sbeg /\ cur' \in [beg : Nat, end : Nat, sbeg : Nat]
    BY <1>3, <1>5, <1>7
  <2>2. (InPiece' <=> InPiece) /\ (Walking' <=> Walking)
    BY <1>7 DEF InPiece, Walking
  <2>3. Pending' = Pending
    BY <1>1, <1>7, <2>1, <2>2 DEF Pending, ZeroExtent
  <2>4. SizeKnown'
    BY <1>1, <1>2, <1>7 DEF Inv, SizeKnown
  <2>5. TodoWhole'
    BY <1>1, <1>2, <1>7, <2>2 DEF Inv, TodoWhole
  <2>6. CurFits'
    BY <1>1, <1>2, <1>3, <1>5, <1>7, <2>1 DEF Inv, CurFits
  <2>7. SpansFit'
    BY <1>1, <1>3, <2>3 DEF SpansFit
  <2>8. UncoveredFits'
    BY <1>1, <1>2, <1>7 DEF Inv, UncoveredFits
  <2>9. AllThere'
    <3>1. ASSUME NEW s \in Nat, s < N
          PROVE  Owned(spans', s) \/ Has(uncovered, s) \/ (pc = "gap" /\ r.sbeg <= s /\ s < cur.end)
      <4>1. Owned(spans, s) \/ Has(uncovered, s) \/ (pc = "gap" /\ cur.sbeg <= s /\ s < cur.end)
        BY <1>6, <3>1 DEF Inv, AllThere
      <4>. QED  BY <1>1, <1>3, <1>7, <4>1
    <3>2. ASSUME NEW s \in Nat, cur.beg <= s, s < r.sbeg PROVE Owned(spans', s)
      BY <1>1, <1>3, <1>5, <1>7, <3>2
    <3>. QED  BY <1>1, <1>2, <1>7, <2>1, <3>1, <3>2 DEF AllThere
  <2>10. FirstThere'
    <3>1. N = 0 => 0 \in DOMAIN spans \/ 0 \in DOMAIN uncovered \/ (pc = "gap" /\ cur.sbeg = 0)
      BY <1>6 DEF Inv, FirstThere
    <3>. QED  BY <1>1, <1>2, <1>3, <3>1 DEF FirstThere
  <2>11. ASSUME ExtentsHaveSectors', Walking' PROVE CutExactly'
    <3>1. CutExactly /\ pc = "insert"
      BY <1>1, <1>2, <2>2, <2>11 DEF Inv, Walking, InPiece
    <3>2. ASSUME NEW s \in Nat, Has(uncovered, s), Owned(spans', s) PROVE cur.beg <= s /\ s < cur.end
      <4>1. Owned(spans, s) \/ (cur.sbeg <= s /\ s < cur.end)
        BY <1>1, <1>3, <3>2
      <4>2. Owned(spans, s) => cur.beg <= s /\ s < cur.end
        BY <3>1, <3>2 DEF CutExactly
      <4>. QED  BY <1>5, <4>1, <4>2
    <3>. QED  BY <1>1, <1>2, <1>7, <2>1, <3>1, <3>2 DEF CutExactly
  <2>. QED  BY <2>4, <2>5, <2>6, <2>7, <2>8, <2>9, <2>10, <2>11 DEF Inv
<1>8. CASE r.done /\ pc = "insert" /\ cur' = [cur EXCEPT !.sbeg = cur.beg] /\ pc' = "remove" /\ UNCHANGED extents
  <2>1. cur'.beg = cur.beg /\ cur'.end = cur.end /\ cur'.sbeg = cur.beg /\ cur' \in [beg : Nat, end : Nat, sbeg : Nat]
    BY <1>5, <1>8
  <2>2. InPiece' /\ InPiece /\ Walking' /\ Walking
    BY <1>8 DEF InPiece, Walking
  <2>3. Pending' = Pending
    BY <1>1, <1>8, <2>2 DEF Pending
  <2>4. SizeKnown'
    BY <1>1, <1>2, <1>6, <1>8 DEF Inv, SizeKnown
  <2>5. TodoWhole'
    BY <1>1, <1>2, <1>8, <2>2 DEF Inv, TodoWhole
  <2>6. CurFits'
    BY <1>1, <1>2, <1>5, <1>8, <2>1 DEF Inv, CurFits
  <2>7. SpansFit'
    BY <1>1, <1>3, <2>3 DEF SpansFit
  <2>8. UncoveredFits'
    BY <1>1, <1>2, <1>8 DEF Inv, UncoveredFits
  <2>9. AllThere'
    <3>1. ASSUME NEW s \in Nat, s < N PROVE Owned(spans', s) \/ Has(uncovered, s)
      <4>1. Owned(spans, s) \/ Has(uncovered, s)
        BY <1>6, <1>8, <3>1 DEF Inv, AllThere
      <4>. QED  BY <1>1, <1>3, <4>1
    <3>2. ASSUME NEW s \in Nat, cur.beg <= s, s < cur.end PROVE Owned(spans', s)
      BY <1>1, <1>3, <1>5, <1>8, <3>2
    <3>. QED  BY <1>1, <1>2, <1>8, <2>1, <3>1, <3>2 DEF AllThere
  <2>10. FirstThere'
    <3>1. N = 0 => 0 \in DOMAIN spans \/ 0 \in DOMAIN uncovered
      BY <1>6, <1>8 DEF Inv, FirstThere
    <3>. QED  BY <1>1, <1>2, <1>3, <3>1 DEF FirstThere
  <2>11. ASSUME ExtentsHaveSectors' PROVE CutExactly'
    <3>1. CutExactly
      BY <1>2, <2>2, <2>11 DEF Inv
    <3>2. ASSUME NEW s \in Nat, Has(uncovered, s), Owned(spans', s) PROVE cur.beg <= s /\ s < cur.end
      <4>1. Owned(spans, s) \/ (cur.sbeg <= s /\ s < cur.end)
        BY <1>1, <1>3, <3>2
      <4>2. Owned(spans, s) => cur.beg <= s /\ s < cur.end
        BY <1>8, <3>1, <3>2 DEF CutExactly
      <4>. QED  BY <1>5, <4>1, <4>2
    <3>. QED  BY <1>1, <1>2, <1>8, <2>1, <3>1, <3>2 DEF CutExactly
  <2>. QED  BY <2>4, <2>5, <2>6, <2>7, <2>8, <2>9, <2>10, <2>11 DEF Inv
<1>9. CASE /\ r.done /\ pc = "gap" /\ cur' = NoSpan /\ pc' = "fill"
           /\ extents' = Append(extents, ZeroExtent(cur.beg, cur.end))
  <2>1. ~InPiece' /\ ~Walking' /\ Pending' = extents' /\ Pending = extents' /\ ~InPiece
    BY <1>9 DEF InPiece, Walking, Pending
  <2>2. SizeKnown'
    BY <1>1, <1>2, <1>6, <1>9 DEF Inv, SizeKnown
  <2>3. TodoWhole'
    <3>1. Good(ZeroExtent(cur.beg, cur.end), N)
      <4>1. cur.end <= N
        BY <1>9 DEF Inv, CurFits
      <4>. QED  BY <1>5, <4>1 DEF Good, ZeroExtent
    <3>2. IsSeq(extents') /\ Range(extents') = Range(extents) \cup {ZeroExtent(cur.beg, cur.end)}
      BY <1>9, AppendIs DEF Inv, TodoWhole
    <3>3. \A ex \in Range(extents') : Good(ex, N)
      BY <3>1, <3>2 DEF Inv, TodoWhole
    <3>. QED  BY <1>1, <1>2, <2>1, <3>2, <3>3 DEF Inv, TodoWhole
  <2>4. CurFits'
    BY <1>9 DEF CurFits, NoSpan
  <2>5. SpansFit'
    BY <1>1, <1>3, <2>1 DEF SpansFit
  <2>6. UncoveredFits'
    BY <1>1, <1>2, <1>9 DEF Inv, UncoveredFits
  <2>7. AllThere'
    <3>1. ASSUME NEW s \in Nat, s < N PROVE Owned(spans', s) \/ Has(uncovered, s)
      <4>1. Owned(spans, s) \/ Has(uncovered, s) \/ (cur.sbeg <= s /\ s < cur.end)
        BY <1>6, <3>1 DEF Inv, AllThere
      <4>. QED  BY <1>1, <1>3, <1>9, <4>1
    <3>. QED  BY <1>1, <1>2, <1>9, <3>1 DEF AllThere
  <2>8. FirstThere'
    <3>1. N = 0 => 0 \in DOMAIN spans \/ 0 \in DOMAIN uncovered \/ cur.sbeg = 0
      BY <1>6, <1>9 DEF Inv, FirstThere
    <3>. QED  BY <1>1, <1>2, <1>3, <3>1 DEF FirstThere
  <2>. QED  BY <2>1, <2>2, <2>3, <2>4, <2>5, <2>6, <2>7, <2>8 DEF Inv
<1>. QED  BY <1>4, <1>7, <1>8, <1>9

\* A disk of no sectors keeps its one empty uncovered span.
LEMMA RemoveNothing ==
    ASSUME NEW m, Ordered(m), 0 \in DOMAIN m, \A b \in DOMAIN m : m[b] <= 0
    PROVE  RemoveTurn(m, 0, 0) = Done(m, 0)
<1>1. \A b \in DOMAIN m : b \in Nat /\ m[b] \in Nat /\ b <= m[b]
  BY DEF Ordered, Ends, Starting
<1>2. DOMAIN m = {0} /\ m[0] = 0
  BY <1>1
<1>3. UpTo(m, 0) = {0} /\ After(m, 0) = {}
  BY <1>2 DEF UpTo, After
<1>4. Max(UpTo(m, 0)) = 0
  <2>1. UpTo(m, 0) # {} /\ Starting(m)
    BY <1>1, <1>3 DEF Starting
  <2>2. Max(UpTo(m, 0)) \in DOMAIN m
    BY <2>1, LastUpTo
  <2>. QED  BY <1>2, <2>2
<1>5. RemoveTurn(m, 0, 0) = RemoveAbove(m, 0, 0)
  BY <1>2, <1>3, <1>4 DEF RemoveTurn
<1>. QED  BY <1>3, <1>5 DEF RemoveAbove

\* A turn of remove_span keeps the invariant.
LEMMA RemoveSpanInv == ASSUME Inv, RemoveSpan PROVE Inv'
<1>. DEFINE r == RemoveTurn(uncovered, cur.sbeg, cur.end)
<1>1. /\ pc = "remove" /\ uncovered' = r.map
      /\ cur' = IF r.done THEN NoSpan ELSE [cur EXCEPT !.sbeg = r.sbeg]
      /\ pc' = IF r.done THEN "piece" ELSE "remove"
      /\ UNCHANGED <<disk, url, chain, idx, sources, image_size, todo, pieces, spans, extents, rd>>
  BY DEF RemoveSpan
<1>2. /\ ExtentsHaveSectors' <=> ExtentsHaveSectors
      /\ N' = N
      /\ \A ex : Whole(ex, N)' <=> Whole(ex, N)
  BY <1>1, DiskKept
<1>3. /\ cur.beg \in Nat /\ cur.end \in Nat /\ cur.sbeg \in Nat
      /\ cur.beg <= cur.sbeg /\ cur.sbeg <= cur.end /\ cur \in [beg : Nat, end : Nat, sbeg : Nat]
      /\ PieceOf(Head(todo), <<cur.beg, cur.end>>)
  BY <1>1 DEF Inv, CurFits
<1>4. /\ image_size # Absent /\ N \in Nat
      /\ Good(Head(todo), N) /\ Head(todo) \in Range(todo)
  BY <1>1, PendingFacts
<1>5. Ordered(uncovered) /\ \A b \in DOMAIN uncovered : uncovered[b] <= N
  BY DEF Inv, UncoveredFits
<1>6. /\ Removes(uncovered, r, cur.sbeg, cur.end)
      /\ Apart(uncovered) /\ (cur.sbeg < cur.end \/ Clear(uncovered, cur.sbeg))
            => RemovesAll(r, cur.sbeg, cur.end)
  BY <1>3, <1>5, TurnRemoves
<1>7. InPiece' /\ InPiece /\ Walking' /\ Walking /\ Pending' = Pending
  BY <1>1 DEF InPiece, Walking, Pending
<1>8. ~r.done => /\ r.sbeg \in Nat /\ cur.sbeg <= r.sbeg /\ r.sbeg <= cur.end
                 /\ cur'.beg = cur.beg /\ cur'.end = cur.end /\ cur'.sbeg = r.sbeg
                 /\ cur' \in [beg : Nat, end : Nat, sbeg : Nat]
  <2>1. ~r.done => r.sbeg \in Nat /\ cur.sbeg <= r.sbeg /\ r.sbeg <= cur.end
    BY <1>6 DEF Removes
  <2>2. ~r.done => cur' = [cur EXCEPT !.sbeg = r.sbeg]
    BY <1>1
  <2>. HIDE DEF r
  <2>. QED  BY <1>3, <2>1, <2>2
<1>9. FirstThere'
  <2>1. SUFFICES ASSUME N = 0, 0 \notin DOMAIN spans PROVE 0 \in DOMAIN uncovered'
    BY <1>1, <1>2 DEF FirstThere
  <2>2. 0 \in DOMAIN uncovered
    BY <1>1, <1>4, <2>1 DEF Inv, FirstThere
  <2>3. cur.sbeg = 0 /\ cur.end = 0
    <3>1. Head(todo).start_sector \in Nat /\ Head(todo).sectors \in Nat
          /\ Head(todo).start_sector + Head(todo).sectors <= N
      BY <1>4 DEF Good
    <3>2. cur.end <= Head(todo).start_sector + Head(todo).sectors
      BY <1>3 DEF PieceOf
    <3>. QED  BY <1>3, <2>1, <3>1, <3>2
  <2>4. r = Done(uncovered, 0)
    BY <1>5, <2>1, <2>2, <2>3, RemoveNothing
  <2>. QED  BY <1>1, <2>2, <2>4 DEF Done
<1>. HIDE DEF r
<1>10. SizeKnown'
  BY <1>1, <1>2, <1>4 DEF Inv, SizeKnown
<1>11. TodoWhole'
  BY <1>1, <1>2, <1>7 DEF Inv, TodoWhole
<1>12. CurFits'
  <2>1. CASE r.done
    BY <1>1, <2>1 DEF CurFits, NoSpan
  <2>2. CASE ~r.done
    BY <1>1, <1>3, <1>8, <2>2 DEF CurFits
  <2>. QED  BY <2>1, <2>2
<1>13. SpansFit'
  BY <1>1, <1>7 DEF Inv, SpansFit
<1>14. UncoveredFits'
  <2>1. \A b \in DOMAIN r.map : r.map[b] <= N
    BY <1>4, <1>5, <1>6 DEF Removes
  <2>. QED  BY <1>1, <1>2, <1>4, <1>6, <2>1 DEF UncoveredFits, Removes
<1>15. \A s \in Nat : cur.beg <= s /\ s < cur.end => Owned(spans, s)
  BY <1>1 DEF Inv, AllThere
<1>16. AllThere'
  <2>1. ASSUME NEW s \in Nat, s < N PROVE Owned(spans, s) \/ Has(uncovered', s)
    <3>1. Owned(spans, s) \/ Has(uncovered, s)
      BY <1>1, <1>4, <2>1 DEF Inv, AllThere
    <3>2. CASE cur.sbeg <= s /\ s < cur.end
      BY <1>3, <1>15, <3>2
    <3>3. CASE ~(cur.sbeg <= s /\ s < cur.end)
      BY <1>1, <1>6, <3>1, <3>3 DEF Removes
    <3>. QED  BY <3>2, <3>3
  <2>2. pc' = "remove" => \A s \in Nat : cur'.beg <= s /\ s < cur'.end => Owned(spans, s)
    BY <1>1, <1>8, <1>15
  <2>. QED  BY <1>1, <1>2, <2>1, <2>2 DEF AllThere
<1>17. ASSUME ExtentsHaveSectors' PROVE CutExactly'
  <2>1. CutExactly
    BY <1>2, <1>7, <1>17 DEF Inv
  <2>2. cur.beg < cur.end
    <3>1. Head(todo).sectors > 0
      BY <1>2, <1>4, <1>17 DEF Inv, TodoWhole, Whole
    <3>. QED  BY <1>3, <3>1 DEF PieceOf
  <2>3. RemovesAll(r, cur.sbeg, cur.end)
    BY <1>1, <1>3, <1>6, <2>1, <2>2 DEF CutExactly
  <2>4. N > 0 => Filled(uncovered')
    BY <1>1, <1>6, <2>1 DEF CutExactly, Removes
  <2>5. ASSUME NEW s \in Nat, Has(uncovered', s), Owned(spans, s)
        PROVE  ~r.done /\ r.sbeg <= s /\ s < cur.end
    <3>1. Has(uncovered, s)
      BY <1>1, <1>6, <2>5 DEF Removes
    <3>2. cur.sbeg <= s /\ s < cur.end
      BY <1>1, <2>1, <2>5, <3>1 DEF CutExactly
    <3>3. ~(s < (IF r.done THEN cur.end ELSE r.sbeg))
      BY <1>1, <2>3, <2>5, <3>2 DEF RemovesAll
    <3>. QED  BY <1>8, <3>2, <3>3
  <2>6. ~r.done => Clear(uncovered', r.sbeg)
    BY <1>1, <2>3 DEF RemovesAll
  <2>7. Apart(uncovered')
    BY <1>1, <2>3 DEF RemovesAll
  <2>8. extents' # <<>> => N > 0
    BY <1>1, <2>1 DEF CutExactly
  <2>9. CASE r.done
    BY <1>1, <1>2, <2>4, <2>5, <2>7, <2>8, <2>9 DEF CutExactly
  <2>10. CASE ~r.done
    BY <1>1, <1>2, <1>8, <2>4, <2>5, <2>6, <2>7, <2>8, <2>10 DEF CutExactly
  <2>. QED  BY <2>9, <2>10
<1>. QED  BY <1>9, <1>10, <1>11, <1>12, <1>13, <1>14, <1>16, <1>17 DEF Inv

\* The end of an extent, with the early exit, keeps the invariant.
LEMMA ExtentDoneInv == ASSUME Inv, ExtentDone PROVE Inv'
<1>1. /\ pc = "piece" /\ extents' = Append(extents, Head(todo)) /\ todo' = Tail(todo)
      /\ pc' = IF DOMAIN uncovered = {} THEN "fill" ELSE "extent"
      /\ UNCHANGED <<disk, url, chain, sources, image_size, pieces, cur, spans, uncovered, rd>>
  BY DEF ExtentDone
<1>2. /\ ExtentsHaveSectors' <=> ExtentsHaveSectors
      /\ N' = N
      /\ \A ex : Whole(ex, N)' <=> Whole(ex, N)
  BY <1>1, DiskKept
<1>3. InPiece /\ Walking /\ ~InPiece' /\ Pending = Append(extents, Head(todo)) /\ Pending' = Pending
  BY <1>1 DEF InPiece, Walking, Pending
<1>4. /\ image_size # Absent /\ N \in Nat
      /\ Good(Head(todo), N) /\ Head(todo) \in Range(todo)
  BY <1>1, PendingFacts
<1>5. SizeKnown'
  BY <1>1, <1>2, <1>4 DEF Inv, SizeKnown
<1>6. TodoWhole'
  <2>1. IsSeq(todo') /\ Range(todo') \subseteq Range(todo)
    BY <1>1, <1>3, TailIs DEF Inv, TodoWhole
  <2>2. IsSeq(extents') /\ Range(extents') = Range(extents) \cup {Head(todo)}
    BY <1>1, AppendIs DEF Inv, TodoWhole
  <2>3. \A ex \in Range(extents') : Good(ex, N)
    BY <1>4, <2>2 DEF Inv, TodoWhole
  <2>4. \A ex \in Range(todo') : Whole(ex, N)
    BY <2>1 DEF Inv, TodoWhole
  <2>. QED  BY <1>2, <1>3, <2>1, <2>2, <2>3, <2>4 DEF TodoWhole
<1>7. CurFits'
  BY <1>1, <1>2 DEF Inv, CurFits
<1>8. SpansFit'
  BY <1>1, <1>3 DEF Inv, SpansFit
<1>9. UncoveredFits'
  BY <1>1, <1>2 DEF Inv, UncoveredFits
<1>10. AllThere' /\ FirstThere'
  BY <1>1, <1>2 DEF Inv, AllThere, FirstThere
<1>11. ASSUME ExtentsHaveSectors', Walking' PROVE CutExactly'
  <2>1. CutExactly
    BY <1>2, <1>3, <1>11 DEF Inv
  <2>2. DOMAIN uncovered # {}
    BY <1>1, <1>11 DEF Walking, InPiece
  <2>3. Head(todo).sectors > 0
    BY <1>2, <1>4, <1>11 DEF Inv, TodoWhole, Whole
  <2>4. N > 0
    BY <1>4, <2>3 DEF Good
  <2>. QED  BY <1>1, <1>2, <2>1, <2>2, <2>4 DEF CutExactly
<1>. QED  BY <1>5, <1>6, <1>7, <1>8, <1>9, <1>10, <1>11 DEF Inv

\* The end of an image keeps the invariant.
LEMMA ImageDoneInv == ASSUME Inv, ImageDone PROVE Inv'
<1>1. /\ pc = "extent" /\ pc' \in {"fill", "image"}
      /\ UNCHANGED <<disk, chain, idx, sources, image_size, todo, pieces, cur, spans,
                     uncovered, extents, rd>>
  BY DEF ImageDone
<1>2. /\ ExtentsHaveSectors' <=> ExtentsHaveSectors
      /\ N' = N
      /\ \A ex : Whole(ex, N)' <=> Whole(ex, N)
  BY <1>1, DiskKept
<1>3. ~InPiece /\ Walking /\ ~InPiece' /\ Pending = extents /\ Pending' = Pending
  BY <1>1 DEF InPiece, Walking, Pending
<1>4. SizeKnown'
  BY <1>1, <1>2 DEF Inv, SizeKnown
<1>5. TodoWhole'
  BY <1>1, <1>2, <1>3 DEF Inv, TodoWhole
<1>6. CurFits'
  BY <1>1, <1>2 DEF Inv, CurFits
<1>7. SpansFit'
  BY <1>1, <1>3 DEF Inv, SpansFit
<1>8. UncoveredFits'
  BY <1>1, <1>2 DEF Inv, UncoveredFits
<1>9. AllThere' /\ FirstThere'
  BY <1>1, <1>2 DEF Inv, AllThere, FirstThere
<1>10. ExtentsHaveSectors' => CutExactly'
  BY <1>1, <1>2, <1>3 DEF Inv, CutExactly
<1>. QED  BY <1>4, <1>5, <1>6, <1>7, <1>8, <1>9, <1>10 DEF Inv

\* Taking up a gap to fill with zeros keeps the invariant.
LEMMA TakeGapInv == ASSUME Inv, TakeGap PROVE Inv'
<1>. DEFINE beg == Min(DOMAIN uncovered)
<1>1. /\ pc = "fill" /\ DOMAIN uncovered # {} /\ pc' = "gap"
      /\ cur' = [beg |-> beg, end |-> uncovered[beg], sbeg |-> beg]
      /\ uncovered' = Drop(uncovered, beg)
      /\ UNCHANGED <<disk, url, chain, idx, sources, image_size, todo, pieces, spans, extents, rd>>
  BY DEF TakeGap
<1>2. /\ ExtentsHaveSectors' <=> ExtentsHaveSectors
      /\ N' = N
      /\ \A ex : Whole(ex, N)' <=> Whole(ex, N)
  BY <1>1, DiskKept
<1>3. ~InPiece /\ ~InPiece' /\ ~Walking' /\ Pending = extents /\ Pending' = Append(extents, ZeroExtent(cur'.beg, cur'.end))
  <2>1. Pending' = Append(extents', ZeroExtent(cur.beg, cur.end)')
    BY <1>1 DEF Pending, InPiece
  <2>. QED  BY <1>1, <2>1 DEF InPiece, Walking, Pending, ZeroExtent
<1>4. Ordered(uncovered) /\ \A b \in DOMAIN uncovered : uncovered[b] <= N
  BY DEF Inv, UncoveredFits
<1>5. \A b \in DOMAIN uncovered : b \in Nat /\ uncovered[b] \in Nat /\ b <= uncovered[b]
  BY <1>4 DEF Ordered, Ends, Starting
<1>6. beg \in DOMAIN uncovered /\ beg \in Nat
  BY <1>1, <1>5, LeastIs
<1>. HIDE DEF beg
<1>7. image_size # Absent /\ N \in Nat
  BY <1>1 DEF Inv, SizeKnown
<1>8. cur'.beg = beg /\ cur'.end = uncovered[beg] /\ cur'.sbeg = beg /\ cur' \in [beg : Nat, end : Nat, sbeg : Nat]
  BY <1>1, <1>5, <1>6
<1>9. /\ Ordered(Drop(uncovered, beg))
      /\ \A s \in Nat : Has(uncovered, s) /\ ~(beg <= s /\ s < uncovered[beg]) => Has(Drop(uncovered, beg), s)
  BY <1>4, <1>6, DropRemoves
<1>10. /\ DOMAIN uncovered' = DOMAIN uncovered \ {beg}
       /\ \A x \in DOMAIN uncovered' : uncovered'[x] = uncovered[x]
  BY <1>1 DEF Drop
<1>11. SizeKnown'
  BY <1>1, <1>2, <1>7 DEF Inv, SizeKnown
<1>12. TodoWhole'
  BY <1>1, <1>2, <1>3 DEF Inv, TodoWhole
<1>13. CurFits'
  BY <1>1, <1>2, <1>4, <1>5, <1>6, <1>8 DEF CurFits
<1>14. SpansFit'
  <2>1. Fits(spans, extents)
    BY <1>3 DEF Inv, SpansFit
  <2>2. Fits(spans, Append(extents, ZeroExtent(cur'.beg, cur'.end)))
    BY <2>1, FitsMore DEF Inv, TodoWhole
  <2>. QED  BY <1>1, <1>3, <2>2 DEF Inv, SpansFit
<1>15. UncoveredFits'
  BY <1>1, <1>2, <1>4, <1>7, <1>9, <1>10 DEF UncoveredFits
<1>16. AllThere'
  <2>1. ASSUME NEW s \in Nat, s < N
        PROVE  Owned(spans, s) \/ Has(uncovered', s) \/ (cur'.sbeg <= s /\ s < cur'.end)
    <3>1. Owned(spans, s) \/ Has(uncovered, s)
      BY <1>1, <1>7, <2>1 DEF Inv, AllThere
    <3>. QED  BY <1>1, <1>8, <1>9, <3>1
  <2>2. \A s \in Nat : ~(cur'.beg <= s /\ s < cur'.sbeg)
    BY <1>6, <1>8
  <2>. QED  BY <1>1, <1>2, <2>1, <2>2 DEF AllThere
<1>17. FirstThere'
  <2>1. SUFFICES ASSUME N = 0
                 PROVE  0 \in DOMAIN spans \/ 0 \in DOMAIN uncovered' \/ cur'.sbeg = 0
    BY <1>1, <1>2 DEF FirstThere
  <2>2. 0 \in DOMAIN spans \/ 0 \in DOMAIN uncovered
    BY <1>1, <1>7, <2>1 DEF Inv, FirstThere
  <2>. QED  BY <1>8, <1>10, <2>2
<1>. QED  BY <1>3, <1>11, <1>12, <1>13, <1>14, <1>15, <1>16, <1>17 DEF Inv

\* The end of opening keeps the invariant.
LEMMA OpenedInv == ASSUME Inv, Opened PROVE Inv'
<1>1. /\ pc = "fill" /\ DOMAIN uncovered = {} /\ pc' = "open" /\ todo' = <<>>
      /\ UNCHANGED <<disk, url, chain, idx, sources, image_size, pieces, cur, spans, uncovered,
                     extents, rd>>
  BY DEF Opened
<1>2. /\ ExtentsHaveSectors' <=> ExtentsHaveSectors
      /\ N' = N
  BY <1>1, DiskKept
<1>3. ~InPiece /\ ~InPiece' /\ ~Walking' /\ Pending = extents /\ Pending' = extents
  BY <1>1 DEF InPiece, Walking, Pending
<1>4. SizeKnown'
  BY <1>1, <1>2 DEF Inv, SizeKnown
<1>5. TodoWhole'
  <2>1. IsSeq(<<>>) /\ Range(<<>>) = {}
    BY DEF IsSeq, Range
  <2>. QED  BY <1>1, <1>2, <1>3, <2>1 DEF Inv, TodoWhole
<1>6. CurFits'
  BY <1>1, <1>2 DEF Inv, CurFits
<1>7. SpansFit'
  BY <1>1, <1>3 DEF Inv, SpansFit
<1>8. UncoveredFits'
  BY <1>1, <1>2 DEF Inv, UncoveredFits
<1>9. AllThere' /\ FirstThere'
  BY <1>1, <1>2 DEF Inv, AllThere, FirstThere
<1>. QED  BY <1>3, <1>4, <1>5, <1>6, <1>7, <1>8, <1>9 DEF Inv

\* Every step keeps the invariant.
LEMMA NextInv == ASSUME Inv, [Next]_vars PROVE Inv'
<1>1. CASE TakeImage
  BY <1>1, TakeImageInv
<1>2. CASE TakeExtent
  BY <1>2, TakeExtentInv
<1>3. CASE \E p \in pieces : TakePiece(p)
  BY <1>3, TakePieceInv
<1>4. CASE InsertSpan
  BY <1>4, InsertSpanInv
<1>5. CASE RemoveSpan
  BY <1>5, RemoveSpanInv
<1>6. CASE ExtentDone
  BY <1>6, ExtentDoneInv
<1>7. CASE ImageDone
  BY <1>7, ImageDoneInv
<1>8. CASE TakeGap
  BY <1>8, TakeGapInv
<1>9. CASE Opened
  BY <1>9, OpenedInv
<1>10. CASE \/ \E r \in Reads : BeginRead(r[1], r[2])
            \/ ReadSpan \/ EndRead \/ Return \/ Rest \/ UNCHANGED vars
  <2>1. UNCHANGED <<disk, pc, build>>
    BY <1>10 DEF BeginRead, ReadSpan, EndRead, Return, Rest, vars
  <2>. QED  BY <2>1, SameInv
<1>. QED  BY <1>1, <1>2, <1>3, <1>4, <1>5, <1>6, <1>7, <1>8, <1>9, <1>10 DEF Next

\* The invariant of the walk holds in every state.
THEOREM WalkInvariance == Spec => []Inv
<1>1. Init => Inv
  BY InitInv
<1>2. Inv /\ [Next]_vars => Inv'
  BY NextInv
<1>. QED  BY <1>1, <1>2, PTL DEF Spec

-----------------------------------------------------------------------------
(* What the walk promises.                                                 *)

\* The sets of the properties, in terms of the maps.
LEMMA SectorsAre ==
    ASSUME Inv, image_size # Absent
    PROVE  /\ \A s : s \in Sectors <=> s \in Nat /\ s < N
           /\ \A s : s \in Mapped <=> s \in Nat /\ s < N /\ Owned(spans, s)
           /\ \A s : s \in Missing <=> s \in Nat /\ s < N /\ Has(uncovered, s)
<1>1. N \in Nat
  BY DEF Inv, SizeKnown
<1>2. Sectors = 0 .. N - 1
  BY DEF Sectors, N
<1>3. \A s : s \in Sectors <=> s \in Nat /\ s < N
  BY <1>1, <1>2
<1>. QED  BY <1>3 DEF Mapped, Missing, Owned, Has

\* The invariant implies that the two maps agree.
LEMMA CoversExactly == ASSUME Inv PROVE UncoveredExact
<1>. SUFFICES ASSUME pc \in {"image", "extent", "piece"}, image_size # Absent
              PROVE  /\ Sectors \ Mapped \subseteq Missing
                     /\ ExtentsHaveSectors => Missing = Sectors \ Mapped
  BY DEF UncoveredExact
<1>1. /\ \A s : s \in Sectors <=> s \in Nat /\ s < N
      /\ \A s : s \in Mapped <=> s \in Nat /\ s < N /\ Owned(spans, s)
      /\ \A s : s \in Missing <=> s \in Nat /\ s < N /\ Has(uncovered, s)
  BY SectorsAre
<1>2. \A s \in Nat : s < N => Owned(spans, s) \/ Has(uncovered, s)
  BY DEF Inv, AllThere
<1>3. ExtentsHaveSectors => \A s \in Nat : ~(Has(uncovered, s) /\ Owned(spans, s))
  BY DEF Inv, CutExactly, Walking, InPiece
<1>. QED  BY <1>1, <1>2, <1>3

\* Between two spans a sector that no span has is uncovered; and with no empty extent, no
\* other is (insert_span and remove_span, called in pairs).
THEOREM UncoveredIsExact == Spec => []UncoveredExact
<1>1. Inv => UncoveredExact
  BY CoversExactly
<1>. QED  BY <1>1, WalkInvariance, PTL

\* With no empty extent the walk stops once every sector is covered: it is only the empty
\* ones that make it go on (open_with_options, "stop if we have extents for all spans").
THEOREM StopsUnlessEmpty == Spec => [](ExtentsHaveSectors => StopsWhenCovered)
<1>1. ASSUME Inv PROVE ExtentsHaveSectors => StopsWhenCovered
  <2>. SUFFICES ASSUME ExtentsHaveSectors, pc \in {"image", "extent"}, extents # <<>>, Mapped = Sectors
                PROVE  FALSE
    BY DEF StopsWhenCovered
  <2>1. image_size # Absent /\ N \in Nat
    BY <1>1 DEF Inv, SizeKnown
  <2>2. CutExactly
    BY <1>1 DEF Inv, Walking
  <2>3. N > 0 /\ Filled(uncovered) /\ DOMAIN uncovered # {}
    BY <2>1, <2>2 DEF CutExactly
  <2>4. PICK b \in DOMAIN uncovered : b \in Nat /\ uncovered[b] \in Nat /\ b < uncovered[b] /\ uncovered[b] <= N
    BY <1>1, <2>3 DEF Inv, UncoveredFits, Ordered, Ends, Starting, Filled
  <2>5. Has(uncovered, b)
    BY <2>4 DEF Has
  <2>6. b \in Mapped
    BY <1>1, <2>1, <2>4, SectorsAre
  <2>7. Owned(spans, b)
    BY <1>1, <2>1, <2>6, SectorsAre
  <2>. QED  BY <2>2, <2>4, <2>5, <2>7 DEF CutExactly
<1>2. Inv => (ExtentsHaveSectors => StopsWhenCovered)
  BY <1>1
<1>. QED  BY <1>2, WalkInvariance, PTL

-----------------------------------------------------------------------------
(* The spans in order.                                                     *)

\* Every rank from the first to the last is taken, and a greater element has a greater one.
LEMMA Ranks ==
    ASSUME NEW T \in SUBSET Nat, IsFiniteSet(T)
    PROVE  LET rank(b) == Cardinality({c \in T : c <= b})
           IN  /\ \A i \in 1 .. Cardinality(T) : \E b \in T : rank(b) = i
               /\ \A b \in T : rank(b) \in 1 .. Cardinality(T)
               /\ \A b, c \in T : b < c => rank(b) < rank(c)
<1>. DEFINE below(b) == {c \in T : c <= b}
            f == [b \in T |-> Cardinality(below(b))]
            n == Cardinality(T)
<1>1. n \in Nat
  BY FS_CardinalityType
<1>2. \A b : IsFiniteSet(below(b)) /\ below(b) \subseteq T
  <2>1. ASSUME NEW b PROVE IsFiniteSet(below(b)) /\ below(b) \subseteq T
    <3>1. below(b) \subseteq T
      OBVIOUS
    <3>. HIDE DEF below
    <3>. QED  BY <3>1, FS_Subset
  <2>. QED  BY <2>1
<1>3. ASSUME NEW b \in T PROVE f[b] \in 1 .. n
  <2>1. b \in below(b)
    OBVIOUS
  <2>. HIDE DEF below
  <2>2. Cardinality(below(b)) \in Nat
    BY <1>2, FS_CardinalityType
  <2>3. Cardinality(below(b)) # 0
    BY <1>2, <2>1, FS_EmptySet
  <2>4. Cardinality(below(b)) <= n
    BY <1>2, FS_Subset
  <2>. QED  BY <1>1, <2>2, <2>3, <2>4
<1>4. ASSUME NEW b \in T, NEW c \in T, b < c PROVE f[b] < f[c]
  <2>0. \A x \in T : x \in Nat
    OBVIOUS
  <2>1. below(b) \subseteq below(c) /\ c \in below(c) /\ c \notin below(b)
    <3>1. b \in Nat /\ c \in Nat
      BY <2>0
    <3>2. \A x \in T : x <= b => x <= c
      BY <1>4, <2>0, <3>1
    <3>3. c <= c /\ ~(c <= b)
      BY <1>4, <3>1
    <3>. QED  BY <3>2, <3>3
  <2>. HIDE DEF below
  <2>2. below(b) # below(c)
    BY <2>1
  <2>3. Cardinality(below(b)) < Cardinality(below(c))
    <3>. DEFINE B == below(b)
                C == below(c)
    <3>1. IsFiniteSet(B) /\ IsFiniteSet(C) /\ B \in SUBSET C /\ B # C
      BY <1>2, <2>1, <2>2
    <3>. HIDE DEF B, C
    <3>2. Cardinality(B) <= Cardinality(C) /\ Cardinality(C) # Cardinality(B)
      BY <3>1, FS_Subset
    <3>3. Cardinality(B) \in Nat /\ Cardinality(C) \in Nat
      BY <3>1, FS_CardinalityType
    <3>4. Cardinality(B) < Cardinality(C)
      BY <3>2, <3>3
    <3>. QED  BY <3>4 DEF B, C
  <2>. QED  BY <2>3
<1>. HIDE DEF below
<1>5. f \in Injection(T, 1 .. n)
  <2>1. \A b, c \in T : f[b] = f[c] => b = c
    <3>1. SUFFICES ASSUME NEW b \in T, NEW c \in T, f[b] = f[c] PROVE b = c
      OBVIOUS
    <3>2. f[b] \in 1 .. n /\ f[c] \in 1 .. n /\ b \in Nat /\ c \in Nat
      BY <1>3
    <3>3. ~(b < c) /\ ~(c < b)
      BY <1>4, <3>1, <3>2
    <3>. QED  BY <3>2, <3>3
  <2>. HIDE DEF n
  <2>2. f \in [T -> 1 .. n] /\ DOMAIN f = T
    BY <1>3
  <2>. HIDE DEF f
  <2>. QED  BY <2>1, <2>2 DEF Injection, IsInjective
<1>6. IsFiniteSet(1 .. n) /\ Cardinality(1 .. n) = n
  <2>. HIDE DEF n
  <2>1. IsFiniteSet(1 .. n) /\ Cardinality(1 .. n) = IF 1 > n THEN 0 ELSE n - 1 + 1
    BY <1>1, FS_Interval
  <2>. QED  BY <1>1, <2>1
<1>7. f \in Surjection(T, 1 .. n)
  BY <1>5, <1>6, FS_Injection
<1>8. \A i \in 1 .. n : \E b \in T : f[b] = i
  BY <1>7 DEF Surjection
<1>. HIDE DEF n
<1>9. \A b \in T : f[b] = Cardinality(below(b))
  OBVIOUS
<1>. HIDE DEF f
<1>. QED  BY <1>3, <1>4, <1>8, <1>9 DEF below, n

\* Starts lists the starts of the spans from the first to the last, leaving none out.
LEMMA StartsFacts ==
    ASSUME DOMAIN spans \in SUBSET Nat, IsFiniteSet(DOMAIN spans)
    PROVE  /\ Len(Starts) \in Nat /\ DOMAIN Starts = 1 .. Len(Starts)
           /\ \A i \in 1 .. Len(Starts) : Starts[i] \in DOMAIN spans
           /\ \A b \in DOMAIN spans : \E i \in 1 .. Len(Starts) : b = Starts[i]
           /\ \A i, j \in 1 .. Len(Starts) : i < j => Starts[i] < Starts[j]
           /\ \A i \in 1 .. Len(Starts) : Cardinality({c \in DOMAIN spans : c <= Starts[i]}) = i
<1>. DEFINE D == DOMAIN spans
            rank(b) == Cardinality({c \in D : c <= b})
            n == Cardinality(D)
<1>1. n \in Nat
  BY FS_CardinalityType
<1>2. /\ \A i \in 1 .. n : \E b \in D : rank(b) = i
      /\ \A b \in D : rank(b) \in 1 .. n
      /\ \A b, c \in D : b < c => rank(b) < rank(c)
  <2>. HIDE DEF D
  <2>1. D \in SUBSET Nat /\ IsFiniteSet(D)
    BY DEF D
  <2>. QED  BY <2>1, Ranks
<1>3. Starts = [i \in 1 .. n |-> CHOOSE b \in D : rank(b) = i]
  BY DEF Starts
<1>. HIDE DEF n, rank
<1>4. \A b \in D : b \in Nat
  OBVIOUS
<1>. HIDE DEF D
<1>5. ASSUME NEW i \in 1 .. n PROVE Starts[i] \in D /\ rank(Starts[i]) = i
  BY <1>2, <1>3
<1>6. Len(Starts) = n /\ DOMAIN Starts = 1 .. n
  BY <1>1, <1>3
<1>7. ASSUME NEW b \in D, NEW c \in D, rank(b) = rank(c) PROVE b = c
  <2>1. ~(b < c) /\ ~(c < b)
    BY <1>2, <1>7
  <2>. QED  BY <1>4, <2>1
<1>8. ASSUME NEW b \in D PROVE \E i \in 1 .. n : b = Starts[i]
  BY <1>2, <1>5, <1>7
<1>9. ASSUME NEW i \in 1 .. n, NEW j \in 1 .. n, i < j PROVE Starts[i] < Starts[j]
  <2>1. ~(Starts[j] < Starts[i])
    BY <1>2, <1>5, <1>9
  <2>2. Starts[i] # Starts[j]
    BY <1>5, <1>9
  <2>. QED  BY <1>4, <1>5, <2>1, <2>2
<1>10. \A i \in 1 .. n : rank(Starts[i]) = i
  BY <1>5
<1>. QED  BY <1>1, <1>5, <1>6, <1>8, <1>9, <1>10 DEF D, rank

\* Without gaps and overlaps, the spans in order tile the disk.
LEMMA OpenTiles == ASSUME Inv PROVE SpansTile
<1>. SUFFICES ASSUME pc = "open"
              PROVE  LET n == Len(Starts)
                     IN  /\ n > 0 /\ Starts[1] = 0
                         /\ \A i \in 1 .. n :
                              LET b == Starts[i] IN
                              /\ i < n => spans[b].end = Starts[i + 1]
                              /\ i = n => spans[b].end * SECTOR_SIZE = image_size
                              /\ spans[b].val \in DOMAIN extents
                              /\ LET ex == extents[spans[b].val]
                                 IN  ex.start_sector <= b /\ spans[b].end <= ex.start_sector + ex.sectors
  BY DEF SpansTile
<1>. DEFINE n == Len(Starts)
<1>1. image_size # Absent /\ N \in Nat /\ image_size = N * SECTOR_SIZE
  BY DEF Inv, SizeKnown
<1>2. /\ \A b \in DOMAIN spans : b \in Nat /\ spans[b].end \in Nat /\ b <= spans[b].end
      /\ \A b, c \in DOMAIN spans : b < c => spans[b].end <= c
      /\ IsFiniteSet(DOMAIN spans)
  BY DEF Inv, SpansFit, Tidy, Starting
<1>3. /\ n \in Nat /\ DOMAIN Starts = 1 .. n
      /\ \A i \in 1 .. n : Starts[i] \in DOMAIN spans
      /\ \A b \in DOMAIN spans : \E i \in 1 .. n : b = Starts[i]
      /\ \A i, j \in 1 .. n : i < j => Starts[i] < Starts[j]
  BY <1>2, StartsFacts
<1>. HIDE DEF n
<1>4. DOMAIN uncovered = {}
  BY DEF Inv, UncoveredFits
<1>5. ASSUME NEW s \in Nat, s < N PROVE \E b \in DOMAIN spans : b <= s /\ s < spans[b].end
  BY <1>1, <1>4, <1>5 DEF Inv, AllThere, Has, Owned
<1>6. \A b \in DOMAIN spans : /\ spans[b].val \in DOMAIN extents
                              /\ extents[spans[b].val].start_sector <= b
                              /\ spans[b].end <= extents[spans[b].val].start_sector + extents[spans[b].val].sectors
  <2>1. Pending = extents
    BY DEF Pending, InPiece
  <2>. QED  BY <2>1 DEF Inv, SpansFit, Fits, Inside
<1>7. ASSUME NEW b \in DOMAIN spans PROVE spans[b].end <= N
  <2>1. extents[spans[b].val] \in Range(extents)
    BY <1>6 DEF Range
  <2>2. Good(extents[spans[b].val], N)
    BY <2>1 DEF Inv, TodoWhole
  <2>3. PICK x \in Nat : x = extents[spans[b].val].start_sector + extents[spans[b].val].sectors /\ x <= N
    BY <2>2 DEF Good
  <2>. QED  BY <1>1, <1>2, <1>6, <2>3
<1>8. 0 \in DOMAIN spans
  <2>1. CASE N = 0
    BY <1>1, <1>4, <2>1 DEF Inv, FirstThere
  <2>2. CASE N # 0
    <3>1. PICK b \in DOMAIN spans : b <= 0
      BY <1>1, <1>5, <2>2
    <3>. QED  BY <1>2, <3>1
  <2>. QED  BY <2>1, <2>2
<1>9. n > 0 /\ Starts[1] = 0
  <2>1. PICK i \in 1 .. n : Starts[i] = 0
    BY <1>3, <1>8
  <2>2. 1 \in 1 .. n /\ Starts[1] \in Nat
    BY <1>2, <1>3, <2>1
  <2>3. ~(1 < i)
    BY <1>2, <1>3, <2>1, <2>2
  <2>. QED  BY <1>3, <2>1, <2>3
\* A span that ends before the disk does is followed by one that starts there.
<1>10. ASSUME NEW i \in 1 .. n, spans[Starts[i]].end < N
       PROVE  i < n /\ Starts[i + 1] = spans[Starts[i]].end
  <2>. DEFINE e == spans[Starts[i]].end
  <2>1. Starts[i] \in DOMAIN spans /\ Starts[i] \in Nat /\ e \in Nat /\ Starts[i] <= e
    BY <1>2, <1>3
  <2>2. PICK a \in DOMAIN spans : a <= e /\ e < spans[a].end
    BY <1>5, <1>10, <2>1
  <2>. HIDE DEF e
  <2>3. a \in Nat /\ spans[a].end \in Nat
    BY <1>2
  <2>4. ~(a < Starts[i])
    <3>1. a < Starts[i] => spans[a].end <= Starts[i]
      BY <1>2, <2>1
    <3>. QED  BY <2>1, <2>2, <2>3, <3>1
  <2>5. a # Starts[i]
    BY <2>1, <2>2 DEF e
  <2>6. Starts[i] < a
    BY <2>1, <2>3, <2>4, <2>5
  <2>7. PICK j \in 1 .. n : a = Starts[j]
    BY <1>3
  <2>8. i < j
    <3>1. ~(j < i) /\ j # i
      BY <1>3, <2>1, <2>3, <2>6, <2>7
    <3>. QED  BY <3>1
  <2>9. i + 1 \in 1 .. n /\ i < n
    BY <1>3, <2>8
  <2>10. Starts[i + 1] \in DOMAIN spans /\ Starts[i] < Starts[i + 1] /\ Starts[i + 1] \in Nat
    BY <1>2, <1>3, <2>9
  <2>11. e <= Starts[i + 1]
    BY <1>2, <2>1, <2>10 DEF e
  <2>12. Starts[i + 1] <= a
    <3>1. i + 1 = j \/ i + 1 < j
      BY <2>8
    <3>2. i + 1 < j => Starts[i + 1] < a
      BY <1>3, <2>7, <2>9
    <3>. QED  BY <2>3, <2>7, <2>10, <3>1, <3>2
  <2>. QED  BY <2>1, <2>2, <2>3, <2>9, <2>10, <2>11, <2>12 DEF e
<1>11. ASSUME NEW i \in 1 .. n
       PROVE  /\ i < n => spans[Starts[i]].end = Starts[i + 1]
              /\ i = n => spans[Starts[i]].end * SECTOR_SIZE = image_size
  <2>1. Starts[i] \in DOMAIN spans
    BY <1>3
  <2>2. spans[Starts[i]].end \in Nat /\ spans[Starts[i]].end <= N
    BY <1>2, <1>7, <2>1
  <2>3. i = n => spans[Starts[i]].end = N
    BY <1>1, <1>3, <1>10, <2>2
  <2>4. ASSUME i < n PROVE spans[Starts[i]].end < N \/ spans[Starts[i]].end = Starts[i + 1]
    <3>1. i + 1 \in 1 .. n
      BY <1>3, <2>4
    <3>2. Starts[i + 1] \in DOMAIN spans /\ Starts[i] < Starts[i + 1]
      BY <1>3, <3>1
    <3>3. spans[Starts[i]].end <= Starts[i + 1]
      BY <1>2, <2>1, <3>2
    <3>4. Starts[i + 1] \in Nat /\ Starts[i + 1] <= spans[Starts[i + 1]].end /\ spans[Starts[i + 1]].end <= N
          /\ spans[Starts[i + 1]].end \in Nat
      BY <1>2, <1>7, <3>2
    <3>. QED  BY <1>1, <2>2, <3>3, <3>4
  <2>5. i < n => spans[Starts[i]].end = Starts[i + 1]
    BY <1>10, <2>4
  <2>. QED  BY <1>1, <2>3, <2>5
<1>12. \A i \in 1 .. n : Starts[i] \in DOMAIN spans
  BY <1>3
<1>. QED  BY <1>6, <1>9, <1>11, <1>12 DEF n

\* An open image is tiled: its spans follow one another from sector 0 to the end, each
\* within its extent (open_with_options; read_at_offset relies on it).
THEOREM ImagesAreTiled == Spec => []SpansTile
<1>1. Inv => SpansTile
  BY OpenTiles
<1>. QED  BY <1>1, WalkInvariance, PTL

-----------------------------------------------------------------------------
(* The chain.                                                              *)

ChainOnce == IsSeq(chain) /\ IsInjective(chain)

\* No image is in the chain twice, whatever the parent hints say (visited.insert in
\* open_with_options).
THEOREM ChainsAreOnce == Spec => []ImagesOnce
<1>1. Init => ChainOnce
  BY DEF Init, ChainOnce, IsSeq, Range, IsInjective
<1>2. ASSUME ChainOnce, [Next]_vars PROVE ChainOnce'
  <2>1. CASE UNCHANGED chain
    BY <1>2, <2>1 DEF ChainOnce
  <2>2. CASE TakeImage /\ ~Refuses(url)
    <3>1. chain' = Append(chain, url) /\ url \notin Range(chain)
      BY <2>2 DEF TakeImage, Refuses, Seen
    <3>. DEFINE c == chain'
    <3>2. /\ IsSeq(c) /\ Len(c) = Len(chain) + 1
          /\ \A i \in 1 .. Len(chain) : c[i] = chain[i]
          /\ c[Len(chain) + 1] = url
      BY <1>2, <3>1, AppendIs DEF ChainOnce
    <3>3. DOMAIN c = 1 .. Len(chain) + 1
      <4>. HIDE DEF c
      <4>. QED  BY <3>2, SeqFacts
    <3>4. Len(chain) \in Nat /\ DOMAIN chain = 1 .. Len(chain) /\ \A i \in 1 .. Len(chain) : chain[i] \in Range(chain)
      BY <1>2, SeqFacts DEF ChainOnce
    <3>. HIDE DEF c
    <3>5. ASSUME NEW a \in DOMAIN c, NEW b \in DOMAIN c, c[a] = c[b] PROVE a = b
      <4>1. CASE a \in 1 .. Len(chain) /\ b \in 1 .. Len(chain)
        BY <1>2, <3>2, <3>4, <3>5, <4>1 DEF ChainOnce, IsInjective
      <4>2. CASE ~(a \in 1 .. Len(chain)) /\ b \in 1 .. Len(chain)
        BY <3>1, <3>2, <3>3, <3>4, <3>5, <4>2
      <4>3. CASE a \in 1 .. Len(chain) /\ ~(b \in 1 .. Len(chain))
        BY <3>1, <3>2, <3>3, <3>4, <3>5, <4>3
      <4>4. CASE ~(a \in 1 .. Len(chain)) /\ ~(b \in 1 .. Len(chain))
        BY <3>3, <3>4, <4>4
      <4>. QED  BY <4>1, <4>2, <4>3, <4>4
    <3>. QED  BY <3>2, <3>5 DEF ChainOnce, IsInjective, c
  <2>. QED  BY <1>2, <2>1, <2>2 DEF Next, vars, build, TakeImage, TakeExtent, TakePiece, InsertSpan,
                RemoveSpan, ExtentDone, ImageDone, TakeGap, Opened, BeginRead, ReadSpan, EndRead,
                Return, Rest
<1>3. ChainOnce => ImagesOnce
  BY DEF ChainOnce, ImagesOnce
<1>. QED  BY <1>1, <1>2, <1>3, PTL DEF Spec

-----------------------------------------------------------------------------
(* Quotients.                                                              *)

\* A quotient and its remainder, and that there are no others.
LEMMA Quotient ==
    ASSUME NEW n \in Nat, NEW d \in Nat \ {0}
    PROVE  /\ n \div d \in Nat /\ n % d \in 0 .. d - 1
           /\ n = (n \div d) * d + (n % d)
           /\ \A q \in Nat, r \in 0 .. d - 1 : n = q * d + r => n \div d = q /\ n % d = r
<1>1. n \div d \in Nat /\ n % d \in 0 .. d - 1 /\ n = d * (n \div d) + (n % d)
  OBVIOUS
<1>. DEFINE a == n \div d
            b == n % d
<1>2. n = a * d + b
  BY <1>1
<1>3. ASSUME NEW q \in Nat, NEW r \in 0 .. d - 1, n = q * d + r PROVE a = q /\ b = r
  <2>0. a \in Nat /\ b \in 0 .. d - 1
    BY <1>1
  <2>. HIDE DEF a, b
  <2>1. ~(a < q)
    <3>1. SUFFICES ASSUME a < q PROVE FALSE
      OBVIOUS
    <3>2. PICK k \in Nat : q = a + 1 + k
      BY <2>0, <3>1
    <3>3. q * d = a * d + d + k * d
      BY <2>0, <3>2
    <3>4. k * d \in Nat /\ a * d \in Nat
      BY <2>0
    <3>. QED  BY <1>2, <1>3, <2>0, <3>3, <3>4
  <2>2. ~(q < a)
    <3>1. SUFFICES ASSUME q < a PROVE FALSE
      OBVIOUS
    <3>2. PICK k \in Nat : a = q + 1 + k
      BY <2>0, <3>1
    <3>3. a * d = q * d + d + k * d
      BY <2>0, <3>2
    <3>4. k * d \in Nat /\ q * d \in Nat
      BY <2>0
    <3>. QED  BY <1>2, <1>3, <2>0, <3>3, <3>4
  <2>3. a = q
    BY <2>0, <2>1, <2>2
  <2>. QED  BY <1>2, <1>3, <2>0, <2>3
<1>. QED  BY <1>1, <1>2, <1>3

\* A quotient against a bound.
LEMMA QuotientBounds ==
    ASSUME NEW n \in Nat, NEW d \in Nat \ {0}, NEW k \in Nat
    PROVE  /\ n \div d < k <=> n < k * d
           /\ k <= n \div d <=> k * d <= n
<1>. DEFINE a == n \div d
            b == n % d
<1>1. a \in Nat /\ b \in 0 .. d - 1 /\ n = a * d + b
  BY Quotient
<1>. HIDE DEF a, b
<1>2. a < k => n < k * d
  <2>1. SUFFICES ASSUME a < k PROVE n < k * d
    OBVIOUS
  <2>2. PICK j \in Nat : k = a + 1 + j
    BY <1>1, <2>1
  <2>3. k * d = a * d + d + j * d /\ j * d \in Nat
    BY <1>1, <2>2
  <2>. QED  BY <1>1, <2>3
<1>3. k <= a => k * d <= n
  <2>1. SUFFICES ASSUME k <= a PROVE k * d <= n
    OBVIOUS
  <2>2. PICK j \in Nat : a = k + j
    BY <1>1, <2>1
  <2>3. a * d = k * d + j * d /\ j * d \in Nat
    BY <1>1, <2>2
  <2>4. k * d \in Nat
    OBVIOUS
  <2>. QED  BY <1>1, <2>3, <2>4
<1>4. k * d \in Nat
  OBVIOUS
<1>. QED  BY <1>1, <1>2, <1>3, <1>4 DEF a

\* Dividing twice is dividing by the product.
LEMMA TwoQuotients ==
    ASSUME NEW n \in Nat, NEW c \in Nat \ {0}, NEW d \in Nat \ {0}
    PROVE  (n \div d) \div c = n \div (c * d)
<1>. DEFINE a == n \div d
            b == n % d
            e == a \div c
            f == a % c
<1>1. a \in Nat /\ b \in 0 .. d - 1 /\ n = a * d + b
  BY Quotient
<1>2. e \in Nat /\ f \in 0 .. c - 1 /\ a = e * c + f
  <2>. HIDE DEF a
  <2>. QED  BY <1>1, Quotient
<1>. HIDE DEF a, b, e, f
<1>3. c * d \in Nat \ {0}
  OBVIOUS
<1>4. n = e * (c * d) + (f * d + b)
  <2>1. a * d = (e * c) * d + f * d
    BY <1>2
  <2>2. (e * c) * d = e * (c * d)
    BY <1>2
  <2>3. f * d \in Nat /\ e * (c * d) \in Nat
    BY <1>2, <1>3
  <2>. QED  BY <1>1, <2>1, <2>2, <2>3
<1>5. f * d + b \in 0 .. c * d - 1
  <2>1. PICK k \in Nat : c = f + 1 + k
    BY <1>2
  <2>2. c * d = f * d + d + k * d /\ k * d \in Nat /\ f * d \in Nat
    BY <1>2, <2>1
  <2>. QED  BY <1>1, <2>2
<1>. DEFINE m == c * d
            r == f * d + b
<1>6. m \in Nat \ {0} /\ r \in 0 .. m - 1 /\ n = e * m + r
  BY <1>3, <1>4, <1>5
<1>. HIDE DEF m, r
<1>7. n \div m = e
  BY <1>2, <1>6, Quotient
<1>. QED  BY <1>7 DEF e, a, m

\* A multiple of the divisor comes off a quotient whole.
LEMMA QuotientLess ==
    ASSUME NEW n \in Nat, NEW d \in Nat \ {0}, NEW k \in Nat, k <= n \div d
    PROVE  n - k * d \in Nat /\ (n - k * d) \div d = n \div d - k
<1>. DEFINE a == n \div d
            b == n % d
<1>1. a \in Nat /\ b \in 0 .. d - 1 /\ n = a * d + b
  BY Quotient
<1>0. k <= a
  OBVIOUS
<1>. HIDE DEF a, b
<1>2. PICK j \in Nat : a = k + j
  BY <1>0, <1>1
<1>3. a * d = k * d + j * d /\ j * d \in Nat /\ k * d \in Nat
  BY <1>2
<1>4. n - k * d = j * d + b
  BY <1>1, <1>3
<1>. DEFINE x == n - k * d
<1>5. x \in Nat /\ x = j * d + b
  BY <1>1, <1>3, <1>4
<1>. HIDE DEF x
<1>6. x \div d = j
  BY <1>1, <1>5, Quotient
<1>. QED  BY <1>0, <1>1, <1>2, <1>5, <1>6 DEF x, a

\* As far as the remainder allows, the quotient stays.
LEMMA QuotientStays ==
    ASSUME NEW n \in Nat, NEW d \in Nat \ {0}, NEW k \in Nat, (n % d) + k < d
    PROVE  (n + k) \div d = n \div d /\ (n + k) % d = (n % d) + k
<1>. DEFINE a == n \div d
            b == n % d
<1>1. a \in Nat /\ b \in 0 .. d - 1 /\ n = a * d + b
  BY Quotient
<1>2. b + k < d
  OBVIOUS
<1>. HIDE DEF a, b
<1>3. a * d \in Nat
  BY <1>1
<1>4. n + k = a * d + (b + k) /\ b + k \in 0 .. d - 1 /\ n + k \in Nat
  BY <1>1, <1>2, <1>3
<1>. DEFINE x == n + k
            c == b + k
<1>5. x \in Nat /\ c \in 0 .. d - 1 /\ x = a * d + c
  BY <1>4
<1>. HIDE DEF x, c
<1>6. x \div d = a /\ x % d = c
  BY <1>1, <1>5, Quotient
<1>. QED  BY <1>6 DEF a, b, c, x

-----------------------------------------------------------------------------
(* Grain tables in a row.                                                  *)

\* f[i] is the first i of ts, one after another.
Flattened(ts, f, m) == f = [i \in 1 .. m |-> IF i = 1 THEN ts[i] ELSE f[i - 1] \o ts[i]]

\* The recursive function of the sequences in a row exists up to any length.
LEMMA FlattenExists == ASSUME NEW ts, NEW m \in Nat PROVE \E f : Flattened(ts, f, m)
<1>. DEFINE Fine == {k \in Nat : \E f : Flattened(ts, f, k)}
<1>1. 0 \in Fine
  <2>. DEFINE h == [i \in 1 .. 0 |-> 0]
  <2>1. h = [i \in 1 .. 0 |-> IF i = 1 THEN ts[i] ELSE h[i - 1] \o ts[i]]
    <3>1. \A i \in 1 .. 0 : FALSE
      OBVIOUS
    <3>. QED  BY <3>1
  <2>2. Flattened(ts, h, 0)
    <3>. HIDE DEF h
    <3>. QED  BY <2>1 DEF Flattened
  <2>. QED  BY <2>2
<1>2. ASSUME NEW k \in 1 .. m, k - 1 \in Fine PROVE k \in Fine
  <2>1. PICK f : Flattened(ts, f, k - 1)
    BY <1>2
  <2>. DEFINE h == [i \in 1 .. k |-> IF i = 1 THEN ts[i] ELSE f[i - 1] \o ts[i]]
  <2>2. \A i \in 1 .. k - 1 : h[i] = f[i]
    <3>1. \A i \in 1 .. k - 1 : f[i] = IF i = 1 THEN ts[i] ELSE f[i - 1] \o ts[i]
      BY <2>1, Zenon DEF Flattened
    <3>2. \A i \in 1 .. k - 1 : i \in 1 .. k
      OBVIOUS
    <3>. QED  BY <3>1, <3>2
  <2>3. \A i \in 1 .. k : i # 1 => i - 1 \in 1 .. k - 1
    OBVIOUS
  <2>4. Flattened(ts, h, k)
    <3>1. \A i \in 1 .. k : (IF i = 1 THEN ts[i] ELSE f[i - 1] \o ts[i]) = (IF i = 1 THEN ts[i] ELSE h[i - 1] \o ts[i])
      BY <2>2, <2>3
    <3>. QED  BY <3>1 DEF Flattened
  <2>. QED  BY <2>4, k \in Nat
<1>3. 0 .. m \subseteq Fine
  <2>. HIDE DEF Fine
  <2>. QED  BY <1>1, <1>2, UpwardTo
<1>4. m \in Fine
  BY <1>3
<1>. QED  BY <1>4

Both(s, t) == s \o t

Row(s, n, S) == s \in [1 .. n -> S]

\* w is a elements of s, then b of t.
Joins(w, s, a, t, b) ==
    /\ \A x \in 1 .. a : w[x] = s[x]
    /\ \A x \in a + 1 .. a + b : w[x] = t[x - a]

\* Two sequences one after another.
LEMMA Joined ==
    ASSUME NEW S, NEW a \in Nat, NEW b \in Nat, NEW s, NEW t, Row(s, a, S), Row(t, b, S)
    PROVE  Row(Both(s, t), a + b, S) /\ Joins(Both(s, t), s, a, t, b)
<1>0. s \in [1 .. a -> S] /\ t \in [1 .. b -> S]
  BY DEF Row
<1>1. s \in Seq(S) /\ t \in Seq(S)
  BY <1>0
<1>2. Len(s) = a /\ Len(t) = b
  <2>1. Len(s) \in Nat /\ DOMAIN s = 1 .. Len(s) /\ Len(t) \in Nat /\ DOMAIN t = 1 .. Len(t)
    BY <1>1, LenProperties
  <2>2. DOMAIN s = 1 .. a /\ DOMAIN t = 1 .. b
    BY <1>0
  <2>3. \A i, k \in Nat : 1 .. i = 1 .. k => i = k
    <3>1. SUFFICES ASSUME NEW i \in Nat, NEW k \in Nat, 1 .. i = 1 .. k, i < k PROVE FALSE
      OBVIOUS
    <3>2. k \in 1 .. k /\ k \notin 1 .. i
      BY <3>1
    <3>. QED  BY <3>1, <3>2
  <2>. QED  BY <2>1, <2>2, <2>3
<1>. DEFINE w == Both(s, t)
<1>3. /\ w \in Seq(S) /\ Len(w) = Len(s) + Len(t)
      /\ \A x \in 1 .. Len(s) + Len(t) : w[x] = IF x <= Len(s) THEN s[x] ELSE t[x - Len(s)]
  BY <1>1, ConcatProperties DEF Both
<1>. HIDE DEF w
<1>4. w \in [1 .. a + b -> S]
  BY <1>2, <1>3, LenProperties
<1>. QED  BY <1>2, <1>3, <1>4 DEF w, Row, Joins

\* f has the n tables of ts, of L entries each, one after another.
Tabled(f, ts, n, L) ==
    /\ Len(f) = n * L
    /\ \A x \in 0 .. n * L - 1 : f[x + 1] = ts[(x \div L) + 1][(x % L) + 1]

\* Tables of one length in a row: the entry is found by quotient and remainder.
LEMMA FlattenIs ==
    ASSUME NEW n \in Nat, NEW L \in Nat \ {0}, NEW S, NEW ts \in [1 .. n -> [1 .. L -> S]]
    PROVE  Tabled(FlattenSeq(ts), ts, n, L)
<1>. SUFFICES /\ Len(FlattenSeq(ts)) = n * L
              /\ \A x \in 0 .. n * L - 1 : FlattenSeq(ts)[x + 1] = ts[(x \div L) + 1][(x % L) + 1]
  BY DEF Tabled
<1>0. Len(ts) = n
  <2>1. ts \in Seq([1 .. L -> S])
    OBVIOUS
  <2>2. Len(ts) \in Nat /\ DOMAIN ts = 1 .. Len(ts) /\ DOMAIN ts = 1 .. n
    BY <2>1, LenProperties
  <2>. QED  BY <2>2
<1>1. CASE n = 0
  <2>1. FlattenSeq(ts) = ts
    BY <1>0, <1>1 DEF FlattenSeq
  <2>2. n * L = 0
    BY <1>1
  <2>. QED  BY <1>0, <1>1, <2>1, <2>2
<1>2. CASE n # 0
  <2>. DEFINE f == CHOOSE g : Flattened(ts, g, n)
  <2>1. Flattened(ts, f, n)
    BY FlattenExists
  <2>2. FlattenSeq(ts) = f[n]
    BY <1>0, <1>2 DEF FlattenSeq, Flattened
  <2>. HIDE DEF f
  <2>3. f[1] = ts[1] /\ \A i \in 2 .. n : f[i] = Both(f[i - 1], ts[i])
    <3>1. \A i \in 1 .. n : f[i] = IF i = 1 THEN ts[i] ELSE Both(f[i - 1], ts[i])
      BY <2>1, Zenon DEF Flattened, Both
    <3>2. 1 \in 1 .. n /\ \A i \in 2 .. n : i \in 1 .. n /\ i # 1
      BY <1>2
    <3>. QED  BY <3>1, <3>2, Zenon
  <2>. DEFINE Nth(x) == ts[(x \div L) + 1][(x % L) + 1]
              Is(i) == f[i] \in [1 .. i * L -> S] /\ \A x \in 0 .. i * L - 1 : f[i][x + 1] = Nth(x)
              G == {j \in 0 .. n - 1 : Is(j + 1)}
  <2>4. Is(1)
    <3>1. 1 * L = L /\ 1 \in 1 .. n
      BY <1>2
    <3>2. ts[1] \in [1 .. L -> S]
      BY <3>1
    <3>3. ASSUME NEW x \in 0 .. L - 1 PROVE x \div L = 0 /\ x % L = x
      <4>1. x \in Nat /\ x = 0 * L + x
        OBVIOUS
      <4>. QED  BY <4>1, Quotient
    <3>4. ASSUME NEW x \in 0 .. L - 1 PROVE f[1][x + 1] = Nth(x)
      <4>1. x \div L = 0 /\ x % L = x /\ 0 + 1 = 1
        BY <3>3
      <4>. QED  BY <2>3, <4>1, Zenon
    <3>. QED  BY <2>3, <3>1, <3>2, <3>4
  <2>5. ASSUME NEW j \in 1 .. n - 1, j - 1 \in G PROVE j \in G
    <3>1. Is(j)
      BY <2>5
    <3>2. j \in 0 .. n - 1 /\ j + 1 \in 2 .. n /\ j + 1 \in 1 .. n /\ j + 1 - 1 = j
      OBVIOUS
    <3>3. f[j + 1] = Both(f[j], ts[j + 1]) /\ ts[j + 1] \in [1 .. L -> S]
      <4>1. ts[j + 1] \in [1 .. L -> S]
        BY <3>2
      <4>2. f[j + 1] = Both(f[j + 1 - 1], ts[j + 1])
        BY <2>3, <3>2
      <4>. QED  BY <3>2, <4>1, <4>2
    <3>4. PICK a \in Nat : a = j * L
      BY <3>2
    <3>5. (j + 1) * L = a + L
      BY <3>2, <3>4
    <3>6. f[j] \in [1 .. a -> S] /\ \A x \in 0 .. a - 1 : f[j][x + 1] = Nth(x)
      BY <3>1, <3>4
    <3>. HIDE DEF Nth
    <3>7. /\ f[j + 1] \in [1 .. a + L -> S]
          /\ \A x \in 1 .. a : f[j + 1][x] = f[j][x]
          /\ \A x \in a + 1 .. a + L : f[j + 1][x] = ts[j + 1][x - a]
      <4>0. PICK s, t : s = f[j] /\ t = ts[j + 1]
        OBVIOUS
      <4>1. s \in [1 .. a -> S] /\ t \in [1 .. L -> S] /\ L \in Nat
        BY <3>3, <3>6, <4>0
      <4>2. f[j + 1] = Both(s, t)
        BY <3>3, <4>0
      <4>3. Row(Both(s, t), a + L, S) /\ Joins(Both(s, t), s, a, t, L)
        <5>1. Row(s, a, S) /\ Row(t, L, S)
          BY <4>1 DEF Row
        <5>. QED  BY <4>1, <5>1, Joined
      <4>. QED  BY <4>0, <4>2, <4>3 DEF Row, Joins
    <3>8. ASSUME NEW x \in 0 .. a + L - 1 PROVE f[j + 1][x + 1] = Nth(x)
      <4>1. CASE x < a
        <5>1. x \in 0 .. a - 1 /\ x + 1 \in 1 .. a
          BY <4>1
        <5>. QED  BY <3>6, <3>7, <5>1
      <4>2. CASE ~(x < a)
        <5>1. x - a \in 0 .. L - 1 /\ x + 1 \in a + 1 .. a + L /\ x = a + (x - a) /\ x \in Nat /\ x + 1 - a = x - a + 1
          BY <4>2
        <5>. DEFINE r == x - a
        <5>2. r \in 0 .. L - 1 /\ x = j * L + r /\ j \in Nat
          BY <3>2, <3>4, <5>1
        <5>. HIDE DEF r
        <5>3. x \div L = j /\ x % L = r
          <6>1. \A q \in Nat, b \in 0 .. L - 1 : x = q * L + b => x \div L = q /\ x % L = b
            BY <5>1, Quotient
          <6>. QED  BY <5>2, <6>1, Zenon
        <5>4. f[j + 1][x + 1] = ts[j + 1][r + 1]
          BY <3>7, <5>1 DEF r
        <5>. QED  BY <5>3, <5>4 DEF Nth
      <4>. QED  BY <4>1, <4>2
    <3>9. Is(j + 1)
      <4>. DEFINE F == f[j + 1]
      <4>1. F \in [1 .. a + L -> S] /\ \A x \in 0 .. a + L - 1 : F[x + 1] = Nth(x)
        BY <3>7, <3>8
      <4>. HIDE DEF F
      <4>2. F \in [1 .. (j + 1) * L -> S] /\ \A x \in 0 .. (j + 1) * L - 1 : F[x + 1] = Nth(x)
        BY ONLY <3>5, <4>1
      <4>. QED  BY <4>2 DEF F
    <3>. QED  BY <3>2, <3>9
  <2>6. 0 .. n - 1 \subseteq G
    <3>1. n - 1 \in Nat /\ 0 \in 0 .. n - 1
      BY <1>2
    <3>2. 0 \in G
      BY <2>4, <3>1
    <3>. HIDE DEF G
    <3>. QED  BY <2>5, <3>1, <3>2, UpwardTo
  <2>7. Is(n)
    <3>0. n - 1 \in 0 .. n - 1 /\ n - 1 + 1 = n
      BY <1>2
    <3>. HIDE DEF Is
    <3>1. n - 1 \in G /\ n - 1 + 1 = n
      BY <2>6, <3>0
    <3>. QED  BY <3>1
  <2>8. Len(f[n]) = n * L
    <3>1. n * L \in Nat
      OBVIOUS
    <3>2. f[n] \in Seq(S) /\ DOMAIN f[n] = 1 .. n * L
      BY <2>7, <3>1
    <3>3. Len(f[n]) \in Nat /\ DOMAIN f[n] = 1 .. Len(f[n])
      BY <3>2, LenProperties
    <3>. QED  BY <3>1, <3>2, <3>3
  <2>. QED  BY <2>2, <2>7, <2>8
<1>. QED  BY <1>1, <1>2

-----------------------------------------------------------------------------
(* Grain tables and what they say.                                         *)

\* Grains of some size, tables of some length, with an entry for each of their grains.
Sound(m) ==
    /\ m.sectors \in Nat /\ m.cluster_sectors \in Nat \ {0} /\ m.l2_len \in Nat \ {0}
    /\ IsSeq(m.l1)
    /\ \A k \in DOMAIN m.l1 : m.l1[k] # Absent => m.l1[k] \in [1 .. m.l2_len -> Nat]

\* What is made of a header that is not refused is sound.
LEMMA MetaSound ==
    ASSUME disk \in Disks, NEW u \in DOMAIN disk.images, NEW i \in DOMAIN disk.images[u].extents,
           disk.images[u].extents[i].kind \in SparseKinds, ~HeaderFails(disk.images[u].extents[i])
    PROVE  Sound(Meta(disk.images[u].extents[i].header))
<1>. DEFINE ed == disk.images[u].extents[i]
            h == ed.header
            m == Meta(h)
<1>1. m.sectors \in Nat /\ m.cluster_sectors \in Nat \ {0}
  BY MetaFacts
<1>2. ed \in Range(disk.images[u].extents)
  BY DEF Range
<1>3. /\ m.l1 \in Seq(Range(m.l1))
      /\ \A k \in DOMAIN m.l1 : m.l1[k] # Absent => m.l1[k] \in [1 .. m.l2_len -> Nat]
  <2>. HIDE DEF ed
  <2>1. ed.kind \in SparseKinds /\ ~HeaderFails(ed)
    BY DEF ed
  <2>. QED  BY <1>2, <2>1, TablesAssumption
<1>4. h.ft \in {"sesparse", "vmdk3", "vmdk4"} /\ (h.ft = "vmdk4" => h.num_gtes_per_gt \in 1 .. MAX_GTES)
  BY DEF HeaderFails, SparseKinds
<1>5. {COWD_L2_LEN, SE_L2_LEN, MAX_GTES} \subseteq Nat \ {0}
  BY VmdkAssumption
<1>6. m.l2_len = CASE h.ft = "vmdk3" -> COWD_L2_LEN
                  [] h.ft = "sesparse" -> SE_L2_LEN
                  [] h.ft = "vmdk4" -> h.num_gtes_per_gt
  <2>. HIDE DEF h
  <2>. QED  BY DEF Meta
<1>. HIDE DEF h
<1>7. m.l2_len \in Nat \ {0}
  <2>1. \A n \in Nat \ {0} : \A x \in 1 .. n : x \in Nat \ {0}
    OBVIOUS
  <2>2. h.ft = "vmdk4" => h.num_gtes_per_gt \in Nat \ {0}
    BY <1>4, <1>5, <2>1
  <2>3. m.l2_len \in {COWD_L2_LEN, SE_L2_LEN} \/ (h.ft = "vmdk4" /\ m.l2_len = h.num_gtes_per_gt)
    BY <1>4, <1>6
  <2>. QED  BY <1>5, <2>2, <2>3
<1>. HIDE DEF m
<1>8. Sound(m)
  BY <1>1, <1>3, <1>7 DEF Sound, IsSeq
<1>. QED  BY <1>8 DEF m, h

\* What the grain table of an extent has of a grain is what the tables in a row have.
LEMMA EntryIs ==
    ASSUME NEW m, Sound(m), NEW g \in Nat
    PROVE  /\ g \in DOMAIN GrainTable(m) <=> GrainEntry(m, g) # 0
           /\ g \in DOMAIN GrainTable(m) => GrainTable(m)[g] = GrainEntry(m, g)
           /\ GrainEntry(m, g) \in Nat
<1>. DEFINE n == Len(m.l1)
            L == m.l2_len
            c == m.cluster_sectors
            ts == [k \in DOMAIN m.l1 |->
                     IF m.l1[k] = Absent THEN [x \in 1 .. m.l2_len |-> 0] ELSE m.l1[k]]
            total == DivCeil(m.sectors, m.cluster_sectors)
            L2(x) == m.l1[(x \div m.l2_len) + 1]
            E(x)  == L2(x)[(x % m.l2_len) + 1]
            there == {x \in 0 .. total - 1 :
                        /\ (x \div m.l2_len) + 1 \in DOMAIN m.l1
                        /\ L2(x) # Absent /\ E(x) # 0}
<1>1. n \in Nat /\ DOMAIN m.l1 = 1 .. n
  BY SeqFacts DEF Sound
<1>2. m.sectors \in Nat /\ c \in Nat \ {0} /\ L \in Nat \ {0}
  BY DEF Sound
<1>3. ts \in [1 .. n -> [1 .. L -> Nat]]
  <2>1. [x \in 1 .. L |-> 0] \in [1 .. L -> Nat]
    OBVIOUS
  <2>2. \A k \in DOMAIN m.l1 : m.l1[k] # Absent => m.l1[k] \in [1 .. L -> Nat]
    BY DEF Sound
  <2>. QED  BY <1>1, <2>1, <2>2
<1>4. \A k \in 1 .. n : ts[k] = IF m.l1[k] = Absent THEN [x \in 1 .. L |-> 0] ELSE m.l1[k]
  BY <1>1
<1>5. GrainTable(m) = [x \in there |-> E(x)]
  BY DEF GrainTable
<1>6. GrainEntry(m, g) = IF g + 1 > Len(FlattenSeq(ts)) \/ g * c >= m.sectors THEN 0
                         ELSE FlattenSeq(ts)[g + 1]
  BY DEF GrainEntry
<1>7. g \in there <=> g \in 0 .. total - 1 /\ (g \div L) + 1 \in 1 .. n /\ L2(g) # Absent /\ E(g) # 0
  BY <1>1
<1>8. (g \in DOMAIN GrainTable(m) <=> g \in there) /\ (g \in there => GrainTable(m)[g] = E(g))
  <2>. HIDE DEF there, E
  <2>. QED  BY <1>5
<1>9. L2(g) = m.l1[(g \div L) + 1] /\ E(g) = L2(g)[(g % L) + 1]
  OBVIOUS
<1>10. g \in 0 .. total - 1 <=> ~(g * c >= m.sectors)
  <2>1. PICK a \in Nat : a = m.sectors + c - 1
    BY <1>2
  <2>2. total = a \div c
    BY <1>2, <2>1 DEF DivCeil
  <2>. HIDE DEF total, c
  <2>3. g + 1 \in Nat
    OBVIOUS
  <2>4. g + 1 <= total <=> (g + 1) * c <= a
    BY <1>2, <2>1, <2>2, <2>3, QuotientBounds
  <2>5. (g + 1) * c = g * c + c /\ g * c \in Nat
    BY <1>2
  <2>6. total \in Nat
    BY <1>2, <2>1, <2>2, Quotient
  <2>. QED  BY <1>2, <2>1, <2>4, <2>5, <2>6 DEF c
<1>. HIDE DEF n, L, c, ts, total, there, L2, E
<1>11. /\ Len(FlattenSeq(ts)) = n * L
       /\ \A x \in 0 .. n * L - 1 : FlattenSeq(ts)[x + 1] = ts[(x \div L) + 1][(x % L) + 1]
  <2>1. n \in Nat /\ L \in Nat \ {0} /\ ts \in [1 .. n -> [1 .. L -> Nat]]
    BY <1>1, <1>2, <1>3
  <2>2. Tabled(FlattenSeq(ts), ts, n, L)
    BY <2>1, FlattenIs
  <2>. QED  BY <2>2 DEF Tabled
<1>12. g \div L \in Nat /\ g % L \in 0 .. L - 1 /\ (g \div L < n <=> g < n * L) /\ n * L \in Nat
  <2>1. g \div L \in Nat /\ g % L \in 0 .. L - 1
    BY <1>2, Quotient
  <2>2. g \div L < n <=> g < n * L
    BY <1>1, <1>2, QuotientBounds, Zenon
  <2>3. n * L \in Nat
    BY <1>1, <1>2
  <2>. QED  BY <2>1, <2>2, <2>3, Zenon
<1>13. (g \div L) + 1 \in 1 .. n <=> g < n * L
  BY <1>1, <1>12
<1>14. ASSUME g < n * L
       PROVE  FlattenSeq(ts)[g + 1] = IF L2(g) = Absent THEN 0 ELSE E(g)
  <2>1. g \in 0 .. n * L - 1
    BY <1>12, <1>14
  <2>2. FlattenSeq(ts)[g + 1] = ts[(g \div L) + 1][(g % L) + 1]
    BY <1>11, <2>1
  <2>3. (g % L) + 1 \in 1 .. L
    BY <1>2, <1>12
  <2>4. ts[(g \div L) + 1] = IF L2(g) = Absent THEN [x \in 1 .. L |-> 0] ELSE L2(g)
    BY <1>4, <1>9, <1>13, <1>14
  <2>. QED  BY <1>9, <2>2, <2>3, <2>4
<1>17. g < n * L => FlattenSeq(ts)[g + 1] \in Nat
  <2>1. SUFFICES ASSUME g < n * L PROVE FlattenSeq(ts)[g + 1] \in Nat
    OBVIOUS
  <2>2. g \in 0 .. n * L - 1
    BY <1>12, <2>1
  <2>3. FlattenSeq(ts)[g + 1] = ts[(g \div L) + 1][(g % L) + 1]
    BY <1>11, <2>2
  <2>4. (g % L) + 1 \in 1 .. L /\ (g \div L) + 1 \in 1 .. n
    BY <1>2, <1>12, <1>13, <2>1
  <2>. QED  BY <1>3, <2>3, <2>4
<1>18. GrainEntry(m, g) \in Nat
  BY <1>6, <1>11, <1>12, <1>17
<1>15. CASE g < n * L
  <2>1. GrainEntry(m, g) = IF g * c >= m.sectors \/ L2(g) = Absent THEN 0 ELSE E(g)
    BY <1>6, <1>11, <1>12, <1>14, <1>15
  <2>. QED  BY <1>7, <1>8, <1>10, <1>13, <1>15, <1>18, <2>1
<1>16. CASE ~(g < n * L)
  <2>1. GrainEntry(m, g) = 0
    BY <1>6, <1>11, <1>12, <1>16
  <2>. QED  BY <1>7, <1>8, <1>13, <1>16, <1>18, <2>1
<1>. QED  BY <1>15, <1>16

-----------------------------------------------------------------------------
(* Which extent has a sector.                                              *)

\* The extents of an image that is not refused follow one another.
LEMMA ImageFacts ==
    ASSUME disk \in Disks, NEW u, ~ImageFails(u)
    PROVE  LET eds == disk.images[u].extents
           IN  /\ u \in DOMAIN disk.images
               /\ IsSeq(eds) /\ Len(eds) \in Nat /\ DOMAIN eds = 1 .. Len(eds)
               /\ StartSector(eds, 1) = 0
               /\ \A i \in 1 .. Len(eds) + 1 : StartSector(eds, i) \in Nat
               /\ \A i \in 1 .. Len(eds) : /\ eds[i].sectors \in Nat /\ eds[i].offset \in Nat
                                           /\ StartSector(eds, i + 1) = StartSector(eds, i) + eds[i].sectors
                                           /\ eds[i].kind \in ExtentKinds
                                           /\ eds[i].kind \in SparseKinds => Sound(Meta(eds[i].header))
               /\ SizeOf(u) = StartSector(eds, Len(eds) + 1) * SECTOR_SIZE
<1>. DEFINE eds == disk.images[u].extents
<1>1. u \in DOMAIN disk.images
  BY DEF ImageFails
<1>2. IsSeq(eds) /\ \A i \in DOMAIN eds : eds[i].sectors \in Nat /\ eds[i].offset \in Nat
  BY <1>1, DisksAssumption DEF IsSeq
<1>3. Len(eds) \in Nat /\ DOMAIN eds = 1 .. Len(eds)
  BY <1>2, SeqFacts, Zenon
<1>4. /\ StartSector(eds, 1) = 0
      /\ \A i \in 1 .. Len(eds) + 1 : /\ StartSector(eds, i) \in Nat
                                      /\ StartSector(eds, i) <= StartSector(eds, Len(eds) + 1)
      /\ \A i \in 1 .. Len(eds) : StartSector(eds, i + 1) = StartSector(eds, i) + eds[i].sectors
  <2>1. \A i \in 1 .. Len(eds) : eds[i].sectors \in Nat
    BY <1>2, <1>3
  <2>. QED  BY <1>2, <2>1, StartFacts, Zenon
<1>5. ASSUME NEW i \in 1 .. Len(eds)
      PROVE  eds[i].kind \in ExtentKinds /\ (eds[i].kind \in SparseKinds => Sound(Meta(eds[i].header)))
  <2>1. /\ eds[i].kind \in ExtentKinds
        /\ eds[i].kind \in SparseKinds => ~HeaderFails(eds[i])
    BY <1>3 DEF ImageFails
  <2>. QED  BY <1>1, <1>3, <2>1, MetaSound
<1>6. SizeOf(u) = StartSector(eds, Len(eds) + 1) * SECTOR_SIZE
  BY DEF SizeOf
<1>. QED  BY <1>1, <1>2, <1>3, <1>4, <1>5, <1>6

\* The starts of extents do not fall.
LEMMA StartsRise ==
    ASSUME disk \in Disks, NEW u, ~ImageFails(u),
           NEW i \in 1 .. Len(disk.images[u].extents) + 1,
           NEW j \in 1 .. Len(disk.images[u].extents) + 1, i <= j
    PROVE  StartSector(disk.images[u].extents, i) <= StartSector(disk.images[u].extents, j)
<1>. DEFINE eds == disk.images[u].extents
            f == [k \in 0 .. j - 1 |-> StartSector(eds, k + 1)]
<1>1. /\ Len(eds) \in Nat
      /\ \A k \in 1 .. Len(eds) + 1 : StartSector(eds, k) \in Nat
      /\ \A k \in 1 .. Len(eds) : eds[k].sectors \in Nat /\ StartSector(eds, k + 1) = StartSector(eds, k) + eds[k].sectors
  BY ImageFacts
<1>2. PICK n \in Nat : n = j - 1
  BY <1>1
<1>. HIDE DEF eds
<1>3. \A k \in 0 .. n : f[k] = StartSector(eds, k + 1) /\ f[k] \in Nat
  <2>1. ASSUME NEW k \in 0 .. n PROVE f[k] = StartSector(eds, k + 1) /\ f[k] \in Nat
    <3>1. k + 1 \in 1 .. Len(eds) + 1
      BY <1>1, <1>2 DEF eds
    <3>. QED  BY <1>1, <1>2, <3>1
  <2>. QED  BY <2>1
<1>4. ASSUME NEW k \in 1 .. n PROVE f[k - 1] <= f[k]
  <2>1. k \in 0 .. n /\ k - 1 \in 0 .. n /\ k - 1 + 1 = k /\ k \in 1 .. Len(eds)
    BY <1>1, <1>2 DEF eds
  <2>2. StartSector(eds, k) \in Nat /\ eds[k].sectors \in Nat /\ StartSector(eds, k + 1) = StartSector(eds, k) + eds[k].sectors
    <3>1. k \in 1 .. Len(eds) + 1
      BY <1>1, <2>1
    <3>. QED  BY <1>1, <2>1, <3>1
  <2>3. f[k - 1] = StartSector(eds, k) /\ f[k] = StartSector(eds, k + 1)
    <3>1. f[k - 1] = StartSector(eds, k - 1 + 1)
      BY <1>3, <2>1
    <3>. QED  BY <1>3, <2>1, <3>1
  <2>. HIDE DEF f
  <2>. QED  BY <2>2, <2>3
<1>. HIDE DEF f
<1>5. \A k \in 0 .. n : f[k] <= f[n]
  <2>1. \A k \in 0 .. n : f[k] \in Nat
    BY <1>3
  <2>2. \A k \in 1 .. n : f[k - 1] <= f[k]
    BY <1>4
  <2>. QED  BY <2>1, <2>2, Rises
<1>6. i - 1 \in 0 .. n /\ n \in 0 .. n /\ i - 1 + 1 = i /\ n + 1 = j
  BY <1>1, <1>2 DEF eds
<1>7. f[i - 1] <= f[n] /\ f[i - 1] = StartSector(eds, i - 1 + 1) /\ f[n] = StartSector(eds, n + 1)
  BY <1>3, <1>5, <1>6
<1>. QED  BY <1>6, <1>7 DEF eds

\* Sector s is in extent i of image u.
AtExtent(u, i, s) ==
    LET eds == disk.images[u].extents
    IN  i \in 1 .. Len(eds) /\ StartSector(eds, i) <= s /\ s < StartSector(eds, i + 1)

\* A sector is in no two extents of an image.
LEMMA AtOne ==
    ASSUME disk \in Disks, NEW u, ~ImageFails(u), NEW s \in Nat,
           NEW i, NEW j, AtExtent(u, i, s), AtExtent(u, j, s)
    PROVE  i = j
<1>. DEFINE eds == disk.images[u].extents
<1>1. /\ Len(eds) \in Nat
      /\ \A k \in 1 .. Len(eds) + 1 : StartSector(eds, k) \in Nat
  BY ImageFacts
<1>2. /\ i \in 1 .. Len(eds) /\ StartSector(eds, i) <= s /\ s < StartSector(eds, i + 1)
      /\ j \in 1 .. Len(eds) /\ StartSector(eds, j) <= s /\ s < StartSector(eds, j + 1)
  BY DEF AtExtent
<1>3. \A a, b \in 1 .. Len(eds) + 1 : a <= b => StartSector(eds, a) <= StartSector(eds, b)
  BY StartsRise
<1>. HIDE DEF eds
<1>4. ASSUME NEW a \in 1 .. Len(eds), NEW b \in 1 .. Len(eds), a < b, s < StartSector(eds, a + 1), StartSector(eds, b) <= s
      PROVE  FALSE
  <2>1. a + 1 \in 1 .. Len(eds) + 1 /\ b \in 1 .. Len(eds) + 1 /\ a + 1 <= b
    BY <1>1, <1>4
  <2>2. StartSector(eds, a + 1) <= StartSector(eds, b) /\ StartSector(eds, a + 1) \in Nat /\ StartSector(eds, b) \in Nat
    BY <1>1, <1>3, <2>1
  <2>. QED  BY <1>4, <2>2
<1>5. ~(i < j) /\ ~(j < i)
  BY <1>2, <1>4
<1>. QED  BY <1>1, <1>2, <1>5

\* A sector of the disk is in some extent of an image, the one ExtentAt finds.
LEMMA ExtentFound ==
    ASSUME disk \in Disks, NEW u, ~ImageFails(u), NEW s \in Nat,
           s < StartSector(disk.images[u].extents, Len(disk.images[u].extents) + 1)
    PROVE  AtExtent(u, ExtentAt(u, s), s)
<1>. DEFINE eds == disk.images[u].extents
            n == Len(eds)
            S == {i \in 0 .. n : StartSector(eds, i + 1) <= s}
<1>1. /\ n \in Nat /\ DOMAIN eds = 1 .. n /\ StartSector(eds, 1) = 0
      /\ \A k \in 1 .. n + 1 : StartSector(eds, k) \in Nat
  BY ImageFacts
<1>2. \E i \in 1 .. n : AtExtent(u, i, s)
  <2>1. SUFFICES ASSUME \A i \in 1 .. n : ~AtExtent(u, i, s) PROVE FALSE
    OBVIOUS
  <2>2. \A i \in 1 .. n : ~(StartSector(eds, i) <= s /\ s < StartSector(eds, i + 1))
    BY <2>1 DEF AtExtent
  <2>3. s < StartSector(eds, n + 1)
    OBVIOUS
  <2>. HIDE DEF eds, n
  <2>4. 0 \in S
    <3>1. 0 \in 0 .. n /\ 0 + 1 = 1 /\ 0 <= s
      BY <1>1
    <3>. QED  BY <1>1, <3>1
  <2>5. ASSUME NEW i \in 1 .. n, i - 1 \in S PROVE i \in S
    <3>1. i - 1 + 1 = i /\ i \in 0 .. n /\ i + 1 \in 1 .. n + 1
      BY <1>1
    <3>2. StartSector(eds, i) <= s
      BY <2>5, <3>1
    <3>3. StartSector(eds, i + 1) \in Nat
      BY <1>1, <3>1
    <3>4. ~(s < StartSector(eds, i + 1))
      BY <2>2, <3>2
    <3>. QED  BY <3>1, <3>3, <3>4
  <2>6. 0 .. n \subseteq S
    <3>. HIDE DEF S
    <3>. QED  BY <1>1, <2>4, <2>5, UpwardTo
  <2>7. n \in S /\ n + 1 \in 1 .. n + 1
    BY <1>1, <2>6
  <2>8. StartSector(eds, n + 1) <= s /\ StartSector(eds, n + 1) \in Nat
    BY <1>1, <2>7
  <2>. QED  BY <2>3, <2>8
<1>3. \E i \in DOMAIN eds : StartSector(eds, i) <= s /\ s < StartSector(eds, i + 1)
  BY <1>1, <1>2 DEF AtExtent
<1>4. LET i == ExtentAt(u, s)
      IN  i \in DOMAIN eds /\ StartSector(eds, i) <= s /\ s < StartSector(eds, i + 1)
  BY <1>3 DEF ExtentAt
<1>. QED  BY <1>1, <1>4 DEF AtExtent

-----------------------------------------------------------------------------
(* Which image has a sector.                                               *)

\* ex is what is made of extent i of image u, wherever its source is.
MadeOf(u, i, ex) ==
    LET eds == disk.images[u].extents
    IN  /\ i \in 1 .. Len(eds)
        /\ ex.ed = eds[i] /\ ex.start_sector = StartSector(eds, i) /\ ex.sectors = eds[i].sectors
        /\ eds[i].kind \in SparseKinds =>
              ex.meta = Meta(eds[i].header) /\ ex.grains = GrainTable(Meta(eds[i].header))

InSpans(ex, s) == \E p \in SpansOf(ex) : p[1] <= s /\ s < p[2]

\* The grain sector s is in has an entry, if extent i is made of grains.
HasGrain(u, i, s) ==
    LET eds == disk.images[u].extents
        h   == Meta(eds[i].header)
    IN  eds[i].kind \in SparseKinds =>
            GrainEntry(h, (s - StartSector(eds, i)) \div h.cluster_sectors) # 0

\* Image u has sector s.
HasSector(u, s) == HasGrain(u, ExtentAt(u, s), s)

\* read_extents makes its extents of the image's.
LEMMA ReadMakes ==
    ASSUME disk \in Disks, NEW u, ~ImageFails(u), NEW first
    PROVE  /\ Len(read_extents(u, first)) = Len(disk.images[u].extents)
           /\ DOMAIN read_extents(u, first) = 1 .. Len(disk.images[u].extents)
           /\ \A i \in 1 .. Len(disk.images[u].extents) :
                /\ MadeOf(u, i, read_extents(u, first)[i])
                /\ read_extents(u, first)[i].src = SourceIndex(disk.images[u].extents, i, first)
<1>. DEFINE eds == disk.images[u].extents
            exs == read_extents(u, first)
<1>1. Len(eds) \in Nat /\ DOMAIN eds = 1 .. Len(eds)
  BY ImageFacts
<1>2. DOMAIN exs = 1 .. Len(eds)
  BY <1>1 DEF read_extents
<1>3. IsSeq(exs)
  BY ExtentsAre
<1>4. Len(exs) = Len(eds)
  <2>1. Len(exs) \in Nat /\ DOMAIN exs = 1 .. Len(exs)
    BY <1>3, SeqFacts, Zenon
  <2>2. \A i, k \in Nat : 1 .. i = 1 .. k => i = k
    <3>1. SUFFICES ASSUME NEW i \in Nat, NEW k \in Nat, 1 .. i = 1 .. k, i < k PROVE FALSE
      OBVIOUS
    <3>2. k \in 1 .. k /\ k \notin 1 .. i
      BY <3>1
    <3>. QED  BY <3>1, <3>2
  <2>. HIDE DEF exs, eds
  <2>. QED  BY <1>1, <1>2, <2>1, <2>2
<1>5. ASSUME NEW i \in 1 .. Len(eds)
      PROVE  /\ exs[i].start_sector = StartSector(eds, i) /\ exs[i].sectors = eds[i].sectors
             /\ exs[i].ed = eds[i] /\ exs[i].src = SourceIndex(eds, i, first)
             /\ eds[i].kind \in SparseKinds => exs[i].meta = Meta(eds[i].header) /\ exs[i].grains = GrainTable(Meta(eds[i].header))
  BY <1>1 DEF read_extents
<1>. HIDE DEF exs
<1>6. \A i \in 1 .. Len(eds) : MadeOf(u, i, exs[i]) /\ exs[i].src = SourceIndex(eds, i, first)
  BY <1>5 DEF MadeOf
<1>. QED  BY <1>2, <1>4, <1>6 DEF exs

\* The spans of an extent are where it is and, if it is made of grains, where those have
\* an entry.
LEMMA SpansHave ==
    ASSUME disk \in Disks, NEW u, ~ImageFails(u), NEW i, NEW ex, MadeOf(u, i, ex), NEW s \in Nat
    PROVE  InSpans(ex, s) <=> AtExtent(u, i, s) /\ HasGrain(u, i, s)
<1>. DEFINE eds == disk.images[u].extents
            h == Meta(eds[i].header)
            end == ex.start_sector + ex.sectors
            Beg(g) == ex.start_sector + g * ex.meta.cluster_sectors
<1>1. /\ i \in 1 .. Len(eds)
      /\ ex.ed = eds[i] /\ ex.start_sector = StartSector(eds, i) /\ ex.sectors = eds[i].sectors
      /\ eds[i].kind \in SparseKinds => ex.meta = h /\ ex.grains = GrainTable(h)
  BY DEF MadeOf
<1>2. /\ StartSector(eds, i) \in Nat /\ eds[i].sectors \in Nat
      /\ StartSector(eds, i + 1) = StartSector(eds, i) + eds[i].sectors
      /\ eds[i].kind \in SparseKinds => Sound(h)
  <2>1. Len(eds) \in Nat /\ i \in 1 .. Len(eds) + 1
    BY <1>1, ImageFacts
  <2>. QED  BY <1>1, <2>1, ImageFacts
<1>3. AtExtent(u, i, s) <=> ex.start_sector <= s /\ s < end
  BY <1>1, <1>2 DEF AtExtent
<1>4. HasGrain(u, i, s) <=>
          (eds[i].kind \in SparseKinds => GrainEntry(h, (s - ex.start_sector) \div h.cluster_sectors) # 0)
  BY <1>1 DEF HasGrain
<1>5. CASE eds[i].kind \notin SparseKinds
  <2>1. SpansOf(ex) = {<<ex.start_sector, end>>}
    BY <1>1, <1>5 DEF SpansOf
  <2>2. InSpans(ex, s) <=> ex.start_sector <= s /\ s < end
    <3>. DEFINE p == <<ex.start_sector, end>>
    <3>1. p[1] = ex.start_sector /\ p[2] = end
      OBVIOUS
    <3>. HIDE DEF p, end
    <3>2. SpansOf(ex) = {p}
      BY <2>1 DEF p
    <3>. QED  BY <3>1, <3>2 DEF InSpans
  <2>. QED  BY <1>3, <1>4, <1>5, <2>2
<1>6. CASE eds[i].kind \in SparseKinds
  <2>1. SpansOf(ex) = {<<Beg(g), Min({Beg(g) + ex.meta.cluster_sectors, end})>> :
                         g \in {x \in DOMAIN ex.grains : Beg(x) < end}}
    BY <1>1, <1>6 DEF SpansOf
  <2>2. PICK c \in Nat \ {0} : c = ex.meta.cluster_sectors /\ c = h.cluster_sectors
    BY <1>1, <1>2, <1>6 DEF Sound
  <2>3. PICK a \in Nat : a = ex.start_sector
    BY <1>1, <1>2
  <2>4. end \in Nat /\ a <= end
    BY <1>1, <1>2, <2>3
  <2>5. \A g : Beg(g) = a + g * c
    BY <2>2, <2>3
  <2>6. \A g \in Nat : g \in DOMAIN ex.grains <=> GrainEntry(h, g) # 0
    BY <1>1, <1>2, <1>6, EntryIs
  <2>7. DOMAIN ex.grains \subseteq Nat
    BY <1>1, <1>2, <1>6, GrainsAre DEF Sound
  <2>. HIDE DEF Beg, end
  <2>8. ASSUME InSpans(ex, s) PROVE AtExtent(u, i, s) /\ HasGrain(u, i, s)
    <3>1. PICK p \in SpansOf(ex) : p[1] <= s /\ s < p[2]
      BY <2>8 DEF InSpans
    <3>2. PICK g \in DOMAIN ex.grains : Beg(g) < end /\ p = <<Beg(g), Min({Beg(g) + c, end})>>
      BY <2>1, <2>2, <3>1
    <3>3. g \in Nat /\ g * c \in Nat
      BY <2>2, <2>7, <3>2
    <3>4. PICK b \in Nat : b = Beg(g) /\ b = a + g * c
      BY <2>3, <2>5, <3>3
    <3>5. Min({b + c, end}) = IF b + c <= end THEN b + c ELSE end
      BY <2>2, <2>4, <3>4, LesserOf
    <3>6. p[1] = b /\ p[2] = IF b + c <= end THEN b + c ELSE end
      BY <3>2, <3>4, <3>5
    <3>7. b <= s /\ s < b + c /\ s < end
      BY <2>2, <2>4, <3>1, <3>4, <3>6
    <3>8. PICK r \in 0 .. c - 1 : s = b + r
      <4>1. s - b \in 0 .. c - 1 /\ s = b + (s - b)
        BY <2>2, <3>4, <3>7
      <4>. QED  BY <4>1
    <3>9. PICK m \in Nat : m = g * c
      BY <3>3
    <3>10. PICK x \in Nat : x = s - a /\ x = g * c + r
      <4>1. s - a = m + r /\ m + r \in Nat
        BY <2>3, <3>4, <3>8, <3>9
      <4>. QED  BY <3>9, <4>1
    <3>11. x \div c = g
      <4>1. \A q \in Nat, k \in 0 .. c - 1 : x = q * c + k => x \div c = q
        BY Quotient
      <4>. QED  BY <3>3, <3>8, <3>10, <4>1, Zenon
    <3>12. AtExtent(u, i, s)
      BY <1>3, <2>3, <3>4, <3>7, <3>9
    <3>13. GrainEntry(h, (s - ex.start_sector) \div h.cluster_sectors) # 0
      BY <2>2, <2>3, <2>6, <3>2, <3>3, <3>10, <3>11
    <3>. QED  BY <1>4, <3>12, <3>13
  <2>9. ASSUME AtExtent(u, i, s), HasGrain(u, i, s) PROVE InSpans(ex, s)
    <3>1. a <= s /\ s < end
      BY <1>3, <2>3, <2>9
    <3>2. PICK x \in Nat : x = s - a
      BY <2>3, <3>1
    <3>3. PICK g \in Nat, r \in 0 .. c - 1 : g = x \div c /\ x = g * c + r
      BY <2>2, <3>2, Quotient
    <3>4. GrainEntry(h, g) # 0
      BY <1>4, <1>6, <2>2, <2>3, <2>9, <3>2, <3>3
    <3>5. g \in DOMAIN ex.grains
      BY <2>6, <3>4
    <3>6. PICK m \in Nat : m = g * c
      BY <2>2
    <3>7. PICK b \in Nat : b = Beg(g) /\ b = a + m
      BY <2>3, <2>5, <3>6
    <3>8. s = b + r
      BY <2>3, <3>2, <3>3, <3>6, <3>7
    <3>9. Min({b + c, end}) = IF b + c <= end THEN b + c ELSE end
      BY <2>2, <2>4, <3>7, LesserOf
    <3>10. PICK e \in Nat : e = Min({b + c, end}) /\ s < e
      BY <2>2, <2>4, <3>1, <3>7, <3>8, <3>9
    <3>11. b < end
      BY <2>4, <3>1, <3>7, <3>8
    <3>12. <<b, e>> \in SpansOf(ex)
      BY <2>1, <2>2, <3>5, <3>7, <3>10, <3>11
    <3>13. b <= s
      BY <3>7, <3>8
    <3>. QED  BY <3>10, <3>12, <3>13 DEF InSpans
  <2>. QED  BY <2>8, <2>9
<1>. QED  BY <1>5, <1>6

\* What has a sector in its spans has it because its image does, and the other way round.
LEMMA SectorSpans ==
    ASSUME disk \in Disks, NEW u, ~ImageFails(u), NEW s \in Nat
    PROVE  /\ \A i, ex : MadeOf(u, i, ex) /\ InSpans(ex, s) => ExtentAt(u, s) = i /\ HasSector(u, s)
           /\ \A ex : HasSector(u, s) /\ s < StartSector(disk.images[u].extents, Len(disk.images[u].extents) + 1)
                /\ MadeOf(u, ExtentAt(u, s), ex) => InSpans(ex, s)
<1>1. ASSUME NEW i, NEW ex, MadeOf(u, i, ex), InSpans(ex, s)
      PROVE  ExtentAt(u, s) = i /\ HasSector(u, s)
  <2>. DEFINE eds == disk.images[u].extents
  <2>1. AtExtent(u, i, s) /\ HasGrain(u, i, s)
    BY <1>1, SpansHave
  <2>2. /\ Len(eds) \in Nat
        /\ \A k \in 1 .. Len(eds) + 1 : StartSector(eds, k) \in Nat
    BY ImageFacts
  <2>3. s < StartSector(eds, Len(eds) + 1)
    <3>1. i \in 1 .. Len(eds) /\ s < StartSector(eds, i + 1)
      BY <2>1 DEF AtExtent
    <3>2. i + 1 \in 1 .. Len(eds) + 1 /\ Len(eds) + 1 \in 1 .. Len(eds) + 1 /\ i + 1 <= Len(eds) + 1
      BY <2>2, <3>1
    <3>3. StartSector(eds, i + 1) <= StartSector(eds, Len(eds) + 1)
      BY <3>2, StartsRise
    <3>4. StartSector(eds, i + 1) \in Nat /\ StartSector(eds, Len(eds) + 1) \in Nat
      BY <2>2, <3>2
    <3>. HIDE DEF eds
    <3>. QED  BY <3>1, <3>3, <3>4
  <2>4. AtExtent(u, ExtentAt(u, s), s)
    BY <2>3, ExtentFound
  <2>5. ExtentAt(u, s) = i
    BY <2>1, <2>4, AtOne
  <2>. QED  BY <2>1, <2>5 DEF HasSector
<1>2. ASSUME NEW ex, HasSector(u, s), MadeOf(u, ExtentAt(u, s), ex),
             s < StartSector(disk.images[u].extents, Len(disk.images[u].extents) + 1)
      PROVE  InSpans(ex, s)
  BY <1>2, ExtentFound, SpansHave DEF HasSector
<1>. QED  BY <1>1, <1>2

-----------------------------------------------------------------------------
(* Bytes.                                                                  *)

\* The byte extent ex stores at position p of the disk.
Stored(ex, p) ==
    LET local == p - ex.start_sector * SECTOR_SIZE
        gsize == ex.meta.cluster_sectors * SECTOR_SIZE
        g     == local \div gsize
        at    == local % gsize
        file  == sources[ex.src]
    IN  CASE ex.ed.kind = "zero" -> Zero
          [] ex.ed.kind = "flat" -> <<file, local + ex.ed.offset * SECTOR_SIZE>>
          [] ex.ed.kind \in SparseKinds ->
                IF ex.meta.has_zero_grain /\ ex.grains[g] = 1 THEN Zero
                ELSE IF ex.meta.compressed THEN <<file, ex.grains[g], at>>
                ELSE <<file, ex.grains[g] * SECTOR_SIZE + at>>

\* The bytes of ex from pos on, n of them.
Run(ex, pos, n) == [k \in 1 .. n |-> Stored(ex, pos + k - 1)]

\* A byte of the disk is in a sector of it, and a sector's bytes are.
LEMMA SectorOf ==
    ASSUME NEW p \in Nat, NEW a \in Nat
    PROVE  /\ p \div SECTOR_SIZE \in Nat
           /\ a <= p \div SECTOR_SIZE <=> a * SECTOR_SIZE <= p
           /\ p \div SECTOR_SIZE < a <=> p < a * SECTOR_SIZE
<1>1. PICK d \in Nat \ {0} : d = SECTOR_SIZE
  BY VmdkAssumption
<1>2. p \div d \in Nat
  BY Quotient
<1>3. (p \div d < a <=> p < a * d) /\ (a <= p \div d <=> a * d <= p)
  BY QuotientBounds
<1>. QED  BY <1>1, <1>2, <1>3, Zenon

\* An image has a byte if it has its sector: grains are whole sectors.
LEMMA ByteSector ==
    ASSUME disk \in Disks, NEW u, ~ImageFails(u), NEW p \in Nat,
           AtExtent(u, ExtentAt(u, p \div SECTOR_SIZE), p \div SECTOR_SIZE)
    PROVE  HasByte(u, p) <=> HasSector(u, p \div SECTOR_SIZE)
<1>. DEFINE eds == disk.images[u].extents
            s == p \div SECTOR_SIZE
            i == ExtentAt(u, s)
            h == Meta(eds[i].header)
            q == p - StartSector(eds, i) * SECTOR_SIZE
<1>1. HasByte(u, p) <=> (eds[i].kind \in SparseKinds => GrainEntry(h, q \div (h.cluster_sectors * SECTOR_SIZE)) # 0)
  BY DEF HasByte
<1>2. HasSector(u, s) <=> (eds[i].kind \in SparseKinds => GrainEntry(h, (s - StartSector(eds, i)) \div h.cluster_sectors) # 0)
  BY DEF HasSector, HasGrain
<1>3. i \in 1 .. Len(eds) /\ StartSector(eds, i) <= s
  BY DEF AtExtent
<1>4. StartSector(eds, i) \in Nat /\ (eds[i].kind \in SparseKinds => h.cluster_sectors \in Nat \ {0})
  <2>1. Len(eds) \in Nat /\ i \in 1 .. Len(eds) + 1
    BY <1>3, ImageFacts
  <2>2. eds[i].kind \in SparseKinds => Sound(h)
    BY <1>3, ImageFacts
  <2>. QED  BY <2>1, <2>2, ImageFacts DEF Sound
<1>5. PICK d \in Nat \ {0} : d = SECTOR_SIZE
  BY VmdkAssumption
<1>6. ASSUME eds[i].kind \in SparseKinds
      PROVE  q \div (h.cluster_sectors * SECTOR_SIZE) = (s - StartSector(eds, i)) \div h.cluster_sectors
  <2>1. PICK c \in Nat \ {0}, a \in Nat : c = h.cluster_sectors /\ a = StartSector(eds, i)
    BY <1>4, <1>6
  <2>2. s = p \div d /\ a <= p \div d
    BY <1>3, <1>5, <2>1
  <2>3. p - a * d \in Nat /\ (p - a * d) \div d = p \div d - a
    BY <2>2, QuotientLess
  <2>4. PICK x \in Nat : x = p - a * d
    BY <2>3
  <2>5. (x \div d) \div c = x \div (c * d)
    BY TwoQuotients
  <2>6. x \div (c * d) = (s - a) \div c
    BY <2>2, <2>3, <2>4, <2>5
  <2>. QED  BY <1>5, <2>1, <2>4, <2>6
<1>. QED  BY <1>1, <1>2, <1>6

\* An extent with the image's file behind it stores the image's bytes.
LEMMA StoredIs ==
    ASSUME disk \in Disks, NEW u, ~ImageFails(u), NEW ex, NEW p \in Nat,
           MadeOf(u, ExtentAt(u, p \div SECTOR_SIZE), ex),
           InSpans(ex, p \div SECTOR_SIZE),
           HasFile(ex.ed) => sources[ex.src] = FileOf(u, ex.ed)
    PROVE  Stored(ex, p) = ByteOf(u, p)
<1>. DEFINE eds == disk.images[u].extents
            i == ExtentAt(u, p \div SECTOR_SIZE)
            ed == eds[i]
            h == Meta(ed.header)
            q == p - StartSector(eds, i) * SECTOR_SIZE
            gb == h.cluster_sectors * SECTOR_SIZE
            e == GrainEntry(h, q \div gb)
            file == FileOf(u, ed)
<1>1. /\ i \in 1 .. Len(eds)
      /\ ex.ed = ed /\ ex.start_sector = StartSector(eds, i)
      /\ ed.kind \in SparseKinds => ex.meta = h /\ ex.grains = GrainTable(h)
  BY DEF MadeOf
<1>2. ed.kind \in ExtentKinds /\ (ed.kind \in SparseKinds => Sound(h)) /\ StartSector(eds, i) \in Nat
  <2>1. Len(eds) \in Nat /\ i \in 1 .. Len(eds) + 1
    BY <1>1, ImageFacts
  <2>. QED  BY <1>1, <2>1, ImageFacts
<1>3. /\ HasByte(u, p) <=> (ed.kind \in SparseKinds => e # 0)
      /\ ByteOf(u, p) = CASE ed.kind = "zero" -> Zero
                          [] ed.kind = "flat" -> <<FileOf(u, ed), q + ed.offset * SECTOR_SIZE>>
                          [] ed.kind \in SparseKinds ->
                                IF e = 1 /\ h.has_zero_grain THEN Zero
                                ELSE IF h.compressed THEN <<FileOf(u, ed), e, q % gb>>
                                ELSE <<FileOf(u, ed), e * SECTOR_SIZE + (q % gb)>>
  BY DEF HasByte, ByteOf
<1>4. Stored(ex, p) = CASE ed.kind = "zero" -> Zero
                        [] ed.kind = "flat" -> <<sources[ex.src], q + ed.offset * SECTOR_SIZE>>
                        [] ed.kind \in SparseKinds ->
                              IF ex.meta.has_zero_grain /\ ex.grains[q \div (ex.meta.cluster_sectors * SECTOR_SIZE)] = 1 THEN Zero
                              ELSE IF ex.meta.compressed THEN <<sources[ex.src], ex.grains[q \div (ex.meta.cluster_sectors * SECTOR_SIZE)], q % (ex.meta.cluster_sectors * SECTOR_SIZE)>>
                              ELSE <<sources[ex.src], ex.grains[q \div (ex.meta.cluster_sectors * SECTOR_SIZE)] * SECTOR_SIZE + (q % (ex.meta.cluster_sectors * SECTOR_SIZE))>>
  BY <1>1 DEF Stored
<1>5. ed.kind # "zero" => sources[ex.src] = file
  BY <1>1 DEF HasFile
<1>6. AtExtent(u, i, p \div SECTOR_SIZE) /\ HasSector(u, p \div SECTOR_SIZE)
  <2>1. p \div SECTOR_SIZE \in Nat
    BY SectorOf
  <2>2. AtExtent(u, i, p \div SECTOR_SIZE) /\ HasGrain(u, i, p \div SECTOR_SIZE)
    <3>. HIDE DEF i
    <3>1. MadeOf(u, i, ex)
      BY DEF i
    <3>. QED  BY <2>1, <3>1, SpansHave
  <2>. QED  BY <2>2 DEF HasSector
<1>7. HasByte(u, p)
  BY <1>6, ByteSector
<1>8. ASSUME ed.kind \in SparseKinds
      PROVE  e # 0 /\ GrainTable(h)[q \div gb] = e
  <2>1. e # 0
    BY <1>3, <1>7, <1>8
  <2>2. q \div gb \in Nat
    <3>1. PICK d \in Nat \ {0} : d = SECTOR_SIZE
      BY VmdkAssumption
    <3>2. PICK c \in Nat \ {0}, a \in Nat : c = h.cluster_sectors /\ a = StartSector(eds, i)
      BY <1>2, <1>8 DEF Sound
    <3>3. a <= p \div d
      BY <1>6, <3>1, <3>2 DEF AtExtent
    <3>4. p - a * d \in Nat
      BY <3>3, QuotientLess
    <3>5. PICK x \in Nat, b \in Nat \ {0} : x = q /\ b = gb
      <4>1. c * d \in Nat \ {0}
        OBVIOUS
      <4>. QED  BY <3>1, <3>2, <3>4, <4>1
    <3>6. x \div b \in Nat
      BY Quotient
    <3>. QED  BY <3>5, <3>6
  <2>3. PICK g \in Nat : g = q \div gb
    BY <2>2
  <2>. QED  BY <1>2, <1>8, <2>1, <2>3, EntryIs
<1>. HIDE DEF e, q, h, ed, i, eds, file
<1>9. CASE ed.kind \in SparseKinds
  <2>1. ed.kind # "zero" /\ ed.kind # "flat"
    BY <1>9 DEF SparseKinds
  <2>2. ex.meta = h /\ ex.grains[q \div gb] = e /\ sources[ex.src] = file
    BY <1>1, <1>5, <1>8, <1>9, <2>1
  <2>3. Stored(ex, p) = IF h.has_zero_grain /\ e = 1 THEN Zero
                        ELSE IF h.compressed THEN <<file, e, q % gb>>
                        ELSE <<file, e * SECTOR_SIZE + (q % gb)>>
    BY <1>4, <1>9, <2>1, <2>2
  <2>4. ByteOf(u, p) = IF h.has_zero_grain /\ e = 1 THEN Zero
                       ELSE IF h.compressed THEN <<file, e, q % gb>>
                       ELSE <<file, e * SECTOR_SIZE + (q % gb)>>
    BY <1>3, <1>9, <2>1 DEF file
  <2>. QED  BY <2>3, <2>4
<1>10. CASE ed.kind = "zero"
  BY <1>3, <1>4, <1>10
<1>11. CASE ed.kind = "flat"
  BY <1>3, <1>4, <1>5, <1>11 DEF file
<1>. QED  BY <1>2, <1>9, <1>10, <1>11 DEF ExtentKinds

\* A read of an extent's storage gives at least one of its bytes and at most as many as
\* asked for, or fails over one of those.
LEMMA StorageReads ==
    ASSUME NEW ex, NEW pos \in Nat, NEW n \in Nat \ {0},
           ex.ed.kind \in ExtentKinds,
           ex.start_sector \in Nat, ex.start_sector * SECTOR_SIZE <= pos,
           ex.ed.kind \in SparseKinds =>
              /\ ex.meta.cluster_sectors \in Nat \ {0}
              /\ (pos - ex.start_sector * SECTOR_SIZE) \div (ex.meta.cluster_sectors * SECTOR_SIZE) \in DOMAIN ex.grains
              /\ \A g \in DOMAIN ex.grains : ex.grains[g] \in Nat,
           ex.ed.kind = "flat" => ex.ed.offset \in Nat
    PROVE  \E l \in 1 .. n :
              /\ StorageRead(ex, pos, n).ok => StorageRead(ex, pos, n).bytes = Run(ex, pos, l)
              /\ StorageRead(ex, pos, n).ok \in BOOLEAN
              /\ ~StorageRead(ex, pos, n).ok => \E k \in 1 .. l : Stored(ex, pos + k - 1) \in disk.bad
<1>. DEFINE local == pos - ex.start_sector * SECTOR_SIZE
            gsize == ex.meta.cluster_sectors * SECTOR_SIZE
            g     == local \div gsize
            at    == local % gsize
            m     == Min({gsize - at, n})
            file  == sources[ex.src]
            Byte(i) == IF ex.meta.has_zero_grain /\ ex.grains[g] = 1 THEN Zero
                       ELSE IF ex.meta.compressed THEN <<file, ex.grains[g], at + i - 1>>
                       ELSE <<file, ex.grains[g] * SECTOR_SIZE + at + i - 1>>
            got   == CASE ex.ed.kind = "zero" -> [i \in 1 .. n |-> Zero]
                       [] ex.ed.kind = "flat" ->
                            [i \in 1 .. n |-> <<file, local + ex.ed.offset * SECTOR_SIZE + i - 1>>]
                       [] ex.ed.kind \in SparseKinds -> [i \in 1 .. m |-> Byte(i)]
            fails == \/ ex.ed.kind \in SparseKinds /\ g \notin DOMAIN ex.grains
                     \/ Range(got) \cap disk.bad # {}
<1>1. StorageRead(ex, pos, n) = IF fails THEN [ok |-> FALSE] ELSE [ok |-> TRUE, bytes |-> got]
  BY DEF StorageRead
<1>2. ASSUME NEW l \in 1 .. n, got = Run(ex, pos, l)
      PROVE  \E x \in 1 .. n :
              /\ StorageRead(ex, pos, n).ok => StorageRead(ex, pos, n).bytes = Run(ex, pos, x)
              /\ StorageRead(ex, pos, n).ok \in BOOLEAN
              /\ ~StorageRead(ex, pos, n).ok => \E k \in 1 .. x : Stored(ex, pos + k - 1) \in disk.bad
  <2>1. fails <=> Range(got) \cap disk.bad # {}
    OBVIOUS
  <2>. HIDE DEF got, fails
  <2>2. CASE fails
    <3>1. PICK k \in DOMAIN got : got[k] \in disk.bad
      BY <2>1, <2>2 DEF Range
    <3>2. k \in 1 .. l /\ Stored(ex, pos + k - 1) \in disk.bad
      BY <1>2, <3>1 DEF Run
    <3>3. StorageRead(ex, pos, n).ok = FALSE
      BY <1>1, <2>2
    <3>. QED  BY <3>2, <3>3
  <2>3. CASE ~fails
    BY <1>1, <1>2, <2>3
  <2>. QED  BY <2>2, <2>3
<1>3. \A k \in 1 .. n : pos + k - 1 \in Nat
  OBVIOUS
<1>4. local \in Nat
  <2>1. ex.start_sector * SECTOR_SIZE \in Nat
    BY VmdkAssumption
  <2>. QED  BY <2>1
<1>5. CASE ex.ed.kind = "zero"
  <2>1. got = [i \in 1 .. n |-> Zero]
    BY <1>5 DEF SparseKinds
  <2>2. \A p : Stored(ex, p) = Zero
    BY <1>5 DEF Stored, SparseKinds
  <2>. HIDE DEF got
  <2>3. got = Run(ex, pos, n) /\ n \in 1 .. n
    BY <2>1, <2>2 DEF Run
  <2>. QED  BY <1>2, <2>3
<1>6. CASE ex.ed.kind = "flat"
  <2>1. PICK a \in Nat, b \in Nat, x \in Nat :
            a = ex.start_sector * SECTOR_SIZE /\ b = ex.ed.offset * SECTOR_SIZE /\ x = local /\ x = pos - a
    <3>1. ex.start_sector * SECTOR_SIZE \in Nat /\ ex.ed.offset * SECTOR_SIZE \in Nat
      BY <1>6, VmdkAssumption
    <3>. QED  BY <1>4, <3>1
  <2>. DEFINE At(i) == <<file, x + b + i - 1>>
  <2>2. got = [i \in 1 .. n |-> At(i)]
    BY <1>6, <2>1 DEF SparseKinds
  <2>3. \A p : Stored(ex, p) = <<file, p - a + b>>
    BY <1>6, <2>1 DEF Stored, SparseKinds
  <2>. HIDE DEF got, local
  <2>4. ASSUME NEW k \in 1 .. n PROVE At(k) = Stored(ex, pos + k - 1)
    <3>1. x + b + k - 1 = pos + k - 1 - a + b
      BY <2>1
    <3>. QED  BY <2>3, <3>1
  <2>. HIDE DEF At
  <2>5. got = Run(ex, pos, n) /\ n \in 1 .. n
    BY <2>2, <2>4 DEF Run
  <2>. QED  BY <1>2, <2>5
<1>7. CASE ex.ed.kind \in SparseKinds
  <2>1. ex.ed.kind # "zero" /\ ex.ed.kind # "flat"
    BY <1>7 DEF SparseKinds
  <2>2. got = [i \in 1 .. m |-> Byte(i)]
    BY <1>7, <2>1
  <2>3. PICK b \in Nat \ {0} : b = gsize
    <3>1. PICK c \in Nat \ {0}, d \in Nat \ {0} : c = ex.meta.cluster_sectors /\ d = SECTOR_SIZE
      BY <1>7, VmdkAssumption
    <3>2. c * d \in Nat \ {0}
      OBVIOUS
    <3>. QED  BY <3>1, <3>2
  <2>4. PICK x \in Nat, a \in Nat : x = local /\ a = ex.start_sector * SECTOR_SIZE /\ x = pos - a
    BY <1>4, VmdkAssumption
  <2>5. x \div b \in Nat /\ x % b \in 0 .. b - 1
    BY Quotient
  <2>6. PICK y \in Nat, z \in 0 .. b - 1 : y = x \div b /\ z = x % b /\ g = y /\ at = z
    BY <2>3, <2>4, <2>5
  <2>7. PICK w \in 1 .. n : w = m /\ z + w <= b
    <3>1. Min({b - z, n}) = IF b - z <= n THEN b - z ELSE n
      BY LesserOf
    <3>2. m = Min({b - z, n})
      BY <2>3, <2>6
    <3>. HIDE DEF m
    <3>. QED  BY <3>1, <3>2
  <2>8. PICK e \in Nat : e = ex.grains[y]
    BY <1>7, <2>6
  <2>9. PICK f \in Nat : f = e * SECTOR_SIZE
    BY <2>8, VmdkAssumption
  <2>10. \A i : Byte(i) = IF ex.meta.has_zero_grain /\ e = 1 THEN Zero
                          ELSE IF ex.meta.compressed THEN <<file, e, z + i - 1>>
                          ELSE <<file, f + z + i - 1>>
    BY <2>6, <2>8, <2>9
  <2>11. \A p : (p - a) \div b = y => Stored(ex, p) = 
               IF ex.meta.has_zero_grain /\ e = 1 THEN Zero
               ELSE IF ex.meta.compressed THEN <<file, e, (p - a) % b>>
               ELSE <<file, f + ((p - a) % b)>>
    BY <1>7, <2>1, <2>3, <2>4, <2>8, <2>9 DEF Stored
  <2>. HIDE DEF got, m, Byte, g, at, gsize, local
  <2>12. ASSUME NEW k \in 1 .. w
         PROVE  Byte(k) = Stored(ex, pos + k - 1)
    <3>1. PICK j \in Nat : j = k - 1 /\ z + j < b
      <4>1. k \in Nat /\ k >= 1 /\ k <= w
        BY <2>7
      <4>. QED  BY <2>7, <4>1
    <3>2. (x + j) \div b = y /\ (x + j) % b = z + j
      <4>1. (x % b) + j < b
        BY <2>6, <3>1
      <4>2. (x + j) \div b = x \div b /\ (x + j) % b = (x % b) + j
        BY <4>1, QuotientStays
      <4>. QED  BY <2>6, <4>2
    <3>3. (pos + k - 1) - a = x + j
      BY <2>4, <3>1
    <3>4. PICK p : p = pos + k - 1
      OBVIOUS
    <3>5. (p - a) \div b = y /\ (p - a) % b = z + j
      BY <3>2, <3>3, <3>4
    <3>6. Stored(ex, p) = 
               IF ex.meta.has_zero_grain /\ e = 1 THEN Zero
               ELSE IF ex.meta.compressed THEN <<file, e, z + j>>
               ELSE <<file, f + (z + j)>>
      BY <2>11, <3>5
    <3>7. z + k - 1 = z + j /\ f + z + k - 1 = f + (z + j)
      BY <3>1
    <3>. QED  BY <2>10, <3>4, <3>6, <3>7
  <2>13. got = Run(ex, pos, w)
    BY <2>2, <2>7, <2>12 DEF Run
  <2>. QED  BY <1>2, <2>7, <2>13
<1>. QED  BY <1>5, <1>6, <1>7 DEF ExtentKinds

-----------------------------------------------------------------------------
(* The image opened and its ancestors.                                     *)

\* f[k] is the line of d's images up to its k-th one.
Line(d, f, m) ==
    f = [k \in 1 .. m |->
            IF k = 1 THEN <<d.top>>
            ELSE IF d.images[Last(f[k - 1])].parent \notin DOMAIN d.images THEN f[k - 1]
            ELSE Append(f[k - 1], d.images[Last(f[k - 1])].parent)]

\* The recursive function of the line exists up to any length.
LEMMA LineExists == ASSUME NEW d, NEW m \in Nat PROVE \E f : Line(d, f, m)
<1>. DEFINE Next1(f, k) ==
               IF k = 1 THEN <<d.top>>
               ELSE IF d.images[Last(f[k - 1])].parent \notin DOMAIN d.images THEN f[k - 1]
               ELSE Append(f[k - 1], d.images[Last(f[k - 1])].parent)
            Fine == {k \in Nat : \E f : Line(d, f, k)}
<1>0. \A f, k : Line(d, f, k) <=> f = [i \in 1 .. k |-> Next1(f, i)]
  BY DEF Line
<1>1. 0 \in Fine
  <2>. DEFINE h == [i \in 1 .. 0 |-> 0]
  <2>. HIDE DEF Next1
  <2>1. h = [i \in 1 .. 0 |-> Next1(h, i)]
    <3>1. \A i \in 1 .. 0 : FALSE
      OBVIOUS
    <3>. QED  BY <3>1
  <2>2. Line(d, h, 0)
    <3>. HIDE DEF h
    <3>. QED  BY <1>0, <2>1
  <2>. QED  BY <2>2
<1>2. ASSUME NEW k \in 1 .. m, k - 1 \in Fine PROVE k \in Fine
  <2>1. PICK f : Line(d, f, k - 1)
    BY <1>2
  <2>. DEFINE h == [i \in 1 .. k |-> Next1(f, i)]
  <2>2. \A i \in 1 .. k - 1 : h[i] = f[i]
    <3>. HIDE DEF Next1
    <3>0. f = [i \in 1 .. k - 1 |-> Next1(f, i)]
      BY <1>0, <2>1
    <3>1. \A i \in 1 .. k - 1 : f[i] = Next1(f, i)
      BY <3>0
    <3>2. \A i \in 1 .. k - 1 : i \in 1 .. k
      OBVIOUS
    <3>. QED  BY <3>1, <3>2
  <2>3. \A i \in 1 .. k : i # 1 => i - 1 \in 1 .. k - 1
    OBVIOUS
  <2>4. Line(d, h, k)
    <3>1. \A i \in 1 .. k : Next1(f, i) = Next1(h, i)
      <4>1. ASSUME NEW i \in 1 .. k PROVE Next1(f, i) = Next1(h, i)
        <5>1. i # 1 => h[i - 1] = f[i - 1]
          BY <2>2, <2>3
        <5>. HIDE DEF h
        <5>. QED  BY <5>1
      <4>. QED  BY <4>1
    <3>. HIDE DEF Next1
    <3>2. h = [i \in 1 .. k |-> Next1(h, i)]
      BY <3>1
    <3>. QED  BY <1>0, <3>2
  <2>. QED  BY <2>4, k \in Nat
<1>3. 0 .. m \subseteq Fine
  <2>. HIDE DEF Fine
  <2>. QED  BY <1>1, <1>2, UpwardTo
<1>4. m \in Fine
  BY <1>3
<1>. QED  BY <1>4

\* The chain goes from the image opened to one ancestor after another.
Descends ==
    /\ IsSeq(chain) /\ IsInjective(chain)
    /\ \A k \in 1 .. Len(chain) : ~ImageFails(chain[k])
    /\ Len(chain) > 0 => chain[1] = disk.top
    /\ \A k \in 2 .. Len(chain) : chain[k] = disk.images[chain[k - 1]].parent

\* The last image of the chain has no parent.
Ended == disk.images[chain[Len(chain)]].parent = Absent

\* No chain is longer than there are images.
LEMMA ChainFits ==
    ASSUME disk \in Disks, Descends
    PROVE  Cardinality(DOMAIN disk.images) \in Nat /\ Len(chain) <= Cardinality(DOMAIN disk.images)
<1>. DEFINE L == Len(chain)
            T == DOMAIN disk.images
<1>1. L \in Nat /\ DOMAIN chain = 1 .. L
  BY SeqFacts DEF Descends
<1>2. IsFiniteSet(T)
  BY ImagesAssumption
<1>3. \A k \in 1 .. L : chain[k] \in T
  BY DEF Descends, ImageFails
<1>4. chain \in [1 .. L -> Range(chain)]
  BY <1>1 DEF Descends, IsSeq
<1>. HIDE DEF L, T
<1>5. chain \in Injection(1 .. L, T)
  <2>1. chain \in [1 .. L -> T]
    BY <1>3, <1>4
  <2>. QED  BY <2>1 DEF Injection, Descends
<1>6. Cardinality(1 .. L) <= Cardinality(T) /\ Cardinality(T) \in Nat
  BY <1>2, <1>5, FS_Injection, FS_CardinalityType
<1>7. Cardinality(1 .. L) = L
  <2>1. Cardinality(1 .. L) = IF 1 > L THEN 0 ELSE L - 1 + 1
    BY <1>1, FS_Interval
  <2>. QED  BY <1>1, <2>1
<1>. QED  BY <1>6, <1>7 DEF L, T

\* s has the k first images of the chain.
Agrees(s, k) == \A j \in 1 .. k : s[j] = chain[j]

\* The line begins with the chain, and has no more when that has come to its end.
LEMMA LineageIs ==
    ASSUME disk \in Disks, Descends, Len(chain) > 0
    PROVE  /\ IsSeq(Lineage) /\ Len(Lineage) >= Len(chain)
           /\ \A j \in 1 .. Len(chain) : Lineage[j] = chain[j]
           /\ Ended => Len(Lineage) = Len(chain)
<1>. DEFINE L == Len(chain)
            n == Cardinality(DOMAIN disk.images)
            f == CHOOSE g : Line(disk, g, n)
            par(u) == disk.images[u].parent
<1>1. n \in Nat /\ L \in Nat /\ L > 0 /\ L <= n
  <2>1. L \in Nat
    BY SeqFacts DEF Descends
  <2>. QED  BY <2>1, ChainFits
<1>2. Line(disk, f, n)
  BY <1>1, LineExists
<1>3. Lineage = f[n]
  BY DEF Lineage, Line
<1>. HIDE DEF f, n, L
<1>4. /\ f[1] = <<disk.top>>
      /\ \A k \in 2 .. n : f[k] = IF par(Last(f[k - 1])) \notin DOMAIN disk.images THEN f[k - 1]
                                  ELSE Append(f[k - 1], par(Last(f[k - 1])))
  <2>1. \A k \in 1 .. n : f[k] = IF k = 1 THEN <<disk.top>>
                                 ELSE IF par(Last(f[k - 1])) \notin DOMAIN disk.images THEN f[k - 1]
                                 ELSE Append(f[k - 1], par(Last(f[k - 1])))
    BY <1>2, Zenon DEF Line
  <2>2. 1 \in 1 .. n /\ \A k \in 2 .. n : k \in 1 .. n /\ k # 1
    BY <1>1
  <2>. HIDE DEF par
  <2>. QED  BY <2>1, <2>2, Zenon
<1>5. /\ \A k \in 1 .. L : chain[k] \in DOMAIN disk.images
      /\ chain[1] = disk.top
      /\ \A k \in 2 .. L : chain[k] = par(chain[k - 1])
  BY <1>1 DEF Descends, ImageFails, L
<1>6. Absent \notin DOMAIN disk.images
  BY ImagesAssumption
<1>7. Ended <=> par(chain[L]) = Absent
  BY DEF Ended, L
<1>. HIDE DEF par
<1>. DEFINE Is(k) == /\ IsSeq(f[k])
                     /\ k <= L => Len(f[k]) = k /\ Agrees(f[k], k)
                     /\ k >= L => Len(f[k]) >= L /\ Agrees(f[k], L) /\ (Ended => Len(f[k]) = L)
            G == {j \in 0 .. n - 1 : Is(j + 1)}
<1>8. Is(1)
  <2>1. f[1] \in Seq({disk.top}) /\ Len(f[1]) = 1 /\ f[1][1] = disk.top
    BY <1>4
  <2>2. IsSeq(f[1])
    BY <2>1, MakesSeq
  <2>3. Agrees(f[1], 1)
    BY <1>5, <2>1 DEF Agrees
  <2>4. 1 >= L => L = 1
    BY <1>1
  <2>. QED  BY <2>1, <2>2, <2>3, <2>4
<1>9. ASSUME NEW j \in 1 .. n - 1, j - 1 \in G PROVE j \in G
  <2>1. Is(j)
    BY <1>9
  <2>2. j \in Nat /\ j >= 1 /\ j + 1 \in 2 .. n /\ j + 1 - 1 = j /\ j \in 0 .. n - 1
    BY <1>1
  <2>3. f[j + 1] = IF par(Last(f[j])) \notin DOMAIN disk.images THEN f[j] ELSE Append(f[j], par(Last(f[j])))
    <3>1. f[j + 1] = IF par(Last(f[j + 1 - 1])) \notin DOMAIN disk.images THEN f[j + 1 - 1] ELSE Append(f[j + 1 - 1], par(Last(f[j + 1 - 1])))
      BY <1>4, <2>2
    <3>. QED  BY <2>2, <3>1
  <2>. DEFINE s == f[j]
              e == par(Last(s))
  <2>4. /\ IsSeq(Append(s, e)) /\ Len(Append(s, e)) = Len(s) + 1 /\ Len(s) \in Nat
        /\ \A i \in 1 .. Len(s) : Append(s, e)[i] = s[i]
        /\ Append(s, e)[Len(s) + 1] = e
    BY <2>1, AppendIs, SeqFacts
  <2>5. CASE j < L
    <3>1. Len(s) = j /\ \A i \in 1 .. j : s[i] = chain[i]
      BY <1>1, <2>1, <2>2, <2>5 DEF Agrees
    <3>2. Last(s) = chain[j]
      BY <2>2, <3>1 DEF Last
    <3>3. j + 1 \in 2 .. L /\ j + 1 \in 1 .. L
      BY <1>1, <2>2, <2>5
    <3>4. e = chain[j + 1]
      <4>1. chain[j + 1] = par(chain[j + 1 - 1])
        BY <1>5, <3>3
      <4>. QED  BY <2>2, <3>2, <4>1
    <3>5. f[j + 1] = Append(s, e) /\ e \in DOMAIN disk.images
      BY <1>5, <2>3, <3>3, <3>4
    <3>. HIDE DEF s, e
    <3>6. IsSeq(f[j + 1]) /\ Len(f[j + 1]) = j + 1
      BY <2>4, <3>1, <3>5
    <3>7. \A i \in 1 .. j + 1 : f[j + 1][i] = chain[i]
      <4>1. ASSUME NEW i \in 1 .. j + 1 PROVE f[j + 1][i] = chain[i]
        <5>1. CASE i = j + 1
          BY <2>4, <3>1, <3>4, <3>5, <5>1
        <5>2. CASE i # j + 1
          <6>1. i \in 1 .. j
            BY <2>2, <5>2
          <6>. QED  BY <2>4, <3>1, <3>5, <6>1
        <5>. QED  BY <5>1, <5>2
      <4>. QED  BY <4>1
    <3>8. j + 1 >= L => j + 1 = L
      BY <1>1, <2>2, <2>5
    <3>9. Is(j + 1)
      BY <1>1, <2>2, <3>6, <3>7, <3>8 DEF Agrees
    <3>. QED  BY <2>2, <3>9
  <2>6. CASE ~(j < L)
    <3>1. Len(s) >= L /\ (\A i \in 1 .. L : s[i] = chain[i]) /\ (Ended => Len(s) = L)
      BY <1>1, <2>1, <2>2, <2>6 DEF Agrees
    <3>2. Ended => e = Absent
      <4>1. Ended => Last(s) = chain[L]
        BY <1>1, <3>1 DEF Last
      <4>. QED  BY <1>7, <4>1
    <3>3. ~(j + 1 <= L)
      BY <1>1, <2>2, <2>6
    <3>. HIDE DEF s, e
    <3>4. f[j + 1] = s \/ (f[j + 1] = Append(s, e) /\ ~Ended)
      BY <1>6, <2>3, <3>2 DEF s, e
    <3>5. IsSeq(s)
      BY <2>1 DEF s
    <3>6. IsSeq(f[j + 1]) /\ Len(f[j + 1]) >= L /\ (Ended => Len(f[j + 1]) = L)
      <4>1. CASE f[j + 1] = s
        <5>1. IsSeq(f[j + 1])
          BY <3>5, <4>1
        <5>. QED  BY <3>1, <4>1, <5>1
      <4>2. CASE f[j + 1] = Append(s, e) /\ ~Ended
        <5>1. IsSeq(f[j + 1]) /\ Len(f[j + 1]) = Len(s) + 1
          BY <2>4, <4>2, Zenon
        <5>. QED  BY <1>1, <2>4, <3>1, <4>2, <5>1
      <4>. QED  BY <3>4, <4>1, <4>2
    <3>7. \A i \in 1 .. L : f[j + 1][i] = chain[i]
      <4>1. \A i \in 1 .. L : i \in 1 .. Len(s)
        BY <1>1, <2>4, <3>1
      <4>. QED  BY <2>4, <3>1, <3>4, <4>1
    <3>8. Is(j + 1)
      BY <3>3, <3>6, <3>7 DEF Agrees
    <3>. QED  BY <2>2, <3>8
  <2>. QED  BY <2>5, <2>6
<1>10. 0 .. n - 1 \subseteq G
  <2>1. n - 1 \in Nat /\ 0 \in 0 .. n - 1
    BY <1>1
  <2>2. 0 \in G
    BY <1>8, <2>1
  <2>. HIDE DEF G
  <2>. QED  BY <1>9, <2>1, <2>2, UpwardTo
<1>11. Is(n)
  <2>1. n - 1 \in 0 .. n - 1 /\ n - 1 + 1 = n
    BY <1>1
  <2>. HIDE DEF Is
  <2>2. n - 1 \in G
    BY <1>10, <2>1
  <2>. QED  BY <2>1, <2>2
<1>12. n >= L
  BY <1>1
<1>. QED  BY <1>3, <1>11, <1>12 DEF Agrees, L

-----------------------------------------------------------------------------
(* Where the walk is in the chain.                                         *)

AtImage == pc = "extent" \/ InPiece

Places == {"image", "extent", "piece", "insert", "remove", "fill", "gap", "open", "refused"}

\* The chain leads from the image opened to the one at hand, all of one size; and what no
\* image has is made zeros only after the last of them.
Chained ==
    /\ pc \in Places
    /\ Descends
    /\ \A k \in 1 .. Len(chain) : SizeOf(chain[k]) = image_size
    /\ pc \notin {"image", "refused"} \/ image_size # Absent => Len(chain) > 0
    /\ AtImage => url = chain[Len(chain)]
    /\ pc = "image" => url = IF Len(chain) = 0 THEN disk.top ELSE disk.images[chain[Len(chain)]].parent
    /\ url \in Files
    /\ pc = "gap" \/ (pc = "fill" /\ DOMAIN uncovered # {}) => Ended

\* The chain is empty at first.
LEMMA InitChained == ASSUME Init PROVE Chained
<1>. USE DEF Init
<1>1. IsSeq(chain) /\ Len(chain) = 0 /\ IsInjective(chain)
  BY DEF IsSeq, Range, IsInjective
<1>2. Descends
  BY <1>1 DEF Descends
<1>3. url \in Files
  BY DEF Files
<1>. QED  BY <1>1, <1>2, <1>3 DEF Chained, AtImage, InPiece, Places

\* A step that leaves the images alone keeps the chain.
LEMMA SameChained ==
    ASSUME Chained, UNCHANGED <<disk, chain, url, image_size>>, pc' \in Places,
           AtImage' => AtImage, pc' \in {"image", "refused"} <=> pc \in {"image", "refused"},
           pc' = "image" => pc = "image",
           pc' = "gap" \/ (pc' = "fill" /\ DOMAIN uncovered' # {}) =>
              pc = "gap" \/ (pc = "fill" /\ DOMAIN uncovered # {})
    PROVE  Chained'
<1>1. Descends'
  <2>1. \A u : ImageFails(u)' <=> ImageFails(u)
    BY DEF ImageFails, FileOf
  <2>. QED  BY <2>1 DEF Chained, Descends
<1>2. (Ended' <=> Ended) /\ Files' = Files /\ \A u : SizeOf(u)' = SizeOf(u)
  BY DEF Ended, Files, SizeOf
<1>3. \A k \in 1 .. Len(chain') : SizeOf(chain[k])' = image_size'
  BY <1>2 DEF Chained
<1>4. url' \in Files'
  BY <1>2 DEF Chained
<1>. QED  BY <1>1, <1>2, <1>3, <1>4 DEF Chained

\* Every step keeps the chain.
LEMMA NextChained == ASSUME Inv, Chained, ImagesOnce', [Next]_vars PROVE Chained'
<1>. USE DEF AtImage, InPiece, Places
<1>1. ASSUME TakeImage, Refuses(url) PROVE Chained'
  <2>1. pc = "image" /\ pc' = "refused" /\ UNCHANGED <<disk, chain, url, image_size>>
    BY <1>1 DEF TakeImage
  <2>. QED  BY <2>1, SameChained
<1>2. ASSUME TakeImage, ~Refuses(url) PROVE Chained'
  <2>1. /\ pc = "image" /\ pc' = "extent" /\ chain' = Append(chain, url) /\ image_size' = SizeOf(url)
        /\ UNCHANGED <<disk, url>>
    BY <1>2 DEF TakeImage
  <2>2. ~ImageFails(url) /\ (image_size # Absent => image_size = SizeOf(url))
    BY <1>2 DEF Refuses
  <2>3. IsSeq(chain) /\ Len(chain) \in Nat
    BY SeqFacts DEF Chained, Descends
  <2>. DEFINE c == Append(chain, url)
  <2>4. /\ IsSeq(c) /\ Len(c) = Len(chain) + 1
        /\ \A i \in 1 .. Len(chain) : c[i] = chain[i]
        /\ c[Len(chain) + 1] = url
    BY <2>3, AppendIs
  <2>5. chain' = c
    BY <2>1
  <2>. HIDE DEF c
  <2>6. \A u : (ImageFails(u)' <=> ImageFails(u)) /\ SizeOf(u)' = SizeOf(u)
    BY <2>1 DEF ImageFails, FileOf, SizeOf
  <2>7. Descends'
    <3>1. \A k \in 1 .. Len(c) : ~ImageFails(c[k])
      <4>1. ASSUME NEW k \in 1 .. Len(c) PROVE ~ImageFails(c[k])
        <5>1. CASE k = Len(chain) + 1
          BY <2>2, <2>4, <5>1
        <5>2. CASE k # Len(chain) + 1
          <6>1. k \in 1 .. Len(chain)
            BY <2>3, <2>4, <5>2
          <6>. QED  BY <2>4, <6>1 DEF Chained, Descends
        <5>. QED  BY <5>1, <5>2
      <4>. QED  BY <4>1
    <3>2. c[1] = disk.top
      <4>1. CASE Len(chain) = 0
        BY <2>1, <2>4, <4>1 DEF Chained
      <4>2. CASE Len(chain) # 0
        <5>1. 1 \in 1 .. Len(chain) /\ Len(chain) > 0
          BY <2>3, <4>2
        <5>. QED  BY <2>4, <5>1 DEF Chained, Descends
      <4>. QED  BY <4>1, <4>2
    <3>3. ASSUME NEW k \in 2 .. Len(c) PROVE c[k] = disk.images[c[k - 1]].parent
      <4>1. CASE k = Len(chain) + 1
        <5>1. Len(chain) \in 1 .. Len(chain) /\ Len(chain) # 0 /\ k - 1 = Len(chain)
          BY <2>3, <2>4, <4>1
        <5>. QED  BY <2>1, <2>4, <4>1, <5>1 DEF Chained
      <4>2. CASE k # Len(chain) + 1
        <5>1. k \in 2 .. Len(chain) /\ k \in 1 .. Len(chain) /\ k - 1 \in 1 .. Len(chain)
          BY <2>3, <2>4, <4>2
        <5>2. chain[k] = disk.images[chain[k - 1]].parent
          BY <5>1 DEF Chained, Descends
        <5>. QED  BY <2>4, <5>1, <5>2
      <4>. QED  BY <4>1, <4>2
    <3>4. IsInjective(c)
      BY <2>5 DEF ImagesOnce
    <3>. QED  BY <2>1, <2>4, <2>5, <2>6, <3>1, <3>2, <3>3, <3>4 DEF Descends
  <2>8. \A k \in 1 .. Len(c) : SizeOf(c[k]) = SizeOf(url)
    <3>1. ASSUME NEW k \in 1 .. Len(c) PROVE SizeOf(c[k]) = SizeOf(url)
      <4>1. CASE k = Len(chain) + 1
        BY <2>4, <4>1
      <4>2. CASE k # Len(chain) + 1
        <5>1. k \in 1 .. Len(chain)
          BY <2>3, <2>4, <4>2
        <5>2. SizeOf(chain[k]) = image_size /\ ~ImageFails(chain[k])
          BY <5>1 DEF Chained, Descends
        <5>3. SizeOf(chain[k]) # Absent
          <6>1. SizeOf(chain[k]) \div SECTOR_SIZE \in Nat /\ SizeOf(chain[k]) = (SizeOf(chain[k]) \div SECTOR_SIZE) * SECTOR_SIZE
            BY <5>2, ExtentsAre DEF Inv, SizeKnown
          <6>2. \A n \in Nat : n * SECTOR_SIZE # Absent
            <7>1. \A n \in Nat : n * SECTOR_SIZE \in Nat
              BY VmdkAssumption
            <7>. QED  BY <7>1, VmdkAssumption
          <6>. QED  BY <6>1, <6>2
        <5>. QED  BY <2>2, <2>4, <5>1, <5>2, <5>3
      <4>. QED  BY <4>1, <4>2
    <3>. QED  BY <3>1
  <2>9. Len(c) > 0 /\ c[Len(c)] = url
    BY <2>3, <2>4
  <2>10. url' \in Files'
    BY <2>1 DEF Chained, Files
  <2>11. \A k \in 1 .. Len(chain') : SizeOf(chain[k])' = image_size'
    BY <2>1, <2>5, <2>6, <2>8
  <2>. QED  BY <2>1, <2>5, <2>7, <2>9, <2>10, <2>11 DEF Chained
<1>3. ASSUME ImageDone PROVE Chained'
  <2>1. /\ pc = "extent" /\ UNCHANGED <<disk, chain, image_size, uncovered>>
        /\ pc' = IF disk.images[url].parent = Absent THEN "fill" ELSE "image"
        /\ url' = IF disk.images[url].parent = Absent THEN url ELSE disk.images[url].parent
    BY <1>3 DEF ImageDone
  <2>2. url = chain[Len(chain)] /\ Len(chain) > 0 /\ Len(chain) \in Nat
    BY <2>1, SeqFacts DEF Chained, Descends
  <2>3. \A u : (ImageFails(u)' <=> ImageFails(u)) /\ SizeOf(u)' = SizeOf(u)
    BY <2>1 DEF ImageFails, FileOf, SizeOf
  <2>4. Descends'
    BY <2>1, <2>3 DEF Chained, Descends
  <2>5. Ended' <=> disk.images[url].parent = Absent
    BY <2>1, <2>2 DEF Ended
  <2>6. url \in DOMAIN disk.images
    <3>1. Len(chain) \in 1 .. Len(chain)
      BY <2>2
    <3>. QED  BY <2>2, <3>1 DEF Chained, Descends, ImageFails
  <2>7. url' \in Files'
    BY <2>1, <2>6 DEF Files
  <2>8. \A k \in 1 .. Len(chain') : SizeOf(chain[k])' = image_size'
    BY <2>1, <2>3 DEF Chained
  <2>. QED  BY <2>1, <2>2, <2>4, <2>5, <2>7, <2>8 DEF Chained
<1>4. ASSUME TakeExtent \/ (\E p \in pieces : TakePiece(p)) \/ RemoveSpan PROVE Chained'
  <2>1. /\ UNCHANGED <<disk, chain, url, image_size>> /\ AtImage /\ AtImage' /\ pc' \in {"piece", "insert", "remove"}
        /\ pc \in {"extent", "piece", "insert", "remove"}
    BY <1>4 DEF TakeExtent, TakePiece, RemoveSpan
  <2>. QED  BY <2>1, SameChained
<1>5. ASSUME InsertSpan PROVE Chained'
  <2>1. /\ UNCHANGED <<disk, chain, url, image_size, uncovered>>
        /\ \/ pc \in {"insert", "gap"} /\ pc' = pc
           \/ pc = "insert" /\ pc' = "remove"
           \/ pc = "gap" /\ pc' = "fill"
    BY <1>5 DEF InsertSpan
  <2>. QED  BY <2>1, SameChained
<1>6. ASSUME ExtentDone \/ TakeGap \/ Opened PROVE Chained'
  <2>1. /\ UNCHANGED <<disk, chain, url, image_size>>
        /\ \/ pc = "piece" /\ pc' = "extent"
           \/ pc = "piece" /\ pc' = "fill" /\ DOMAIN uncovered' = {}
           \/ pc = "fill" /\ DOMAIN uncovered # {} /\ pc' = "gap"
           \/ pc = "fill" /\ pc' = "open"
    BY <1>6 DEF ExtentDone, TakeGap, Opened
  <2>. QED  BY <2>1, SameChained
<1>7. ASSUME \/ \E r \in Reads : BeginRead(r[1], r[2])
             \/ ReadSpan \/ EndRead \/ Return \/ Rest \/ UNCHANGED vars
      PROVE  Chained'
  <2>1. UNCHANGED <<disk, chain, url, image_size, pc, uncovered>>
    BY <1>7 DEF BeginRead, ReadSpan, EndRead, Return, Rest, vars, build
  <2>2. pc \in Places
    BY DEF Chained
  <2>. QED  BY <2>1, <2>2, SameChained
<1>. QED  BY <1>1, <1>2, <1>3, <1>4, <1>5, <1>6, <1>7 DEF Next

-----------------------------------------------------------------------------
(* The numbers of sources.                                                 *)

\* Each extent with a file takes the next number.
LEMMA SourceFacts ==
    ASSUME NEW eds, NEW first \in Nat
    PROVE  /\ SourceIndex(eds, 1, first) = first
           /\ \A i \in Nat \ {0} : /\ SourceIndex(eds, i, first) \in Nat /\ first <= SourceIndex(eds, i, first)
                                   /\ SourceIndex(eds, i + 1, first) =
                                        SourceIndex(eds, i, first) + (IF HasFile(eds[i]) THEN 1 ELSE 0)
           /\ \A i, j \in Nat \ {0} : i < j /\ HasFile(eds[i]) =>
                  SourceIndex(eds, i, first) < SourceIndex(eds, j, first)
<1>. DEFINE own(i) == {j \in 1 .. i - 1 : HasFile(eds[j])}
            c(i) == Cardinality(own(i))
<1>1. \A i : SourceIndex(eds, i, first) = first + c(i)
  BY DEF SourceIndex
<1>2. ASSUME NEW i \in Nat \ {0} PROVE IsFiniteSet(own(i)) /\ c(i) \in Nat
  <2>1. i - 1 \in Int /\ 1 \in Int
    OBVIOUS
  <2>2. IsFiniteSet(1 .. i - 1)
    BY <2>1, FS_Interval
  <2>3. own(i) \subseteq 1 .. i - 1
    OBVIOUS
  <2>. HIDE DEF own
  <2>4. IsFiniteSet(own(i))
    BY <2>2, <2>3, FS_Subset
  <2>. QED  BY <2>4, FS_CardinalityType
<1>3. c(1) = 0
  <2>1. own(1) = {}
    OBVIOUS
  <2>. QED  BY <2>1, FS_EmptySet
<1>4. ASSUME NEW i \in Nat \ {0} PROVE c(i + 1) = c(i) + (IF HasFile(eds[i]) THEN 1 ELSE 0)
  <2>1. own(i + 1) = IF HasFile(eds[i]) THEN own(i) \cup {i} ELSE own(i)
    <3>1. \A j : j \in 1 .. i + 1 - 1 <=> j \in 1 .. i - 1 \/ j = i
      OBVIOUS
    <3>. QED  BY <3>1
  <2>2. i \notin own(i)
    OBVIOUS
  <2>. HIDE DEF own
  <2>3. IsFiniteSet(own(i)) /\ Cardinality(own(i)) \in Nat
    BY <1>2
  <2>4. Cardinality(own(i) \cup {i}) = Cardinality(own(i)) + 1
    BY <2>2, <2>3, FS_AddElement
  <2>. QED  BY <2>1, <2>3, <2>4
<1>5. ASSUME NEW i \in Nat \ {0}, NEW j \in Nat \ {0}, i < j, HasFile(eds[i]) PROVE c(i) < c(j)
  <2>1. own(i) \subseteq own(j) /\ i \in own(j) /\ i \notin own(i)
    <3>1. \A x \in 1 .. i - 1 : x \in 1 .. j - 1
      BY <1>5
    <3>2. i \in 1 .. j - 1 /\ i \notin 1 .. i - 1
      BY <1>5
    <3>. QED  BY <1>5, <3>1, <3>2
  <2>. DEFINE A == own(i)
              B == own(j)
  <2>2. IsFiniteSet(A) /\ IsFiniteSet(B) /\ Cardinality(A) \in Nat /\ Cardinality(B) \in Nat
    BY <1>2
  <2>3. A \in SUBSET B /\ A # B
    BY <2>1
  <2>. HIDE DEF A, B
  <2>4. Cardinality(A) <= Cardinality(B) /\ Cardinality(A) # Cardinality(B)
    BY <2>2, <2>3, FS_Subset
  <2>5. Cardinality(A) < Cardinality(B)
    BY <2>2, <2>4
  <2>. QED  BY <2>5 DEF A, B
<1>. HIDE DEF c
<1>6. SourceIndex(eds, 1, first) = first
  BY <1>1, <1>3
<1>7. ASSUME NEW i \in Nat \ {0}
      PROVE  /\ SourceIndex(eds, i, first) \in Nat /\ first <= SourceIndex(eds, i, first)
             /\ SourceIndex(eds, i + 1, first) =
                  SourceIndex(eds, i, first) + (IF HasFile(eds[i]) THEN 1 ELSE 0)
  <2>1. SourceIndex(eds, i, first) = first + c(i) /\ SourceIndex(eds, i + 1, first) = first + c(i + 1)
    BY <1>1, Zenon
  <2>2. c(i) \in Nat /\ c(i + 1) = c(i) + (IF HasFile(eds[i]) THEN 1 ELSE 0)
    BY <1>2, <1>4
  <2>. QED  BY <2>1, <2>2
<1>8. ASSUME NEW i \in Nat \ {0}, NEW j \in Nat \ {0}, i < j, HasFile(eds[i])
      PROVE  SourceIndex(eds, i, first) < SourceIndex(eds, j, first)
  <2>1. c(i) < c(j) /\ c(i) \in Nat /\ c(j) \in Nat
    BY <1>2, <1>5, <1>8
  <2>. QED  BY <1>1, <2>1
<1>. QED  BY <1>6, <1>7, <1>8

\* Registering an image gives its file and those of its extents their numbers, and leaves
\* the lower ones alone.
LEMMA RegisteredIs ==
    ASSUME disk \in Disks, NEW u, ~ImageFails(u), u \in Files, idx \in Nat,
           \A n \in DOMAIN sources : n \in Nat /\ sources[n] \in Files \ {Absent}
    PROVE  LET eds == disk.images[u].extents
               reg == Registered(u)
           IN  /\ \A n \in DOMAIN reg : n \in Nat /\ reg[n] \in Files \ {Absent}
               /\ \A n \in DOMAIN sources : n < idx => n \in DOMAIN reg /\ reg[n] = sources[n]
               /\ \A i \in 1 .. Len(eds) : HasFile(eds[i]) =>
                      /\ SourceIndex(eds, i, idx + 1) \in DOMAIN reg
                      /\ reg[SourceIndex(eds, i, idx + 1)] = FileOf(u, eds[i])
<1>. DEFINE eds == disk.images[u].extents
            exs == read_extents(u, idx + 1)
            own == {i \in DOMAIN exs : HasFile(exs[i].ed)}
            Pick(n) == CHOOSE i \in own : exs[i].src = n
            File(n) == IF n = idx THEN u ELSE FileOf(u, exs[Pick(n)].ed)
            new == {idx} \cup {exs[i].src : i \in own}
            At(n) == IF n \in new THEN File(n) ELSE sources[n]
            reg == Registered(u)
            S(i) == SourceIndex(eds, i, idx + 1)
<1>1. reg = [n \in DOMAIN sources \cup new |-> At(n)]
  BY DEF Registered
<1>2. /\ Len(eds) \in Nat /\ DOMAIN eds = 1 .. Len(eds) /\ u \in DOMAIN disk.images
  BY ImageFacts
<1>3. /\ DOMAIN exs = 1 .. Len(eds)
      /\ \A i \in 1 .. Len(eds) : exs[i].ed = eds[i] /\ exs[i].src = S(i)
  BY ReadMakes DEF MadeOf
<1>4. own = {i \in 1 .. Len(eds) : HasFile(eds[i])}
  BY <1>3
<1>5. /\ \A i \in 1 .. Len(eds) : S(i) \in Nat /\ idx < S(i)
      /\ \A i, j \in 1 .. Len(eds) : HasFile(eds[i]) /\ HasFile(eds[j]) /\ S(i) = S(j) => i = j
  <2>1. \A i \in 1 .. Len(eds) : i \in Nat \ {0}
    BY <1>2
  <2>2. idx + 1 \in Nat
    OBVIOUS
  <2>3. /\ \A i \in Nat \ {0} : S(i) \in Nat /\ idx + 1 <= S(i)
        /\ \A i, j \in Nat \ {0} : i < j /\ HasFile(eds[i]) => S(i) < S(j)
    <3>. DEFINE first == idx + 1
    <3>1. first \in Nat
      OBVIOUS
    <3>. HIDE DEF first
    <3>2. /\ \A i \in Nat \ {0} : SourceIndex(eds, i, first) \in Nat /\ first <= SourceIndex(eds, i, first)
          /\ \A i, j \in Nat \ {0} : i < j /\ HasFile(eds[i]) => SourceIndex(eds, i, first) < SourceIndex(eds, j, first)
      BY <3>1, SourceFacts
    <3>. QED  BY <3>2 DEF first
  <2>. HIDE DEF S
  <2>4. ASSUME NEW i \in 1 .. Len(eds) PROVE S(i) \in Nat /\ idx < S(i)
    <3>1. S(i) \in Nat /\ idx + 1 <= S(i)
      BY <2>1, <2>3
    <3>. QED  BY <3>1
  <2>5. ASSUME NEW i \in 1 .. Len(eds), NEW j \in 1 .. Len(eds), HasFile(eds[i]), HasFile(eds[j]), S(i) = S(j)
        PROVE  i = j
    <3>1. ~(i < j) /\ ~(j < i)
      <4>1. i < j => S(i) < S(j)
        BY <2>1, <2>3, <2>5
      <4>2. j < i => S(j) < S(i)
        BY <2>1, <2>3, <2>5
      <4>. QED  BY <2>4, <2>5, <4>1, <4>2
    <3>. QED  BY <1>2, <3>1
  <2>. QED  BY <2>4, <2>5
<1>6. ASSUME NEW i \in 1 .. Len(eds), HasFile(eds[i])
      PROVE  S(i) \in new /\ Pick(S(i)) = i /\ File(S(i)) = FileOf(u, eds[i])
  <2>1. i \in own /\ exs[i].src = S(i)
    BY <1>3, <1>4, <1>6
  <2>2. \A j \in own : exs[j].src = S(i) => j = i
    BY <1>3, <1>4, <1>5, <1>6
  <2>. HIDE DEF own, exs, S
  <2>3. Pick(S(i)) = i
    BY <2>1, <2>2
  <2>4. S(i) # idx
    BY <1>5
  <2>. HIDE DEF Pick
  <2>. QED  BY <1>3, <2>1, <2>3, <2>4
<1>7. Absent \notin DOMAIN disk.images
  BY ImagesAssumption
<1>8. u \in Files \ {Absent}
  BY <1>2, <1>7
<1>9. \A i \in 1 .. Len(eds) : HasFile(eds[i]) => FileOf(u, eds[i]) \in Files \ {Absent}
  <2>1. ASSUME NEW i \in 1 .. Len(eds), HasFile(eds[i]) PROVE FileOf(u, eds[i]) \in Files \ {Absent}
    <3>1. FileOf(u, eds[i]) # Absent
      BY <1>2, <2>1 DEF ImageFails
    <3>2. FileOf(u, eds[i]) \in {eds[i].file, u, Absent}
      BY DEF FileOf
    <3>3. eds[i].file \in Files
      <4>1. eds[i] \in Range(eds)
        BY <1>2 DEF Range
      <4>. QED  BY <1>2, <4>1 DEF Files
    <3>. QED  BY <3>1, <3>2, <3>3
  <2>. QED  BY <2>1
<1>10. \A n \in new : n = idx \/ \E i \in 1 .. Len(eds) : HasFile(eds[i]) /\ n = S(i)
  BY <1>3, <1>4
<1>. HIDE DEF own, exs, S, Pick
<1>11. File(idx) = u
  OBVIOUS
<1>. HIDE DEF File, new
<1>12. ASSUME NEW n \in new PROVE n \in Nat /\ idx <= n /\ File(n) \in Files \ {Absent}
  <2>1. CASE n = idx
    BY <1>8, <1>11, <2>1
  <2>2. CASE n # idx
    <3>1. PICK i \in 1 .. Len(eds) : HasFile(eds[i]) /\ n = S(i)
      BY <1>10, <2>2
    <3>2. S(i) \in Nat /\ idx < S(i)
      BY <1>5
    <3>. QED  BY <1>6, <1>9, <3>1, <3>2
  <2>. QED  BY <2>1, <2>2
<1>13. /\ DOMAIN reg = DOMAIN sources \cup new
       /\ \A n \in DOMAIN sources \cup new : reg[n] = IF n \in new THEN File(n) ELSE sources[n]
  BY <1>1
<1>. HIDE DEF reg
<1>14. \A n \in DOMAIN reg : n \in Nat /\ reg[n] \in Files \ {Absent}
  BY <1>12, <1>13
<1>15. \A n \in DOMAIN sources : n < idx => n \in DOMAIN reg /\ reg[n] = sources[n]
  BY <1>12, <1>13
<1>16. \A i \in 1 .. Len(eds) : HasFile(eds[i]) => S(i) \in DOMAIN reg /\ reg[S(i)] = FileOf(u, eds[i])
  BY <1>6, <1>13
<1>. QED  BY <1>14, <1>15, <1>16 DEF reg, S

-----------------------------------------------------------------------------
(* The extents and their sources.                                          *)

\* Extent ex is one of the k-th image of the chain, and its source is the file behind it.
From(k, ex) ==
    /\ \E i \in Nat : MadeOf(chain[k], i, ex)
    /\ HasFile(ex.ed) => ex.src \in DOMAIN sources /\ sources[ex.src] = FileOf(chain[k], ex.ed)

\* What is still to be added of the image at hand is its extents from the i-th on.
Suffix(first, i) ==
    LET eds == disk.images[url].extents
    IN  /\ i \in 1 .. Len(eds) + 1
        /\ Len(todo) = Len(eds) + 1 - i
        /\ \A k \in 1 .. Len(todo) : todo[k] = read_extents(url, first)[i + k - 1]
        /\ idx = SourceIndex(eds, i, first)

\* Sources of extents that are in have numbers below the next one, those to come have theirs
\* from there on, and each is the file of its extent.
Sourced ==
    /\ idx \in Nat
    /\ \A n \in DOMAIN sources : n \in Nat /\ sources[n] \in Files \ {Absent}
    /\ \A ex \in Range(extents) : HasFile(ex.ed) => ex.src \in Nat /\ ex.src < idx
    /\ AtImage => (\E first \in Nat, i \in Nat : Suffix(first, i)) /\ \A ex \in Range(todo) : From(Len(chain), ex)

\* The pieces are of the extent at hand.
PiecesAre ==
    /\ InPiece => pieces \subseteq SpansOf(Head(todo))
    /\ ~InPiece => pieces = {}
    /\ pc \in {"insert", "remove"} => <<cur.beg, cur.end>> \in SpansOf(Head(todo))

\* There are no sources and no pieces at first.
LEMMA InitSourced == ASSUME Init PROVE Sourced /\ PiecesAre
<1>. USE DEF Init
<1>1. DOMAIN sources = {} /\ Range(extents) = {}
  BY DEF Range
<1>2. Sourced
  BY <1>1 DEF Sourced, AtImage, InPiece
<1>3. PiecesAre
  BY DEF PiecesAre, InPiece
<1>. QED  BY <1>2, <1>3

\* Where extents are from does not depend on how far the walk is.
LEMMA SameFrom ==
    ASSUME UNCHANGED <<disk, chain, sources>>
    PROVE  /\ \A k, ex : From(k, ex)' <=> From(k, ex)
           /\ \A u : (ImageFails(u)' <=> ImageFails(u)) /\ \A s : HasSector(u, s)' <=> HasSector(u, s)
           /\ Ended' <=> Ended
           /\ Files' = Files
BY DEF From, MadeOf, FileOf, ImageFails, HasSector, HasGrain, ExtentAt, Ended, Files

\* A step that leaves the extents and the sources alone keeps them.
LEMMA SameSourced ==
    ASSUME Sourced, UNCHANGED <<disk, chain, url, idx, sources, todo, extents>>, AtImage' => AtImage
    PROVE  Sourced'
<1>1. Files' = Files /\ \A k, ex : From(k, ex)' <=> From(k, ex)
  BY SameFrom
<1>2. \A first, i : Suffix(first, i)' <=> Suffix(first, i)
  BY DEF Suffix, read_extents
<1>. QED  BY <1>1, <1>2 DEF Sourced

\* The first extent of a sequence, and those after it.
LEMMA HeadTail ==
    ASSUME NEW s, IsSeq(s), s # <<>>
    PROVE  /\ Len(s) \in Nat /\ Len(s) > 0 /\ Head(s) = s[1]
           /\ Len(Tail(s)) = Len(s) - 1
           /\ \A k \in 1 .. Len(s) - 1 : Tail(s)[k] = s[k + 1]
           /\ \A x \in Range(s) : x = Head(s) \/ x \in Range(Tail(s))
<1>1. s \in Seq(Range(s)) /\ Len(s) \in Nat /\ DOMAIN s = 1 .. Len(s)
  BY SeqFacts DEF IsSeq
<1>2. Len(s) > 0 /\ Head(s) = s[1] /\ Len(Tail(s)) = Len(s) - 1
  BY <1>1, HeadTailProperties, EmptySeq
<1>3. \A k \in 1 .. Len(s) - 1 : Tail(s)[k] = s[k + 1]
  BY <1>1, <1>2, HeadTailProperties
<1>4. ASSUME NEW x \in Range(s), x # Head(s) PROVE x \in Range(Tail(s))
  <2>1. PICK k \in 1 .. Len(s) : x = s[k]
    BY <1>1 DEF Range
  <2>2. k # 1
    BY <1>2, <1>4, <2>1
  <2>3. k - 1 \in 1 .. Len(s) - 1 /\ k - 1 + 1 = k
    BY <1>1, <2>2
  <2>4. Tail(s)[k - 1] = x
    BY <1>3, <2>1, <2>3
  <2>5. DOMAIN Tail(s) = 1 .. Len(s) - 1
    <3>1. IsSeq(Tail(s))
      BY TailIs
    <3>. QED  BY <1>2, <3>1, SeqFacts
  <2>. QED  BY <2>3, <2>4, <2>5 DEF Range
<1>. QED  BY <1>1, <1>2, <1>3, <1>4

\* The number of the extent at hand is the next one, and the rest is a shorter suffix.
LEMMA SuffixHead ==
    ASSUME NEW first \in Nat, NEW i \in Nat, Suffix(first, i), IsSeq(todo), todo # <<>>,
           disk \in Disks, ~ImageFails(url), idx \in Nat
    PROVE  LET eds == disk.images[url].extents
           IN  /\ HasFile(Head(todo).ed) => Head(todo).src = idx
               /\ i + 1 \in 1 .. Len(eds) + 1
               /\ Len(Tail(todo)) = Len(eds) + 1 - (i + 1)
               /\ \A k \in 1 .. Len(Tail(todo)) : Tail(todo)[k] = read_extents(url, first)[i + 1 + k - 1]
               /\ (IF HasFile(Head(todo).ed) THEN idx + 1 ELSE idx) = SourceIndex(eds, i + 1, first)
<1>. DEFINE eds == disk.images[url].extents
            exs == read_extents(url, first)
<1>1. /\ i \in 1 .. Len(eds) + 1
      /\ Len(todo) = Len(eds) + 1 - i
      /\ \A k \in 1 .. Len(todo) : todo[k] = exs[i + k - 1]
      /\ idx = SourceIndex(eds, i, first)
  BY DEF Suffix
<1>2. /\ Len(todo) \in Nat /\ Len(todo) > 0 /\ Head(todo) = todo[1]
      /\ Len(Tail(todo)) = Len(todo) - 1
      /\ \A k \in 1 .. Len(todo) - 1 : Tail(todo)[k] = todo[k + 1]
  BY HeadTail
<1>3. Len(eds) \in Nat
  BY ImageFacts
<1>4. i \in 1 .. Len(eds) /\ i \in Nat \ {0} /\ i + 1 - 1 = i /\ 1 \in 1 .. Len(todo)
  BY <1>1, <1>2, <1>3
<1>5. exs[i].ed = eds[i] /\ exs[i].src = SourceIndex(eds, i, first)
  BY <1>4, ReadMakes DEF MadeOf
<1>6. SourceIndex(eds, i + 1, first) = SourceIndex(eds, i, first) + (IF HasFile(eds[i]) THEN 1 ELSE 0)
  BY <1>4, SourceFacts
<1>. HIDE DEF eds, exs
<1>7. Head(todo) = exs[i]
  BY <1>1, <1>2, <1>4
<1>8. \A k \in 1 .. Len(Tail(todo)) : Tail(todo)[k] = exs[i + 1 + k - 1]
  <2>1. ASSUME NEW k \in 1 .. Len(Tail(todo)) PROVE Tail(todo)[k] = exs[i + 1 + k - 1]
    <3>1. k \in 1 .. Len(todo) - 1 /\ k + 1 \in 1 .. Len(todo) /\ i + 1 + k - 1 = i + (k + 1) - 1
      BY <1>2, <1>4
    <3>. QED  BY <1>1, <1>2, <3>1
  <2>. QED  BY <2>1
<1>9. Len(Tail(todo)) = Len(eds) + 1 - (i + 1) /\ i + 1 \in 1 .. Len(eds) + 1
  BY <1>1, <1>2, <1>3, <1>4
<1>10. (IF HasFile(Head(todo).ed) THEN idx + 1 ELSE idx) = SourceIndex(eds, i + 1, first)
  BY <1>1, <1>5, <1>6, <1>7
<1>. QED  BY <1>1, <1>5, <1>7, <1>8, <1>9, <1>10 DEF eds, exs

\* Every step keeps the extents and their sources.
LEMMA NextSourced == ASSUME Inv, Chained, Chained', Sourced, [Next]_vars PROVE Sourced'
<1>0. disk \in Disks /\ IsSeq(todo) /\ IsSeq(extents)
  BY DEF Inv, SizeKnown, TodoWhole
<1>1. ASSUME TakeImage, ~Refuses(url) PROVE Sourced'
  <2>1. idx \in Nat /\ Len(chain) \in Nat /\ IsSeq(chain)
    BY SeqFacts DEF Sourced, Chained, Descends
  <2>0. PICK first \in Nat, n \in Nat : first = idx + 1 /\ n = Len(chain) + 1
    BY <2>1
  <2>2. PICK u, eds, exs :
            /\ u = url /\ eds = disk.images[u].extents /\ exs = read_extents(u, first)
            /\ first = idx + 1 /\ n = Len(chain) + 1
    BY <2>0
  <2>3. /\ pc = "image" /\ pc' = "extent" /\ chain' = Append(chain, u) /\ sources' = Registered(u)
        /\ todo' = exs /\ idx' = first
        /\ disk' = disk /\ url' = u /\ extents' = extents
    BY <1>1, <2>2 DEF TakeImage
  <2>4. ~ImageFails(u) /\ u \in Files
    BY <1>1, <2>2 DEF Refuses, Chained
  <2>5. /\ \A x \in DOMAIN sources' : x \in Nat /\ sources'[x] \in Files \ {Absent}
        /\ \A i \in 1 .. Len(eds) : HasFile(eds[i]) =>
              /\ SourceIndex(eds, i, first) \in DOMAIN sources'
              /\ sources'[SourceIndex(eds, i, first)] = FileOf(u, eds[i])
    <3>1. \A x \in DOMAIN sources : x \in Nat /\ sources[x] \in Files \ {Absent}
      BY DEF Sourced
    <3>. QED  BY <1>0, <2>1, <2>2, <2>3, <2>4, <3>1, RegisteredIs
  <2>6. Len(chain') = n /\ chain'[n] = u
    BY <2>1, <2>2, <2>3, AppendIs
  <2>7. /\ Len(exs) = Len(eds) /\ Len(eds) \in Nat /\ DOMAIN exs = 1 .. Len(eds)
        /\ \A i \in 1 .. Len(eds) : /\ MadeOf(u, i, exs[i]) /\ exs[i].src = SourceIndex(eds, i, first)
                                    /\ exs[i].ed = eds[i]
    BY <1>0, <2>2, <2>4, ReadMakes, ImageFacts DEF MadeOf
  <2>8. SourceIndex(eds, 1, first) = first
    BY SourceFacts
  <2>9. \A a, i : Suffix(a, i)' <=>
            /\ i \in 1 .. Len(eds) + 1
            /\ Len(exs) = Len(eds) + 1 - i
            /\ \A k \in 1 .. Len(exs) : exs[k] = read_extents(u, a)[i + k - 1]
            /\ first = SourceIndex(eds, i, a)
    <3>1. \A a : read_extents(url, a)' = read_extents(url, a)
      <4>1. UNCHANGED <<disk, url>>
        BY <2>2, <2>3
      <4>. QED  BY ONLY <4>1 DEF read_extents
    <3>2. \A a : read_extents(url, a)' = read_extents(u, a)
      BY <2>2, <3>1
    <3>. QED  BY <2>2, <2>3, <3>2 DEF Suffix
  <2>10. \A k, ex : From(k, ex)' <=>
            /\ \E i \in Nat : MadeOf(chain'[k], i, ex)
            /\ HasFile(ex.ed) => ex.src \in DOMAIN sources' /\ sources'[ex.src] = FileOf(chain'[k], ex.ed)
    BY <2>3 DEF From, MadeOf, FileOf
  <2>11. Suffix(first, 1)'
    <3>1. 1 \in 1 .. Len(eds) + 1 /\ Len(exs) = Len(eds) + 1 - 1
      BY <2>7
    <3>2. \A k \in 1 .. Len(exs) : exs[k] = read_extents(u, first)[1 + k - 1]
      <4>1. \A k \in 1 .. Len(exs) : 1 + k - 1 = k
        BY <2>7
      <4>. QED  BY <2>2, <4>1
    <3>. QED  BY <2>8, <2>9, <3>1, <3>2
  <2>12. \E a \in Nat, i \in Nat : Suffix(a, i)'
    BY <2>11
  <2>13. \A ex \in Range(exs) : From(n, ex)'
    <3>1. ASSUME NEW i \in 1 .. Len(eds) PROVE From(n, exs[i])'
      <4>1. MadeOf(chain'[n], i, exs[i]) /\ i \in Nat
        BY <2>6, <2>7
      <4>2. HasFile(exs[i].ed) =>
               exs[i].src \in DOMAIN sources' /\ sources'[exs[i].src] = FileOf(chain'[n], exs[i].ed)
        BY <2>5, <2>6, <2>7
      <4>. QED  BY <2>10, <4>1, <4>2
    <3>. QED  BY <2>7, <3>1 DEF Range
  <2>14. \A ex \in Range(extents') : HasFile(ex.ed) => ex.src \in Nat /\ ex.src < first
    BY <2>1, <2>2, <2>3 DEF Sourced
  <2>15. Files' = Files
    BY <2>3 DEF Files
  <2>16. \A ex \in Range(todo') : From(Len(chain), ex)'
    <3>1. ASSUME NEW ex \in Range(exs) PROVE From(Len(chain), ex)'
      <4>1. From(n, ex)'
        BY <2>13
      <4>. QED  BY <2>6, <4>1
    <3>. QED  BY <2>3, <3>1
  <2>. QED  BY <2>3, <2>5, <2>12, <2>14, <2>15, <2>16 DEF Sourced
<1>2. ASSUME ExtentDone PROVE Sourced'
  <2>1. /\ pc = "piece" /\ extents' = Append(extents, Head(todo)) /\ todo' = Tail(todo)
        /\ idx' = IF HasFile(Head(todo).ed) THEN idx + 1 ELSE idx
        /\ pc' \in {"fill", "extent"}
        /\ UNCHANGED <<disk, url, chain, sources>>
    BY <1>2 DEF ExtentDone
  <2>2. InPiece /\ AtImage /\ todo # <<>> /\ idx \in Nat /\ ~InPiece'
    BY <2>1 DEF InPiece, AtImage, Inv, TodoWhole, Sourced
  <2>3. ~ImageFails(url)
    <3>1. Len(chain) > 0 /\ url = chain[Len(chain)] /\ Len(chain) \in Nat
      BY <2>1, <2>2, SeqFacts DEF Chained, Descends
    <3>2. Len(chain) \in 1 .. Len(chain)
      BY <3>1
    <3>. QED  BY <3>1, <3>2 DEF Chained, Descends
  <2>4. PICK first \in Nat, i \in Nat : Suffix(first, i)
    BY <2>2 DEF Sourced
  <2>5. LET eds == disk.images[url].extents
        IN  /\ HasFile(Head(todo).ed) => Head(todo).src = idx
            /\ i + 1 \in 1 .. Len(eds) + 1
            /\ Len(Tail(todo)) = Len(eds) + 1 - (i + 1)
            /\ \A k \in 1 .. Len(Tail(todo)) : Tail(todo)[k] = read_extents(url, first)[i + 1 + k - 1]
            /\ (IF HasFile(Head(todo).ed) THEN idx + 1 ELSE idx) = SourceIndex(eds, i + 1, first)
    BY <1>0, <2>2, <2>3, <2>4, SuffixHead
  <2>6. Suffix(first, i + 1)'
    <3>1. \A a, b : Suffix(a, b)' <=>
            /\ b \in 1 .. Len(disk.images[url].extents) + 1
            /\ Len(todo') = Len(disk.images[url].extents) + 1 - b
            /\ \A k \in 1 .. Len(todo') : todo'[k] = read_extents(url, a)[b + k - 1]
            /\ idx' = SourceIndex(disk.images[url].extents, b, a)
      BY <2>1 DEF Suffix, read_extents
    <3>. QED  BY <2>1, <2>5, <3>1
  <2>7. Files' = Files /\ \A k, ex : From(k, ex)' <=> From(k, ex)
    BY <2>1, SameFrom
  <2>8. \A ex \in Range(todo') : From(Len(chain), ex)
    BY <1>0, <2>1, <2>2, TailIs DEF Sourced
  <2>9. Range(extents') = Range(extents) \cup {Head(todo)}
    BY <1>0, <2>1, AppendIs
  <2>10. \A ex \in Range(extents') : HasFile(ex.ed) => ex.src \in Nat /\ ex.src < idx'
    <3>1. ASSUME NEW ex \in Range(extents'), HasFile(ex.ed) PROVE ex.src \in Nat /\ ex.src < idx'
      <4>1. CASE ex = Head(todo)
        <5>1. ex.src = idx /\ idx' = idx + 1
          BY <2>1, <2>5, <3>1, <4>1
        <5>. QED  BY <2>2, <5>1
      <4>2. CASE ex \in Range(extents)
        BY <2>1, <2>2, <3>1, <4>2 DEF Sourced
      <4>. QED  BY <2>9, <4>1, <4>2
    <3>. QED  BY <3>1
  <2>11. idx' \in Nat /\ i + 1 \in Nat
    BY <2>1, <2>2
  <2>12. \E a \in Nat, b \in Nat : Suffix(a, b)'
    BY <2>6, <2>11
  <2>13. \A n \in DOMAIN sources' : n \in Nat /\ sources'[n] \in Files' \ {Absent}
    BY <2>1, <2>7 DEF Sourced
  <2>14. \A ex \in Range(todo') : From(Len(chain), ex)'
    BY <2>1, <2>7, <2>8
  <2>. QED  BY <2>10, <2>11, <2>12, <2>13, <2>14 DEF Sourced
<1>3. ASSUME ImageDone \/ Opened PROVE Sourced'
  <2>1. /\ ~AtImage' /\ idx' = idx /\ extents' = extents
        /\ UNCHANGED <<disk, chain, sources>>
    BY <1>3 DEF ImageDone, Opened, AtImage, InPiece
  <2>2. Files' = Files
    BY <2>1 DEF Files
  <2>. QED  BY <2>1, <2>2 DEF Sourced
<1>4. ASSUME InsertSpan, pc' = "fill" PROVE Sourced'
  <2>1. /\ extents' = Append(extents, ZeroExtent(cur.beg, cur.end))
        /\ UNCHANGED <<disk, chain, sources, idx>>
    BY <1>4 DEF InsertSpan
  <2>2. Range(extents') = Range(extents) \cup {ZeroExtent(cur.beg, cur.end)}
    BY <1>0, <2>1, AppendIs
  <2>3. ~HasFile(ZeroExtent(cur.beg, cur.end).ed)
    BY DEF HasFile, ZeroExtent
  <2>4. Files' = Files
    BY <2>1 DEF Files
  <2>5. ~AtImage'
    BY <1>4 DEF AtImage, InPiece
  <2>6. \A ex \in Range(extents') : HasFile(ex.ed) => ex.src \in Nat /\ ex.src < idx
    BY <2>2, <2>3 DEF Sourced
  <2>. QED  BY <2>1, <2>4, <2>5, <2>6 DEF Sourced
<1>5. ASSUME \/ TakeImage /\ Refuses(url)
             \/ TakeExtent \/ (\E p \in pieces : TakePiece(p)) \/ RemoveSpan
             \/ InsertSpan /\ pc' # "fill"
             \/ TakeGap \/ (\E r \in Reads : BeginRead(r[1], r[2]))
             \/ ReadSpan \/ EndRead \/ Return \/ Rest \/ UNCHANGED vars
      PROVE  Sourced'
  <2>1. ASSUME TakeImage, Refuses(url)
        PROVE  UNCHANGED <<disk, chain, url, idx, sources, todo, extents>> /\ (AtImage' => AtImage)
    BY <2>1 DEF TakeImage, AtImage, InPiece
  <2>2. ASSUME TakeExtent \/ (\E p \in pieces : TakePiece(p)) \/ RemoveSpan \/ TakeGap
        PROVE  UNCHANGED <<disk, chain, url, idx, sources, todo, extents>> /\ (AtImage' => AtImage)
    BY <2>2 DEF TakeExtent, TakePiece, RemoveSpan, TakeGap, AtImage, InPiece
  <2>3. ASSUME InsertSpan, pc' # "fill"
        PROVE  UNCHANGED <<disk, chain, url, idx, sources, todo, extents>> /\ (AtImage' => AtImage)
    BY <2>3 DEF InsertSpan, AtImage, InPiece
  <2>4. ASSUME \/ \E r \in Reads : BeginRead(r[1], r[2])
               \/ ReadSpan \/ EndRead \/ Return \/ Rest \/ UNCHANGED vars
        PROVE  UNCHANGED <<disk, chain, url, idx, sources, todo, extents>> /\ (AtImage' => AtImage)
    BY <2>4 DEF BeginRead, ReadSpan, EndRead, Return, Rest, vars, build, AtImage, InPiece
  <2>. QED  BY <1>5, <2>1, <2>2, <2>3, <2>4, SameSourced
<1>. QED  BY <1>1, <1>2, <1>3, <1>4, <1>5 DEF Next

\* A span of an extent is a pair.
LEMMA SpanPairs == ASSUME NEW ex, NEW p \in SpansOf(ex) PROVE p = <<p[1], p[2]>>
<1>1. \E a, b : p = <<a, b>>
  BY DEF SpansOf
<1>. QED  BY <1>1

\* Every step keeps the pieces those of the extent at hand.
LEMMA NextPieces == ASSUME Inv, PiecesAre, [Next]_vars PROVE PiecesAre'
<1>0. cur \in [beg : Nat, end : Nat, sbeg : Nat]
  BY DEF Inv, CurFits
<1>1. ASSUME TakeExtent PROVE PiecesAre'
  BY <1>1 DEF TakeExtent, PiecesAre, InPiece
<1>2. ASSUME NEW p \in pieces, TakePiece(p) PROVE PiecesAre'
  <2>1. /\ pc = "piece" /\ pc' = "insert" /\ pieces' = pieces \ {p} /\ todo' = todo
        /\ cur' = [beg |-> p[1], end |-> p[2], sbeg |-> p[1]]
    BY <1>2 DEF TakePiece
  <2>2. pieces \subseteq SpansOf(Head(todo))
    BY <2>1 DEF PiecesAre, InPiece
  <2>3. p = <<p[1], p[2]>>
    BY <2>2, SpanPairs
  <2>4. <<cur'.beg, cur'.end>> \in SpansOf(Head(todo))
    BY <2>1, <2>2, <2>3
  <2>. QED  BY <2>1, <2>2, <2>4 DEF PiecesAre, InPiece
<1>3. ASSUME InsertSpan PROVE PiecesAre'
  <2>1. /\ UNCHANGED <<todo, pieces>>
        /\ \/ pc' = pc /\ cur'.beg = cur.beg /\ cur'.end = cur.end
           \/ pc = "insert" /\ pc' = "remove" /\ cur'.beg = cur.beg /\ cur'.end = cur.end
           \/ pc = "gap" /\ pc' = "fill"
    BY <1>0, <1>3 DEF InsertSpan
  <2>. QED  BY <2>1 DEF PiecesAre, InPiece
<1>4. ASSUME RemoveSpan PROVE PiecesAre'
  <2>1. /\ UNCHANGED <<todo, pieces>> /\ pc = "remove"
        /\ \/ pc' = "piece"
           \/ pc' = "remove" /\ cur'.beg = cur.beg /\ cur'.end = cur.end
    BY <1>0, <1>4 DEF RemoveSpan
  <2>. QED  BY <2>1 DEF PiecesAre, InPiece
<1>5. ASSUME ExtentDone PROVE PiecesAre'
  BY <1>5 DEF ExtentDone, PiecesAre, InPiece
<1>6. ASSUME TakeImage \/ ImageDone \/ TakeGap \/ Opened PROVE PiecesAre'
  BY <1>6 DEF TakeImage, ImageDone, TakeGap, Opened, PiecesAre, InPiece
<1>7. ASSUME \/ \E r \in Reads : BeginRead(r[1], r[2])
             \/ ReadSpan \/ EndRead \/ Return \/ Rest \/ UNCHANGED vars
      PROVE  PiecesAre'
  <2>1. UNCHANGED <<pc, pieces, todo, cur>>
    BY <1>7 DEF BeginRead, ReadSpan, EndRead, Return, Rest, vars, build
  <2>. QED  BY <2>1 DEF PiecesAre, InPiece
<1>. QED  BY <1>1, <1>2, <1>3, <1>4, <1>5, <1>6, <1>7 DEF Next

-----------------------------------------------------------------------------
(* Whose a sector is.                                                      *)

\* Extent ex is the nearest image's that has sector s, or zeros where none has it.
Right(ex, s) ==
    \/ \E k \in 1 .. Len(chain) : /\ From(k, ex) /\ InSpans(ex, s)
                                  /\ \A j \in 1 .. k - 1 : ~HasSector(chain[j], s)
    \/ /\ pc \in {"fill", "gap", "open"} /\ Ended /\ ex.ed.kind = "zero"
       /\ \A j \in 1 .. Len(chain) : ~HasSector(chain[j], s)

\* A sector that a span has leads to the extent it should.
Nearest == \A s \in Nat : \A v : Owns(spans, s, v) => Right(Pending[v], s)

\* Extents of the image at hand that are still to be taken up.
Coming == IF InPiece THEN Tail(todo) ELSE todo

ToCome(s) ==
    \/ \E ex \in Range(Coming) : InSpans(ex, s)
    \/ InPiece /\ \E p \in pieces : p[1] <= s /\ s < p[2]
    \/ pc = "insert" /\ cur.beg <= s /\ s < cur.end

\* A sector without a span is one no image so far has, but for what is still to come of
\* the one at hand.
NothingMissed ==
    image_size # Absent =>
        \A s \in Nat : s < N /\ ~Owned(spans, s) =>
            \A j \in 1 .. Len(chain) : HasSector(chain[j], s) => AtImage /\ j = Len(chain) /\ ToCome(s)

\* No span is in the map at first.
LEMMA InitNearest == ASSUME Init PROVE Nearest /\ NothingMissed
<1>1. DOMAIN spans = {} /\ image_size = Absent
  BY DEF Init
<1>2. \A s, v : ~Owns(spans, s, v)
  BY <1>1 DEF Owns
<1>. QED  BY <1>1, <1>2 DEF Nearest, NothingMissed

\* A sector has one owner at most.
LEMMA OneOwner ==
    ASSUME NEW m, Tidy(m), NEW s \in Nat, NEW v, NEW w, Owns(m, s, v), Owns(m, s, w)
    PROVE  v = w
<1>1. PICK b \in DOMAIN m : b <= s /\ s < m[b].end /\ m[b].val = v
  BY DEF Owns
<1>2. PICK c \in DOMAIN m : c <= s /\ s < m[c].end /\ m[c].val = w
  BY DEF Owns
<1>3. /\ b \in Nat /\ c \in Nat /\ m[b].end \in Nat /\ m[c].end \in Nat
      /\ (b < c => m[b].end <= c) /\ (c < b => m[c].end <= b)
  BY DEF Tidy, Starting
<1>4. b = c
  BY <1>1, <1>2, <1>3
<1>. QED  BY <1>1, <1>2, <1>4

\* An owner is an extent that there is, and lies around the sector.
LEMMA OwnerIs ==
    ASSUME Inv, NEW s \in Nat, NEW v, Owns(spans, s, v)
    PROVE  /\ v \in DOMAIN Pending
           /\ pc \notin {"piece", "insert", "remove", "gap"} => v \in DOMAIN extents
           /\ IsSeq(extents) /\ DOMAIN extents = 1 .. Len(extents) /\ Len(extents) \in Nat
<1>1. PICK b \in DOMAIN spans : spans[b].val = v
  BY DEF Owns
<1>2. v \in DOMAIN Pending
  BY <1>1 DEF Inv, SpansFit, Fits, Inside
<1>3. IsSeq(extents)
  BY DEF Inv, TodoWhole
<1>4. pc \notin {"piece", "insert", "remove", "gap"} => Pending = extents
  BY DEF Pending, InPiece
<1>. QED  BY <1>2, <1>3, <1>4, SeqFacts

\* A step that adds no span, and takes nothing away of what is known, keeps spans right.
LEMMA SameNearest ==
    ASSUME Nearest, UNCHANGED <<disk, chain, sources, spans>>,
           pc \in {"fill", "gap", "open"} => pc' \in {"fill", "gap", "open"},
           \A s \in Nat : \A v : Owns(spans, s, v) => Pending'[v] = Pending[v]
    PROVE  Nearest'
<1>1. /\ \A k, ex : From(k, ex)' <=> From(k, ex)
      /\ \A u, s : HasSector(u, s)' <=> HasSector(u, s)
      /\ Ended' <=> Ended
  BY SameFrom
<1>2. ASSUME NEW ex, NEW s, Right(ex, s) PROVE Right(ex, s)'
  BY <1>1, <1>2 DEF Right
<1>3. ASSUME NEW s \in Nat, NEW v, Owns(spans, s, v) PROVE Right(Pending[v], s)'
  <2>1. PICK e : e = Pending[v]
    OBVIOUS
  <2>2. Right(e, s)
    BY <1>3, <2>1 DEF Nearest
  <2>3. Right(e, s)'
    BY <1>2, <2>2
  <2>4. Pending'[v] = e
    BY <1>3, <2>1
  <2>. QED  BY <2>3, <2>4
<1>4. \A s, v : Owns(spans, s, v)' <=> Owns(spans, s, v)
  BY DEF Owns
<1>. QED  BY <1>3, <1>4 DEF Nearest

\* A step that takes no image up misses nothing as long as what is to come of a sector
\* without a span stays so.
LEMMA SameMissed ==
    ASSUME NothingMissed, UNCHANGED <<disk, chain, image_size, sources>>,
           \A s \in Nat : Owned(spans, s) => Owned(spans', s),
           \A s \in Nat : s < N /\ ~Owned(spans', s) /\ AtImage /\ ToCome(s) => AtImage' /\ ToCome(s)'
    PROVE  NothingMissed'
<1>1. /\ \A u, s : HasSector(u, s)' <=> HasSector(u, s)
      /\ N' = N
  BY SameFrom DEF N
<1>2. SUFFICES ASSUME image_size # Absent, NEW s \in Nat, s < N, ~Owned(spans', s),
                      NEW j \in 1 .. Len(chain), HasSector(chain[j], s)
               PROVE  AtImage' /\ j = Len(chain) /\ ToCome(s)'
  BY <1>1 DEF NothingMissed
<1>3. AtImage /\ j = Len(chain) /\ ToCome(s)
  BY <1>2 DEF NothingMissed
<1>. QED  BY <1>2, <1>3

\* Taking up an image leads no span elsewhere.
LEMMA TakeImageNearest ==
    ASSUME Inv, Chained, Sourced, Nearest, TakeImage, ~Refuses(url)
    PROVE  Nearest'
<1>1. /\ pc = "image" /\ pc' = "extent" /\ chain' = Append(chain, url) /\ sources' = Registered(url)
      /\ UNCHANGED <<disk, spans, extents>>
  BY DEF TakeImage
<1>2. disk \in Disks /\ ~ImageFails(url) /\ url \in Files /\ idx \in Nat
  BY DEF Inv, SizeKnown, Refuses, Chained, Sourced
<1>3. IsSeq(chain) /\ Len(chain) \in Nat /\ Len(chain') = Len(chain) + 1 /\ \A k \in 1 .. Len(chain) : chain'[k] = chain[k]
  BY <1>1, AppendIs, SeqFacts DEF Chained, Descends
<1>4. \A n \in DOMAIN sources : n < idx => n \in DOMAIN sources' /\ sources'[n] = sources[n]
  <2>1. \A n \in DOMAIN sources : n \in Nat /\ sources[n] \in Files \ {Absent}
    BY DEF Sourced
  <2>. QED  BY <1>1, <1>2, <2>1, RegisteredIs
<1>5. \A u, s : HasSector(u, s)' <=> HasSector(u, s)
  BY <1>1 DEF HasSector, HasGrain, ExtentAt
<1>6. \A k, ex : From(k, ex)' <=> 
         /\ \E i \in Nat : MadeOf(chain'[k], i, ex)
         /\ HasFile(ex.ed) => ex.src \in DOMAIN sources' /\ sources'[ex.src] = FileOf(chain'[k], ex.ed)
  BY <1>1 DEF From, MadeOf, FileOf
<1>7. Pending = extents /\ Pending' = extents
  BY <1>1 DEF Pending, InPiece
<1>8. ASSUME NEW s \in Nat, NEW v, Owns(spans, s, v) PROVE Right(Pending[v], s)'
  <2>1. v \in DOMAIN extents
    BY <1>1, <1>8, OwnerIs
  <2>2. PICK ex : ex = extents[v] /\ ex \in Range(extents)
    BY <2>1 DEF Range
  <2>3. Right(ex, s)
    BY <1>7, <1>8, <2>2 DEF Nearest
  <2>4. PICK k \in 1 .. Len(chain) : From(k, ex) /\ InSpans(ex, s) /\ \A j \in 1 .. k - 1 : ~HasSector(chain[j], s)
    BY <1>1, <2>3 DEF Right
  <2>5. From(k, ex)'
    <3>1. HasFile(ex.ed) => ex.src < idx
      BY <2>2 DEF Sourced
    <3>2. chain'[k] = chain[k]
      BY <1>3
    <3>3. PICK i \in Nat : MadeOf(chain[k], i, ex)
      BY <2>4 DEF From
    <3>4. ASSUME HasFile(ex.ed)
          PROVE  ex.src \in DOMAIN sources' /\ sources'[ex.src] = FileOf(chain'[k], ex.ed)
      <4>1. ex.src \in DOMAIN sources /\ sources[ex.src] = FileOf(chain[k], ex.ed)
        BY <2>4, <3>4 DEF From
      <4>. QED  BY <1>4, <3>1, <3>2, <3>4, <4>1
    <3>5. \E n \in Nat : MadeOf(chain'[k], n, ex)
      BY <3>2, <3>3
    <3>. QED  BY <1>6, <3>4, <3>5
  <2>6. k \in 1 .. Len(chain') /\ \A j \in 1 .. k - 1 : j \in 1 .. Len(chain)
    BY <1>3
  <2>7. \A j \in 1 .. k - 1 : ~HasSector(chain[j], s)'
    <3>1. \A j \in 1 .. k - 1 : ~HasSector(chain'[j], s)
      BY <1>3, <2>4, <2>6
    <3>2. \A u : HasSector(u, s)' <=> HasSector(u, s)
      BY <1>5
    <3>3. \A j : HasSector(chain[j], s)' <=> HasSector(chain'[j], s)
      BY <1>1 DEF HasSector, HasGrain, ExtentAt
    <3>. QED  BY <3>1, <3>3
  <2>8. Right(ex, s)'
    BY <2>4, <2>5, <2>6, <2>7 DEF Right
  <2>9. Pending'[v] = ex
    BY <1>7, <2>2
  <2>. QED  BY <2>8, <2>9
<1>9. \A s, v : Owns(spans, s, v)' <=> Owns(spans, s, v)
  BY <1>1 DEF Owns
<1>. QED  BY <1>8, <1>9 DEF Nearest

\* A turn of insert_span gives the extent only sectors that no image so far has had.
LEMMA InsertNearest ==
    ASSUME Inv, Chained, Sourced, PiecesAre, Nearest, NothingMissed, InsertSpan
    PROVE  Nearest'
<1>. DEFINE r == InsertTurn(spans, cur.sbeg, cur.end, Val)
<1>0. cur \in [beg : Nat, end : Nat, sbeg : Nat] /\ cur.beg <= cur.sbeg /\ cur.sbeg <= cur.end
  BY DEF Inv, CurFits
<1>1. /\ pc \in {"insert", "gap"} /\ spans' = r.map
      /\ UNCHANGED <<disk, chain, sources, todo>>
      /\ \/ pc' = pc /\ cur'.beg = cur.beg /\ cur'.end = cur.end /\ extents' = extents
         \/ pc = "insert" /\ pc' = "remove" /\ extents' = extents
         \/ pc = "gap" /\ pc' = "fill" /\ extents' = Append(extents, ZeroExtent(cur.beg, cur.end))
  BY <1>0 DEF InsertSpan
<1>2. Tidy(spans) /\ Inserts(spans, r, cur.sbeg, cur.end, Val)
  BY <1>0, TurnInserts DEF Inv, SpansFit
<1>3. Pending' = Pending
  <2>1. CASE pc' = pc /\ cur'.beg = cur.beg /\ cur'.end = cur.end /\ extents' = extents
    <3>1. ZeroExtent(cur.beg, cur.end)' = ZeroExtent(cur.beg, cur.end)
      <4>1. idx' = idx
        BY DEF InsertSpan
      <4>. QED  BY <2>1, <4>1 DEF ZeroExtent
    <3>. QED  BY <1>1, <2>1, <3>1 DEF Pending, InPiece
  <2>2. CASE pc = "insert" /\ pc' = "remove" /\ extents' = extents
    BY <1>1, <2>2 DEF Pending, InPiece
  <2>3. CASE pc = "gap" /\ pc' = "fill" /\ extents' = Append(extents, ZeroExtent(cur.beg, cur.end))
    BY <1>1, <2>3 DEF Pending, InPiece
  <2>. QED  BY <1>1, <2>1, <2>2, <2>3
<1>4. /\ \A k, ex : From(k, ex)' <=> From(k, ex)
      /\ \A u, s : HasSector(u, s)' <=> HasSector(u, s)
      /\ Ended' <=> Ended
  BY <1>1, SameFrom
<1>5. ASSUME NEW ex, NEW s, Right(ex, s) PROVE Right(ex, s)'
  <2>1. pc \in {"fill", "gap", "open"} => pc' \in {"fill", "gap", "open"}
    BY <1>1
  <2>. QED  BY <1>1, <1>4, <1>5, <2>1 DEF Right
<1>6. /\ image_size # Absent /\ N \in Nat
      /\ pc # "gap" => Pending[Val] = Head(todo) /\ Good(Head(todo), N) /\ Head(todo) \in Range(todo)
      /\ pc = "gap" => Pending[Val] = ZeroExtent(cur.beg, cur.end)
  BY <1>1, PendingFacts
<1>. HIDE DEF r
<1>7. ASSUME NEW s \in Nat, cur.sbeg <= s, s < cur.end, ~Owned(spans, s) PROVE Right(Pending[Val], s)
  <2>1. cur.end <= N
    <3>1. CASE pc = "gap"
      BY <3>1 DEF Inv, CurFits
    <3>2. CASE pc = "insert"
      <4>1. PieceOf(Head(todo), <<cur.beg, cur.end>>) /\ Good(Head(todo), N)
        BY <1>6, <3>2 DEF Inv, CurFits
      <4>. QED  BY <1>0, <1>6, <4>1 DEF PieceOf, Good
    <3>. QED  BY <1>1, <3>1, <3>2
  <2>2. s < N
    BY <1>0, <1>6, <1>7, <2>1
  <2>3. \A j \in 1 .. Len(chain) : HasSector(chain[j], s) => AtImage /\ j = Len(chain)
    BY <1>6, <1>7, <2>2 DEF NothingMissed
  <2>4. CASE pc = "gap"
    <3>1. \A j \in 1 .. Len(chain) : ~HasSector(chain[j], s)
      BY <2>3, <2>4 DEF AtImage, InPiece
    <3>2. Pending[Val].ed.kind = "zero"
      BY <1>6, <2>4 DEF ZeroExtent
    <3>3. Ended
      BY <2>4 DEF Chained
    <3>. QED  BY <2>4, <3>1, <3>2, <3>3 DEF Right
  <2>5. CASE pc = "insert"
    <3>1. Len(chain) \in Nat /\ Len(chain) > 0
      BY <2>5, SeqFacts DEF Chained, Descends
    <3>2. Len(chain) \in 1 .. Len(chain) /\ \A j \in 1 .. Len(chain) - 1 : j \in 1 .. Len(chain) /\ j # Len(chain)
      BY <3>1
    <3>3. From(Len(chain), Pending[Val])
      <4>1. AtImage
        BY <2>5 DEF AtImage, InPiece
      <4>. QED  BY <1>6, <2>5, <4>1 DEF Sourced
    <3>4. InSpans(Pending[Val], s)
      <4>1. PICK p : p = <<cur.beg, cur.end>>
        OBVIOUS
      <4>2. p \in SpansOf(Head(todo)) /\ p[1] = cur.beg /\ p[2] = cur.end
        BY <2>5, <4>1 DEF PiecesAre
      <4>3. p[1] <= s /\ s < p[2]
        BY <1>0, <1>7, <4>2
      <4>. QED  BY <1>6, <2>5, <4>2, <4>3 DEF InSpans
    <3>5. \A j \in 1 .. Len(chain) - 1 : ~HasSector(chain[j], s)
      BY <2>3, <3>2
    <3>. QED  BY <3>2, <3>3, <3>4, <3>5 DEF Right
  <2>. QED  BY <1>1, <2>4, <2>5
<1>8. ASSUME NEW s \in Nat, NEW v, Owns(spans', s, v) PROVE Right(Pending[v], s)
  <2>1. CASE Owns(spans, s, v)
    BY <2>1 DEF Nearest
  <2>2. CASE ~Owns(spans, s, v)
    <3>1. v = Val /\ cur.sbeg <= s /\ s < cur.end
      BY <1>1, <1>2, <1>8, <2>2 DEF Inserts
    <3>2. ~Owned(spans, s)
      <4>1. SUFFICES ASSUME NEW w, Owns(spans, s, w) PROVE FALSE
        BY OwnedIs
      <4>2. Owns(r.map, s, w) /\ Owns(r.map, s, v) /\ Tidy(r.map)
        BY <1>1, <1>2, <1>8, <4>1 DEF Inserts
      <4>3. v = w
        BY <4>2, OneOwner
      <4>. QED  BY <2>2, <4>1, <4>3
    <3>. QED  BY <1>7, <3>1, <3>2
  <2>. QED  BY <2>1, <2>2
<1>9. ASSUME NEW s \in Nat, NEW v, Owns(spans, s, v)' PROVE Right(Pending[v], s)'
  <2>1. Owns(spans', s, v)
    BY <1>9 DEF Owns
  <2>2. PICK e : e = Pending[v]
    OBVIOUS
  <2>3. Right(e, s)
    BY <1>8, <2>1, <2>2
  <2>4. Right(e, s)'
    BY <1>5, <2>3
  <2>5. Pending'[v] = e
    BY <1>3, <2>2
  <2>. QED  BY <2>4, <2>5
<1>. QED  BY <1>9 DEF Nearest

\* Every step keeps spans leading where they should.
LEMMA NextNearest ==
    ASSUME Inv, Chained, Sourced, PiecesAre, Nearest, NothingMissed, [Next]_vars
    PROVE  Nearest'
<1>0. IsSeq(extents)
  BY DEF Inv, TodoWhole
<1>1. CASE TakeImage /\ ~Refuses(url)
  BY <1>1, TakeImageNearest
<1>2. CASE InsertSpan
  BY <1>2, InsertNearest
<1>3. CASE TakeExtent \/ TakeGap
  <2>1. /\ UNCHANGED <<disk, chain, sources, spans, extents>> /\ pc \in {"extent", "fill"}
        /\ pc \in {"fill", "gap", "open"} => pc' \in {"fill", "gap", "open"}
    BY <1>3 DEF TakeExtent, TakeGap
  <2>2. Pending = extents
    BY <2>1 DEF Pending, InPiece
  <2>3. \E e : Pending' = Append(extents, e)
    <3>1. CASE TakeExtent
      <4>1. pc' = "piece" /\ todo' = todo /\ extents' = extents
        BY <3>1 DEF TakeExtent
      <4>. QED  BY <4>1 DEF Pending, InPiece
    <3>2. CASE TakeGap
      <4>1. pc' = "gap" /\ extents' = extents
        BY <3>2 DEF TakeGap
      <4>. QED  BY <4>1 DEF Pending, InPiece
    <3>. QED  BY <1>3, <3>1, <3>2
  <2>4. ASSUME NEW s \in Nat, NEW v, Owns(spans, s, v) PROVE Pending'[v] = Pending[v]
    <3>1. v \in 1 .. Len(extents)
      BY <2>1, <2>4, OwnerIs
    <3>. QED  BY <1>0, <2>2, <2>3, <3>1, AppendIs
  <2>. QED  BY <2>1, <2>4, SameNearest
<1>4. CASE \/ TakeImage /\ Refuses(url)
           \/ (\E p \in pieces : TakePiece(p)) \/ RemoveSpan \/ ExtentDone \/ ImageDone \/ Opened
  <2>1. ASSUME TakeImage, Refuses(url)
        PROVE  UNCHANGED <<disk, chain, sources, spans>> /\ pc \notin {"fill", "gap", "open"} /\ Pending' = Pending
    BY <2>1 DEF TakeImage, Pending, InPiece
  <2>2. ASSUME NEW p \in pieces, TakePiece(p)
        PROVE  UNCHANGED <<disk, chain, sources, spans>> /\ pc \notin {"fill", "gap", "open"} /\ Pending' = Pending
    BY <2>2 DEF TakePiece, Pending, InPiece
  <2>3. ASSUME RemoveSpan
        PROVE  UNCHANGED <<disk, chain, sources, spans>> /\ pc \notin {"fill", "gap", "open"} /\ Pending' = Pending
    BY <2>3 DEF RemoveSpan, Pending, InPiece
  <2>4. ASSUME ExtentDone
        PROVE  UNCHANGED <<disk, chain, sources, spans>> /\ pc \notin {"fill", "gap", "open"} /\ Pending' = Pending
    BY <2>4 DEF ExtentDone, Pending, InPiece
  <2>5. ASSUME ImageDone
        PROVE  UNCHANGED <<disk, chain, sources, spans>> /\ pc \notin {"fill", "gap", "open"} /\ Pending' = Pending
    BY <2>5 DEF ImageDone, Pending, InPiece
  <2>6. ASSUME Opened
        PROVE  UNCHANGED <<disk, chain, sources, spans>> /\ pc' = "open" /\ Pending' = Pending
    BY <2>6 DEF Opened, Pending, InPiece
  <2>7. /\ UNCHANGED <<disk, chain, sources, spans>> /\ Pending' = Pending
        /\ pc \in {"fill", "gap", "open"} => pc' \in {"fill", "gap", "open"}
    BY <1>4, <2>1, <2>2, <2>3, <2>4, <2>5, <2>6
  <2>. QED  BY <2>7, SameNearest
<1>5. CASE \/ \E r \in Reads : BeginRead(r[1], r[2])
           \/ ReadSpan \/ EndRead \/ Return \/ Rest \/ UNCHANGED vars
  <2>1. UNCHANGED <<disk, chain, sources, spans, pc, extents, todo, cur, idx>>
    BY <1>5 DEF BeginRead, ReadSpan, EndRead, Return, Rest, vars, build
  <2>2. Pending' = Pending
    BY <2>1 DEF Pending, InPiece, ZeroExtent
  <2>. QED  BY <2>1, <2>2, SameNearest
<1>. QED  BY <1>1, <1>2, <1>3, <1>4, <1>5 DEF Next

\* The size of an image that is not refused is a number of sectors.
LEMMA SizeIs ==
    ASSUME disk \in Disks, NEW u, ~ImageFails(u)
    PROVE  /\ SizeOf(u) # Absent
           /\ SizeOf(u) \div SECTOR_SIZE = StartSector(disk.images[u].extents, Len(disk.images[u].extents) + 1)
<1>. DEFINE n == StartSector(disk.images[u].extents, Len(disk.images[u].extents) + 1)
<1>1. SizeOf(u) = n * SECTOR_SIZE
  BY DEF SizeOf
<1>2. n \in Nat
  <2>1. Len(disk.images[u].extents) + 1 \in 1 .. Len(disk.images[u].extents) + 1
    BY ImageFacts
  <2>. QED  BY <2>1, ImageFacts
<1>3. SECTOR_SIZE \in Nat \ {0} /\ Absent \notin Nat
  BY VmdkAssumption
<1>. HIDE DEF n
<1>4. n * SECTOR_SIZE \in Nat /\ (n * SECTOR_SIZE) \div SECTOR_SIZE = n
  BY <1>2, <1>3, DivExact
<1>. QED  BY <1>1, <1>3, <1>4 DEF n

\* Of an image taken up, every extent is to come.
LEMMA TakeImageMissed ==
    ASSUME Inv, Chained, NothingMissed, TakeImage, ~Refuses(url)
    PROVE  NothingMissed'
<1>1. /\ pc = "image" /\ pc' = "extent" /\ chain' = Append(chain, url)
      /\ image_size' = SizeOf(url) /\ todo' = read_extents(url, idx + 1)
      /\ UNCHANGED <<disk, url, spans>>
  BY DEF TakeImage
<1>2. disk \in Disks /\ ~ImageFails(url) /\ (image_size # Absent => image_size = SizeOf(url))
  BY DEF Inv, SizeKnown, Refuses
<1>3. IsSeq(chain) /\ Len(chain) \in Nat
  BY SeqFacts DEF Chained, Descends
<1>. DEFINE c == Append(chain, url)
<1>4. Len(c) = Len(chain) + 1 /\ c[Len(chain) + 1] = url /\ \A k \in 1 .. Len(chain) : c[k] = chain[k]
  BY <1>3, AppendIs
<1>5. chain' = c
  BY <1>1
<1>. HIDE DEF c
<1>6. N' = StartSector(disk.images[url].extents, Len(disk.images[url].extents) + 1)
  BY <1>1, <1>2, SizeIs DEF N
<1>7. \A u, s : HasSector(u, s)' <=> HasSector(u, s)
  BY <1>1 DEF HasSector, HasGrain, ExtentAt
<1>8. AtImage' /\ ~InPiece' /\ ~AtImage
  BY <1>1 DEF AtImage, InPiece
<1>9. \A ex, s : InSpans(ex, s)' <=> InSpans(ex, s)
  BY DEF InSpans, SpansOf
<1>10. \A s : Owned(spans, s)' <=> Owned(spans, s)
  BY <1>1 DEF Owned
<1>11. ASSUME NEW s \in Nat, s < N', ~Owned(spans, s), NEW j \in 1 .. Len(c), HasSector(c[j], s)
       PROVE  j = Len(c) /\ ToCome(s)'
  <2>1. CASE j \in 1 .. Len(chain)
    <3>1. SizeOf(chain[j]) = image_size /\ ~ImageFails(chain[j])
      BY <2>1 DEF Chained, Descends
    <3>2. image_size # Absent
      BY <1>2, <3>1, SizeIs
    <3>3. N' = N
      BY <1>1, <1>2, <3>2 DEF N
    <3>. QED  BY <1>4, <1>8, <1>11, <2>1, <3>2, <3>3 DEF NothingMissed
  <2>2. CASE j \notin 1 .. Len(chain)
    <3>1. j = Len(c) /\ c[j] = url
      BY <1>3, <1>4, <2>2
    <3>2. PICK i : i = ExtentAt(url, s)
      OBVIOUS
    <3>3. AtExtent(url, i, s)
      BY <1>2, <1>6, <1>11, <3>2, ExtentFound
    <3>4. i \in 1 .. Len(disk.images[url].extents)
      BY <3>3 DEF AtExtent
    <3>5. PICK ex : ex = todo'[i] /\ ex \in Range(todo') /\ MadeOf(url, i, ex)
      <4>1. /\ DOMAIN todo' = 1 .. Len(disk.images[url].extents)
            /\ MadeOf(url, i, todo'[i])
        BY <1>1, <1>2, <3>4, ReadMakes
      <4>. QED  BY <3>4, <4>1 DEF Range
    <3>6. InSpans(ex, s)
      BY <1>2, <1>6, <1>11, <3>1, <3>2, <3>5, SectorSpans
    <3>7. Coming' = todo'
      BY <1>8 DEF Coming
    <3>8. ToCome(s)'
      BY <1>9, <3>5, <3>6, <3>7 DEF ToCome
    <3>. QED  BY <3>1, <3>8
  <2>. QED  BY <2>1, <2>2
<1>12. ASSUME NEW s \in Nat, s < N', ~Owned(spans, s)', NEW j \in 1 .. Len(chain'), HasSector(chain[j], s)'
       PROVE  AtImage' /\ j = Len(chain') /\ ToCome(s)'
  <2>1. HasSector(c[j], s)
    <3>1. HasSector(chain[j], s)' <=> HasSector(chain'[j], s)
      BY <1>1 DEF HasSector, HasGrain, ExtentAt
    <3>. QED  BY <1>5, <1>12, <3>1
  <2>. QED  BY <1>5, <1>8, <1>10, <1>11, <1>12, <2>1
<1>. QED  BY <1>12 DEF NothingMissed

\* Every step keeps that nothing is missed.
LEMMA NextMissed ==
    ASSUME Inv, Chained, PiecesAre, NothingMissed, [Next]_vars
    PROVE  NothingMissed'
<1>0. /\ cur \in [beg : Nat, end : Nat, sbeg : Nat] /\ cur.beg <= cur.sbeg /\ cur.sbeg <= cur.end
      /\ IsSeq(todo) /\ IsSeq(extents)
      /\ \A ex, s : InSpans(ex, s)' <=> InSpans(ex, s)
  BY DEF Inv, CurFits, TodoWhole, InSpans, SpansOf
<1>1. CASE TakeImage /\ ~Refuses(url)
  BY <1>1, TakeImageMissed
<1>2. CASE TakeExtent
  <2>1. /\ pc = "extent" /\ pc' = "piece" /\ todo # <<>> /\ todo' = todo /\ pieces' = SpansOf(Head(todo))
        /\ UNCHANGED <<disk, chain, image_size, sources, spans>>
    BY <1>2 DEF TakeExtent
  <2>2. Coming = todo /\ Coming' = Tail(todo) /\ InPiece' /\ AtImage' /\ ~InPiece /\ pc # "insert"
    BY <2>1 DEF Coming, InPiece, AtImage
  <2>3. ASSUME NEW s \in Nat, ToCome(s) PROVE ToCome(s)'
    <3>1. PICK ex \in Range(todo) : InSpans(ex, s)
      BY <2>2, <2>3 DEF ToCome
    <3>2. CASE ex = Head(todo)
      <4>1. PICK p \in SpansOf(Head(todo)) : p[1] <= s /\ s < p[2]
        BY <3>1, <3>2 DEF InSpans
      <4>. QED  BY <2>1, <2>2, <4>1 DEF ToCome
    <3>3. CASE ex \in Range(Tail(todo))
      BY <1>0, <2>2, <3>1, <3>3 DEF ToCome
    <3>. QED  BY <1>0, <2>1, <3>1, <3>2, <3>3, HeadTail
  <2>. QED  BY <2>1, <2>2, <2>3, SameMissed
<1>3. ASSUME NEW p \in pieces, TakePiece(p) PROVE NothingMissed'
  <2>1. /\ pc = "piece" /\ pc' = "insert" /\ pieces' = pieces \ {p} /\ todo' = todo
        /\ cur' = [beg |-> p[1], end |-> p[2], sbeg |-> p[1]]
        /\ UNCHANGED <<disk, chain, image_size, sources, spans>>
    BY <1>3 DEF TakePiece
  <2>2. Coming' = Coming /\ InPiece' /\ InPiece /\ AtImage'
    BY <2>1 DEF Coming, InPiece, AtImage
  <2>3. cur'.beg = p[1] /\ cur'.end = p[2]
    BY <2>1
  <2>4. ASSUME NEW s \in Nat, ToCome(s) PROVE ToCome(s)'
    <3>1. CASE \E ex \in Range(Coming) : InSpans(ex, s)
      BY <1>0, <2>2, <3>1 DEF ToCome
    <3>2. ASSUME NEW o \in pieces, o[1] <= s, s < o[2] PROVE ToCome(s)'
      <4>1. CASE o = p
        BY <2>1, <2>3, <3>2, <4>1 DEF ToCome
      <4>2. CASE o # p
        BY <2>1, <2>2, <3>2, <4>2 DEF ToCome
      <4>. QED  BY <4>1, <4>2
    <3>. QED  BY <2>1, <2>4, <3>1, <3>2 DEF ToCome
  <2>. QED  BY <2>1, <2>2, <2>4, SameMissed
<1>4. CASE InsertSpan
  <2>. DEFINE r == InsertTurn(spans, cur.sbeg, cur.end, Val)
  <2>1. /\ pc \in {"insert", "gap"} /\ spans' = r.map
        /\ UNCHANGED <<disk, chain, image_size, sources, todo, pieces>>
        /\ \/ ~r.done /\ pc' = pc /\ cur'.beg = cur.beg /\ cur'.end = cur.end
           \/ r.done /\ pc = "insert" /\ pc' = "remove"
           \/ r.done /\ pc = "gap" /\ pc' = "fill"
    BY <1>0, <1>4 DEF InsertSpan
  <2>2. /\ \A s \in Nat : Owned(spans, s) => Owned(r.map, s)
        /\ \A s \in Nat : cur.beg <= s /\ s < cur.sbeg => Owned(r.map, s)
        /\ \A s \in Nat : cur.sbeg <= s /\ s < (IF r.done THEN cur.end ELSE r.sbeg) => Owned(r.map, s)
    BY <2>1, InsertFacts
  <2>. HIDE DEF r
  <2>3. \A s \in Nat : Owned(spans, s) => Owned(spans', s)
    BY <2>1, <2>2
  <2>4. ASSUME NEW s \in Nat, ~Owned(spans', s), AtImage, ToCome(s) PROVE AtImage' /\ ToCome(s)'
    <3>1. pc = "insert" /\ InPiece
      BY <2>1, <2>4 DEF AtImage, InPiece
    <3>2. InPiece' /\ AtImage' /\ Coming' = Coming
      BY <2>1, <3>1 DEF AtImage, InPiece, Coming
    <3>3. CASE \E ex \in Range(Coming) : InSpans(ex, s)
      BY <1>0, <3>2, <3>3 DEF ToCome
    <3>4. CASE \E p \in pieces : p[1] <= s /\ s < p[2]
      BY <2>1, <3>2, <3>4 DEF ToCome
    <3>5. CASE cur.beg <= s /\ s < cur.end
      <4>1. ~r.done
        BY <1>0, <2>1, <2>2, <2>4, <3>5
      <4>. QED  BY <2>1, <3>1, <3>2, <3>5, <4>1 DEF ToCome
    <3>. QED  BY <2>4, <3>1, <3>3, <3>4, <3>5 DEF ToCome
  <2>. QED  BY <2>1, <2>3, <2>4, SameMissed
<1>5. CASE RemoveSpan
  <2>1. /\ UNCHANGED <<disk, chain, image_size, sources, todo, pieces, spans>>
        /\ pc = "remove" /\ pc' \in {"piece", "remove"}
    BY <1>5 DEF RemoveSpan
  <2>2. InPiece /\ InPiece' /\ AtImage' /\ Coming' = Coming /\ pc # "insert"
    BY <2>1 DEF AtImage, InPiece, Coming
  <2>3. ASSUME NEW s \in Nat, ToCome(s) PROVE ToCome(s)'
    BY <1>0, <2>1, <2>2, <2>3 DEF ToCome
  <2>. QED  BY <2>1, <2>2, <2>3, SameMissed
<1>6. CASE ExtentDone
  <2>1. /\ pc = "piece" /\ pieces = {} /\ todo' = Tail(todo) /\ pc' = IF DOMAIN uncovered = {} THEN "fill" ELSE "extent"
        /\ UNCHANGED <<disk, chain, image_size, sources, spans>>
    BY <1>6 DEF ExtentDone
  <2>2. ASSUME NEW s \in Nat, s < N, ~Owned(spans', s), ToCome(s) PROVE AtImage' /\ ToCome(s)'
    <3>1. pc' = "extent"
      <4>1. image_size # Absent
        BY <2>1, PendingFacts
      <4>2. Has(uncovered, s)
        BY <2>1, <2>2, <4>1 DEF Inv, AllThere
      <4>. QED  BY <2>1, <4>2 DEF Has
    <3>2. InPiece /\ AtImage' /\ ~InPiece'
      BY <2>1, <3>1 DEF AtImage, InPiece
    <3>3. Coming' = Coming
      BY <2>1, <3>2 DEF Coming
    <3>. QED  BY <1>0, <2>1, <2>2, <3>2, <3>3 DEF ToCome
  <2>. QED  BY <2>1, <2>2, SameMissed
<1>7. CASE ImageDone
  <2>1. /\ pc = "extent" /\ todo = <<>> /\ UNCHANGED <<disk, chain, image_size, sources, spans>>
    BY <1>7 DEF ImageDone
  <2>2. \A s : ~ToCome(s)
    <3>1. Range(<<>>) = {}
      BY DEF Range
    <3>. QED  BY <2>1, <3>1 DEF ToCome, Coming, InPiece
  <2>. QED  BY <2>1, <2>2, SameMissed
<1>8. CASE (TakeImage /\ Refuses(url)) \/ TakeGap \/ Opened
  <2>1. UNCHANGED <<disk, chain, image_size, sources, spans>> /\ pc \in {"image", "fill"}
    BY <1>8 DEF TakeImage, TakeGap, Opened
  <2>2. ~AtImage
    BY <2>1 DEF AtImage, InPiece
  <2>. QED  BY <2>1, <2>2, SameMissed
<1>9. CASE \/ \E r \in Reads : BeginRead(r[1], r[2])
           \/ ReadSpan \/ EndRead \/ Return \/ Rest \/ UNCHANGED vars
  <2>1. UNCHANGED <<disk, chain, image_size, sources, spans, pc, todo, pieces, cur>>
    BY <1>9 DEF BeginRead, ReadSpan, EndRead, Return, Rest, vars, build
  <2>2. \A s : AtImage /\ ToCome(s) => AtImage' /\ ToCome(s)'
    BY <1>0, <2>1 DEF AtImage, ToCome, Coming, InPiece
  <2>. QED  BY <2>1, <2>2, SameMissed
<1>. QED  BY <1>1, <1>2, <1>3, <1>4, <1>5, <1>6, <1>7, <1>8, <1>9 DEF Next

\* Whatever the walk has seen is where it belongs.
Placed == Chained /\ Sourced /\ PiecesAre /\ Nearest /\ NothingMissed

\* Every span leads to the nearest image that has its sectors, with its file, or to zeros if
\* none has them; and a sector without one is still to come (open_with_options).
THEOREM PlacesInvariance == Spec => []Placed
<1>1. Init => Placed
  BY InitChained, InitSourced, InitNearest DEF Placed
<1>2. ASSUME Inv, Placed, ImagesOnce', [Next]_vars PROVE Placed'
  <2>1. Chained /\ Sourced /\ PiecesAre /\ Nearest /\ NothingMissed
    BY <1>2 DEF Placed
  <2>2. Chained'
    BY <1>2, <2>1, NextChained
  <2>3. Sourced'
    BY <1>2, <2>1, <2>2, NextSourced
  <2>4. PiecesAre'
    BY <1>2, <2>1, NextPieces
  <2>5. Nearest'
    BY <1>2, <2>1, NextNearest
  <2>6. NothingMissed'
    BY <1>2, <2>1, NextMissed
  <2>. QED  BY <2>2, <2>3, <2>4, <2>5, <2>6 DEF Placed
<1>3. Inv /\ ImagesOnce' /\ Placed /\ [Next]_vars => Placed'
  BY <1>2
<1>. QED  BY <1>1, <1>3, WalkInvariance, ChainsAreOnce, PTL DEF Spec

-----------------------------------------------------------------------------
(* Reads.                                                                  *)

\* Storage has what a read asks of it at position pos.
Readable(ex, pos) ==
    /\ ex.ed.kind \in ExtentKinds
    /\ ex.start_sector \in Nat /\ ex.start_sector * SECTOR_SIZE <= pos
    /\ ex.ed.kind \in SparseKinds =>
          /\ ex.meta.cluster_sectors \in Nat \ {0}
          /\ (pos - ex.start_sector * SECTOR_SIZE) \div (ex.meta.cluster_sectors * SECTOR_SIZE) \in DOMAIN ex.grains
          /\ \A g \in DOMAIN ex.grains : ex.grains[g] \in Nat
    /\ ex.ed.kind = "flat" => ex.ed.offset \in Nat

\* An extent can be read where it has a sector.
LEMMA HasReadable ==
    ASSUME disk \in Disks, NEW u, ~ImageFails(u), NEW p \in Nat, NEW ex,
           NEW i, MadeOf(u, i, ex), InSpans(ex, p \div SECTOR_SIZE)
    PROVE  Readable(ex, p)
<1>. DEFINE eds == disk.images[u].extents
            h == Meta(eds[i].header)
            q == p - StartSector(eds, i) * SECTOR_SIZE
            gb == h.cluster_sectors * SECTOR_SIZE
<1>1. /\ i \in 1 .. Len(eds) /\ ex.ed = eds[i] /\ ex.start_sector = StartSector(eds, i)
      /\ eds[i].kind \in SparseKinds => ex.meta = h /\ ex.grains = GrainTable(h)
  BY DEF MadeOf
<1>2. p \div SECTOR_SIZE \in Nat
  BY SectorOf
<1>3. AtExtent(u, i, p \div SECTOR_SIZE) /\ ExtentAt(u, p \div SECTOR_SIZE) = i /\ HasSector(u, p \div SECTOR_SIZE)
  BY <1>2, SpansHave, SectorSpans
<1>4. HasByte(u, p)
  BY <1>3, ByteSector
<1>5. /\ eds[i].kind \in ExtentKinds /\ eds[i].offset \in Nat /\ StartSector(eds, i) \in Nat
      /\ eds[i].kind \in SparseKinds => Sound(h)
  <2>1. Len(eds) \in Nat /\ i \in 1 .. Len(eds) + 1
    BY <1>1, ImageFacts
  <2>. QED  BY <1>1, <2>1, ImageFacts
<1>6. StartSector(eds, i) <= p \div SECTOR_SIZE
  BY <1>3 DEF AtExtent
<1>7. StartSector(eds, i) * SECTOR_SIZE <= p
  BY <1>5, <1>6, SectorOf
<1>8. ASSUME eds[i].kind \in SparseKinds
      PROVE  /\ h.cluster_sectors \in Nat \ {0}
             /\ q \div gb \in DOMAIN GrainTable(h)
             /\ \A g \in DOMAIN GrainTable(h) : GrainTable(h)[g] \in Nat
  <2>1. GrainEntry(h, q \div gb) # 0
    BY <1>3, <1>4, <1>8 DEF HasByte
  <2>2. PICK b \in Nat \ {0} : b = gb
    <3>1. PICK c \in Nat \ {0}, d \in Nat \ {0} : c = h.cluster_sectors /\ d = SECTOR_SIZE
      BY <1>5, <1>8, VmdkAssumption DEF Sound
    <3>2. c * d \in Nat \ {0}
      OBVIOUS
    <3>. QED  BY <3>1, <3>2
  <2>3. PICK x \in Nat : x = q
    <3>1. StartSector(eds, i) * SECTOR_SIZE \in Nat
      BY <1>5, VmdkAssumption
    <3>. HIDE DEF eds
    <3>. QED  BY <1>7, <3>1
  <2>4. q \div gb \in Nat
    <3>1. x \div b \in Nat
      BY Quotient
    <3>. QED  BY <2>2, <2>3, <3>1
  <2>5. DOMAIN GrainTable(h) \subseteq Nat
    BY <1>5, <1>8, GrainsAre DEF Sound
  <2>. HIDE DEF h, q, gb
  <2>6. Sound(h)
    BY <1>5, <1>8
  <2>7. q \div gb \in DOMAIN GrainTable(h)
    BY <2>1, <2>4, <2>6, EntryIs
  <2>8. \A g \in DOMAIN GrainTable(h) : GrainTable(h)[g] \in Nat
    BY <2>5, <2>6, EntryIs
  <2>. QED  BY <2>6, <2>7, <2>8 DEF Sound
<1>. HIDE DEF h
<1>9. Readable(ex, p)
  BY <1>1, <1>5, <1>7, <1>8 DEF Readable
<1>. QED  BY <1>9

\* What the span at a byte of an open image leads to stores the byte of the nearest image
\* that has one.
LEMMA SpanStores ==
    ASSUME Inv, Chained, Sourced, Nearest, pc = "open",
           NEW b \in DOMAIN spans, NEW p \in Nat, b * SECTOR_SIZE <= p, p < spans[b].end * SECTOR_SIZE
    PROVE  Stored(extents[spans[b].val], p) = NearestByte(p) /\ Readable(extents[spans[b].val], p)
<1>1. disk \in Disks /\ image_size # Absent /\ N \in Nat
  BY DEF Inv, SizeKnown
<1>2. /\ b \in Nat /\ spans[b].end \in Nat
  BY DEF Inv, SpansFit, Tidy, Starting
<1>3. PICK s \in Nat : s = p \div SECTOR_SIZE
  BY SectorOf
<1>4. b <= s /\ s < spans[b].end
  BY <1>2, <1>3, SectorOf
<1>5. PICK v : v = spans[b].val
  OBVIOUS
<1>6. PICK ex : ex = extents[v]
  OBVIOUS
<1>7. Pending = extents
  BY DEF Pending, InPiece
<1>8. /\ v \in DOMAIN extents /\ ex.start_sector <= b /\ spans[b].end <= ex.start_sector + ex.sectors
  BY <1>5, <1>6, <1>7 DEF Inv, SpansFit, Fits, Inside
<1>9. Good(ex, N)
  <2>1. ex \in Range(extents)
    BY <1>6, <1>8 DEF Range
  <2>. QED  BY <2>1 DEF Inv, TodoWhole
<1>10. s < N /\ ex.start_sector \in Nat /\ ex.start_sector <= s
  BY <1>1, <1>2, <1>4, <1>8, <1>9 DEF Good
<1>11. Right(ex, s)
  <2>1. Owns(spans, s, v)
    BY <1>4, <1>5 DEF Owns
  <2>. QED  BY <1>6, <1>7, <2>1 DEF Nearest
<1>12. IsSeq(chain) /\ Len(chain) \in Nat /\ Len(chain) > 0 /\ Descends
  BY SeqFacts DEF Chained, Descends
<1>13. /\ IsSeq(Lineage) /\ Len(Lineage) >= Len(chain)
       /\ \A j \in 1 .. Len(chain) : Lineage[j] = chain[j]
       /\ Ended => Len(Lineage) = Len(chain)
  BY <1>1, <1>12, LineageIs
<1>14. DOMAIN Lineage = 1 .. Len(Lineage) /\ Len(Lineage) \in Nat
  BY <1>13, SeqFacts
<1>15. ASSUME NEW j \in 1 .. Len(chain) PROVE HasByte(chain[j], p) <=> HasSector(chain[j], s)
  <2>1. ~ImageFails(chain[j]) /\ SizeOf(chain[j]) = image_size
    BY <1>12 DEF Chained, Descends
  <2>2. N = StartSector(disk.images[chain[j]].extents, Len(disk.images[chain[j]].extents) + 1)
    BY <1>1, <2>1, SizeIs DEF N
  <2>3. AtExtent(chain[j], ExtentAt(chain[j], s), s)
    BY <1>1, <1>10, <2>1, <2>2, ExtentFound
  <2>. QED  BY <1>1, <1>3, <2>1, <2>3, ByteSector
<1>. DEFINE L == Lineage
            has == {i \in DOMAIN L : HasByte(L[i], p)}
<1>16. NearestByte(p) = IF has = {} THEN Zero ELSE ByteOf(L[Min(has)], p)
  BY DEF NearestByte
<1>. HIDE DEF L
<1>17. /\ DOMAIN L = 1 .. Len(L) /\ Len(L) \in Nat /\ Len(L) >= Len(chain)
       /\ \A j \in 1 .. Len(chain) : L[j] = chain[j]
       /\ Ended => Len(L) = Len(chain)
  BY <1>13, <1>14 DEF L
<1>18. CASE \E k \in 1 .. Len(chain) : From(k, ex) /\ InSpans(ex, s) /\ \A j \in 1 .. k - 1 : ~HasSector(chain[j], s)
  <2>1. PICK k \in 1 .. Len(chain) : From(k, ex) /\ InSpans(ex, s) /\ \A j \in 1 .. k - 1 : ~HasSector(chain[j], s)
    BY <1>18
  <2>2. PICK i \in Nat : MadeOf(chain[k], i, ex)
    BY <2>1 DEF From
  <2>3. ~ImageFails(chain[k])
    BY <1>12 DEF Descends
  <2>4. ExtentAt(chain[k], s) = i /\ HasSector(chain[k], s)
    BY <1>1, <2>1, <2>2, <2>3, SectorSpans
  <2>5. Stored(ex, p) = ByteOf(chain[k], p)
    <3>1. HasFile(ex.ed) => sources[ex.src] = FileOf(chain[k], ex.ed)
      BY <2>1 DEF From
    <3>2. MadeOf(chain[k], ExtentAt(chain[k], p \div SECTOR_SIZE), ex) /\ InSpans(ex, p \div SECTOR_SIZE)
      BY <1>3, <2>1, <2>2, <2>4
    <3>. QED  BY <1>1, <2>3, <3>1, <3>2, StoredIs
  <2>6. Readable(ex, p)
    BY <1>1, <1>3, <2>1, <2>2, <2>3, HasReadable
  <2>7. k \in has
    BY <1>12, <1>15, <1>17, <2>4
  <2>8. ASSUME NEW j \in has PROVE ~(j < k)
    <3>1. SUFFICES ASSUME j < k PROVE FALSE
      OBVIOUS
    <3>2. j \in 1 .. k - 1 /\ j \in 1 .. Len(chain) /\ HasByte(L[j], p)
      BY <1>12, <1>17, <3>1
    <3>3. HasSector(chain[j], s)
      BY <1>15, <1>17, <3>2
    <3>. QED  BY <2>1, <3>2, <3>3
  <2>9. has \in SUBSET Nat
    BY <1>17
  <2>. HIDE DEF has
  <2>10. Min(has) \in has /\ Min(has) \in Nat /\ Min(has) <= k
    BY <2>7, <2>9, LeastIs
  <2>11. Min(has) = k
    BY <2>8, <2>10, k \in Nat
  <2>12. L[Min(has)] = chain[k]
    BY <1>17, <2>11
  <2>13. NearestByte(p) = ByteOf(chain[k], p)
    BY <1>16, <2>7, <2>12
  <2>. QED  BY <1>5, <1>6, <2>5, <2>6, <2>13
<1>19. CASE Ended /\ ex.ed.kind = "zero" /\ \A j \in 1 .. Len(chain) : ~HasSector(chain[j], s)
  <2>1. has = {}
    BY <1>15, <1>17, <1>19
  <2>2. Stored(ex, p) = Zero
    BY <1>19 DEF Stored, SparseKinds
  <2>3. ex.start_sector * SECTOR_SIZE <= p
    BY <1>3, <1>10, SectorOf
  <2>4. Readable(ex, p)
    BY <1>10, <1>19, <2>3 DEF Readable, ExtentKinds, SparseKinds
  <2>. QED  BY <1>5, <1>6, <1>16, <2>1, <2>2, <2>4
<1>. QED  BY <1>11, <1>18, <1>19 DEF Right

\* The n bytes of the disk from off on, as the chain has them.
Bytes(off, n) == [k \in 1 .. n |-> NearestByte(off + k - 1)]

\* Where a read ends.
Until(off, len) == Min({off + len, image_size})

\* Position pos is in the i-th span.
AtSpan(i, pos) ==
    /\ i \in 1 .. Len(Starts)
    /\ Starts[i] * SECTOR_SIZE <= pos
    /\ pos < spans[Starts[i]].end * SECTOR_SIZE

\* A read that has failed did so past the end or over a byte that cannot be had.
Excused(off, len) ==
    \/ off > image_size
    \/ \E k \in Nat : off <= k /\ k < Until(off, len) /\ NearestByte(k) \in disk.bad

Fields == {"st", "off", "len", "pos", "end", "i", "out"}

\* What read r has is the first bytes of what it was asked for, and it is in the span that
\* the next one is in.
ReadOK(r) ==
    /\ DOMAIN r = Fields
    /\ r.off \in Nat /\ r.len \in Nat /\ r.pos \in Nat /\ r.end \in Nat /\ r.pos <= r.end
    /\ Len(r.out) \in Nat /\ Len(r.out) <= r.len
    /\ \/ r = NoRead
       \/ /\ pc = "open"
          /\ r.st \in {"running", "ok", "err"}
          /\ r.st = "err" => Excused(r.off, r.len)
          /\ r.st # "err" => /\ r.off <= image_size /\ r.end = Until(r.off, r.len)
                             /\ r.off <= r.pos /\ r.out = Bytes(r.off, r.pos - r.off)
          /\ r.st = "ok" => r.pos = r.end
          /\ r.st = "running" /\ r.pos < r.end => AtSpan(r.i, r.pos)

ReadRight == \A r : r = rd => ReadOK(r)

\* There are as many bytes as asked for.
LEMMA BytesAre ==
    ASSUME NEW off, NEW n \in Nat
    PROVE  Len(Bytes(off, n)) = n /\ Bytes(off, n) \in Seq(Range(Bytes(off, n)))
<1>. DEFINE B == Bytes(off, n)
<1>1. DOMAIN B = 1 .. n
  BY DEF Bytes
<1>2. B = [k \in 1 .. n |-> B[k]]
  BY DEF Bytes
<1>. HIDE DEF B
<1>3. B \in [1 .. n -> Range(B)]
  BY <1>1, <1>2 DEF Range
<1>4. B \in Seq(Range(B))
  BY <1>3
<1>5. Len(B) \in Nat /\ DOMAIN B = 1 .. Len(B)
  BY <1>4, LenProperties
<1>6. \A i, k \in Nat : 1 .. i = 1 .. k => i = k
  <2>1. SUFFICES ASSUME NEW i \in Nat, NEW k \in Nat, 1 .. i = 1 .. k, i < k PROVE FALSE
    OBVIOUS
  <2>2. k \in 1 .. k /\ k \notin 1 .. i
    BY <2>1
  <2>. QED  BY <2>1, <2>2
<1>7. Len(B) = n
  BY <1>1, <1>5, <1>6
<1>. QED  BY <1>4, <1>7 DEF B

\* Bytes after bytes.
LEMMA BytesJoin ==
    ASSUME NEW off \in Nat, NEW a \in Nat, NEW b \in Nat
    PROVE  Bytes(off, a) \o Bytes(off + a, b) = Bytes(off, a + b)
<1>. DEFINE s == Bytes(off, a)
            t == Bytes(off + a, b)
            S == Range(s) \cup Range(t)
            w == Both(s, t)
<1>1. s = [k \in 1 .. a |-> NearestByte(off + k - 1)] /\ t = [k \in 1 .. b |-> NearestByte(off + a + k - 1)]
  BY DEF Bytes
<1>2. Row(s, a, S) /\ Row(t, b, S)
  <2>1. DOMAIN s = 1 .. a /\ DOMAIN t = 1 .. b
    BY <1>1
  <2>2. s = [k \in 1 .. a |-> s[k]] /\ t = [k \in 1 .. b |-> t[k]]
    BY <1>1
  <2>. HIDE DEF s, t
  <2>3. \A k \in 1 .. a : s[k] \in S
    BY <2>1 DEF Range
  <2>4. \A k \in 1 .. b : t[k] \in S
    BY <2>1 DEF Range
  <2>. HIDE DEF S
  <2>5. s \in [1 .. a -> S]
    BY <2>2, <2>3
  <2>6. t \in [1 .. b -> S]
    BY <2>2, <2>4
  <2>. QED  BY <2>5, <2>6 DEF Row
<1>. HIDE DEF S
<1>. DEFINE P == /\ w \in [1 .. a + b -> S]
                 /\ \A x \in 1 .. a : w[x] = s[x]
                 /\ \A x \in a + 1 .. a + b : w[x] = t[x - a]
<1>3. P
  <2>. HIDE DEF s, t, w
  <2>1. Row(Both(s, t), a + b, S) /\ Joins(Both(s, t), s, a, t, b)
    BY <1>2, Joined
  <2>. QED  BY <2>1 DEF Row, Joins, w
<1>. HIDE DEF w
<1>4. ASSUME NEW x \in 1 .. a + b PROVE w[x] = NearestByte(off + x - 1)
  <2>1. CASE x \in 1 .. a
    BY <1>1, <1>3, <2>1
  <2>2. CASE x \notin 1 .. a
    <3>1. x \in a + 1 .. a + b /\ x - a \in 1 .. b /\ off + a + (x - a) - 1 = off + x - 1
      BY <2>2
    <3>2. w[x] = t[x - a]
      BY <1>3, <3>1
    <3>3. t[x - a] = NearestByte(off + a + (x - a) - 1)
      BY <1>1, <3>1
    <3>. QED  BY <3>1, <3>2, <3>3
  <2>. QED  BY <2>1, <2>2
<1>5. w = [x \in 1 .. a + b |-> NearestByte(off + x - 1)]
  BY <1>3, <1>4
<1>. QED  BY <1>5 DEF w, Both, Bytes

\* The spans of an open image in order, and where each begins and ends.
LEMMA OpenSpans ==
    ASSUME Inv, pc = "open"
    PROVE  /\ image_size \in Nat /\ N \in Nat /\ image_size = N * SECTOR_SIZE
           /\ Len(Starts) \in Nat /\ Len(Starts) > 0 /\ Starts[1] = 0
           /\ \A i \in 1 .. Len(Starts) :
                 /\ Starts[i] \in DOMAIN spans /\ Starts[i] \in Nat /\ spans[Starts[i]].end \in Nat
                 /\ Starts[i] * SECTOR_SIZE \in Nat /\ spans[Starts[i]].end * SECTOR_SIZE \in Nat
                 /\ i < Len(Starts) => spans[Starts[i]].end = Starts[i + 1] /\ Starts[i] < Starts[i + 1]
                 /\ i = Len(Starts) => spans[Starts[i]].end * SECTOR_SIZE = image_size
                 /\ Cardinality({c \in DOMAIN spans : c <= Starts[i]}) = i
           /\ \A b \in DOMAIN spans : \E i \in 1 .. Len(Starts) : b = Starts[i]
<1>1. image_size # Absent /\ N \in Nat /\ image_size = N * SECTOR_SIZE
  BY DEF Inv, SizeKnown
<1>2. PICK d \in Nat \ {0} : d = SECTOR_SIZE
  BY VmdkAssumption
<1>3. \A n \in Nat : n * SECTOR_SIZE \in Nat
  <2>1. \A n \in Nat : n * d \in Nat
    OBVIOUS
  <2>. QED  BY <1>2, <2>1
<1>4. SpansTile
  BY OpenTiles
<1>5. /\ \A b \in DOMAIN spans : b \in Nat /\ spans[b].end \in Nat
      /\ DOMAIN spans \in SUBSET Nat /\ IsFiniteSet(DOMAIN spans)
  BY DEF Inv, SpansFit, Tidy, Starting
<1>6. /\ Len(Starts) \in Nat
      /\ \A i \in 1 .. Len(Starts) : Starts[i] \in DOMAIN spans
      /\ \A b \in DOMAIN spans : \E i \in 1 .. Len(Starts) : b = Starts[i]
      /\ \A i, j \in 1 .. Len(Starts) : i < j => Starts[i] < Starts[j]
      /\ \A i \in 1 .. Len(Starts) : Cardinality({c \in DOMAIN spans : c <= Starts[i]}) = i
  BY <1>5, StartsFacts
<1>7. ASSUME NEW i \in 1 .. Len(Starts), i < Len(Starts) PROVE Starts[i] < Starts[i + 1]
  <2>1. i + 1 \in 1 .. Len(Starts) /\ i < i + 1
    BY <1>6, <1>7
  <2>. QED  BY <1>6, <2>1
<1>8. image_size \in Nat
  BY <1>1, <1>3
<1>. QED  BY <1>1, <1>3, <1>4, <1>5, <1>6, <1>7, <1>8 DEF SpansTile

\* After a span that ends before the disk does, the next one is where the read goes on, and
\* is not empty.
LEMMA NextSpan ==
    ASSUME Inv, pc = "open", NEW i \in 1 .. Len(Starts), NEW pos \in Nat,
           pos = spans[Starts[i]].end * SECTOR_SIZE, pos < image_size
    PROVE  AtSpan(i + 1, pos)
<1>1. i < Len(Starts) /\ i + 1 \in 1 .. Len(Starts)
  <2>1. Len(Starts) \in Nat /\ image_size \in Nat /\ (i = Len(Starts) => pos = image_size)
    BY OpenSpans
  <2>. QED  BY <2>1
<1>2. spans[Starts[i]].end = Starts[i + 1]
  BY <1>1, OpenSpans
<1>3. PICK a \in Nat, e \in Nat, d \in Nat \ {0} :
          a = Starts[i + 1] /\ e = spans[Starts[i + 1]].end /\ d = SECTOR_SIZE
  BY <1>1, OpenSpans, VmdkAssumption
<1>4. a * d = pos
  BY <1>2, <1>3
<1>5. pos < e * d
  <2>1. CASE i + 1 = Len(Starts)
    <3>1. e * d = image_size
      BY <1>1, <1>3, <2>1, OpenSpans
    <3>. QED  BY <3>1
  <2>2. CASE i + 1 # Len(Starts)
    <3>1. i + 1 < Len(Starts)
      BY <1>1, <2>2, OpenSpans
    <3>2. a < e
      BY <1>1, <1>3, <3>1, OpenSpans
    <3>3. \A x, y \in Nat : x < y => x * d < y * d
      <4>1. \A x \in Nat, z \in Nat \ {0} : (x + z) * d = x * d + z * d /\ z * d > 0 /\ x * d \in Nat
        OBVIOUS
      <4>2. ASSUME NEW x \in Nat, NEW y \in Nat, x < y PROVE x * d < y * d
        <5>1. PICK z \in Nat \ {0} : y = x + z
          <6>1. y - x \in Nat \ {0} /\ y = x + (y - x)
            BY <4>2
          <6>. QED  BY <6>1
        <5>2. y * d = x * d + z * d /\ z * d > 0 /\ x * d \in Nat /\ z * d \in Nat
          BY <4>1, <5>1
        <5>. QED  BY <5>2
      <4>. QED  BY <4>2
    <3>. QED  BY <1>4, <3>2, <3>3
  <2>. QED  BY <2>1, <2>2
<1>. QED  BY <1>1, <1>3, <1>4, <1>5 DEF AtSpan

\* The rank of a position among the starts is the number of the span it is in.
LEMMA FirstSpan ==
    ASSUME Inv, pc = "open", NEW off \in Nat
    PROVE  LET i == Cardinality({s \in DOMAIN spans : s * SECTOR_SIZE <= off})
           IN  i # 0 /\ (off < image_size => AtSpan(i, off))
<1>. DEFINE T == {s \in DOMAIN spans : s * SECTOR_SIZE <= off}
<1>1. \A b \in DOMAIN spans : b \in Nat /\ spans[b].end \in Nat /\ b <= spans[b].end
  BY DEF Inv, SpansFit, Tidy, Starting
<1>2. IsFiniteSet(T)
  <2>1. IsFiniteSet(DOMAIN spans)
    BY DEF Inv, SpansFit
  <2>2. T \subseteq DOMAIN spans
    OBVIOUS
  <2>. HIDE DEF T
  <2>. QED  BY <2>1, <2>2, FS_Subset
<1>3. 0 \in T
  <2>1. 0 \in DOMAIN spans
    <3>1. 1 \in 1 .. Len(Starts) /\ Starts[1] = 0
      BY OpenSpans
    <3>. QED  BY <3>1, OpenSpans
  <2>2. 0 * SECTOR_SIZE = 0
    BY VmdkAssumption
  <2>. QED  BY <2>1, <2>2
<1>4. Cardinality(T) # 0
  <2>. HIDE DEF T
  <2>. QED  BY <1>2, <1>3, FS_EmptySet
<1>5. ASSUME off < image_size PROVE AtSpan(Cardinality(T), off)
  <2>1. PICK s \in Nat : s = off \div SECTOR_SIZE
    BY SectorOf
  <2>2. N \in Nat /\ image_size = N * SECTOR_SIZE /\ image_size # Absent
    BY OpenSpans DEF Inv, SizeKnown
  <2>3. s < N
    BY <1>5, <2>1, <2>2, SectorOf
  <2>4. PICK b \in DOMAIN spans : b <= s /\ s < spans[b].end
    <3>1. Owned(spans, s)
      BY <2>2, <2>3 DEF Inv, AllThere, UncoveredFits, Has
    <3>. QED  BY <3>1 DEF Owned
  <2>5. PICK j \in 1 .. Len(Starts) : b = Starts[j]
    BY OpenSpans
  <2>6. \A c \in DOMAIN spans : c * SECTOR_SIZE <= off <=> c <= b
    <3>1. ASSUME NEW c \in DOMAIN spans PROVE c * SECTOR_SIZE <= off <=> c <= b
      <4>1. c \in Nat /\ b \in Nat
        BY <1>1
      <4>2. c <= s <=> c * SECTOR_SIZE <= off
        BY <2>1, <4>1, SectorOf
      <4>3. b < c => spans[b].end <= c
        BY DEF Inv, SpansFit, Tidy
      <4>. QED  BY <1>1, <2>4, <4>1, <4>2, <4>3
    <3>. QED  BY <3>1
  <2>7. T = {c \in DOMAIN spans : c <= Starts[j]}
    BY <2>5, <2>6
  <2>8. Cardinality(T) = j
    <3>1. Cardinality({c \in DOMAIN spans : c <= Starts[j]}) = j
      BY OpenSpans
    <3>. QED  BY <2>7, <3>1
  <2>9. b * SECTOR_SIZE <= off /\ off < spans[b].end * SECTOR_SIZE
    BY <1>1, <2>1, <2>4, SectorOf
  <2>. QED  BY <2>5, <2>8, <2>9 DEF AtSpan
<1>. QED  BY <1>4, <1>5

\* What a read is compared with depends on the disk and the map of spans only.
LEMMA SameRead ==
    ASSUME UNCHANGED <<disk, pc, build>>
    PROVE  /\ \A p : NearestByte(p)' = NearestByte(p)
           /\ \A r : ReadOK(r)' <=> ReadOK(r)
<1>0. UNCHANGED <<disk, pc, spans, image_size>>
  BY DEF build
<1>1. Lineage' = Lineage
  BY <1>0 DEF Lineage
<1>2. \A u, p : HasByte(u, p)' <=> HasByte(u, p)
  BY <1>0 DEF HasByte, ExtentAt
<1>3. \A u, p : ByteOf(u, p)' = ByteOf(u, p)
  BY <1>0 DEF ByteOf, ExtentAt, FileOf
<1>4. \A p : NearestByte(p)' = NearestByte(p)
  <2>1. ASSUME NEW p PROVE NearestByte(p)' = NearestByte(p)
    <3>. DEFINE has == {i \in DOMAIN Lineage : HasByte(Lineage[i], p)}
                m == Min(has)
    <3>1. \A i : HasByte(Lineage[i], p)' <=> HasByte(Lineage[i], p)
      BY <1>0, <1>1 DEF HasByte, ExtentAt
    <3>2. has' = has
      BY <1>1, <3>1
    <3>3. NearestByte(p) = IF has = {} THEN Zero ELSE ByteOf(Lineage[m], p)
      BY DEF NearestByte
    <3>4. m' = m
      BY <3>2
    <3>5. NearestByte(p)' = IF has' = {} THEN Zero ELSE ByteOf(Lineage[m], p)'
      BY DEF NearestByte
    <3>. HIDE DEF has, m
    <3>6. ByteOf(Lineage[m], p)' = ByteOf(Lineage[m], p)
      BY <1>0, <1>1, <3>4 DEF ByteOf, ExtentAt, FileOf
    <3>. QED  BY <3>2, <3>3, <3>5, <3>6
  <2>. QED  BY <2>1
<1>5. /\ \A o, n : Bytes(o, n)' = Bytes(o, n)
      /\ \A o, l : Until(o, l)' = Until(o, l)
      /\ \A o, l : Excused(o, l)' <=> Excused(o, l)
      /\ \A i, p : AtSpan(i, p)' <=> AtSpan(i, p)
  <2>1. \A o, n : Bytes(o, n)' = Bytes(o, n)
    BY <1>4 DEF Bytes
  <2>2. \A o, l : Until(o, l)' = Until(o, l)
    BY <1>0 DEF Until
  <2>3. \A o, l : Excused(o, l)' <=> Excused(o, l)
    BY <1>0, <1>4, <2>2 DEF Excused
  <2>4. Starts' = Starts
    BY <1>0 DEF Starts
  <2>5. \A i, p : AtSpan(i, p)' <=> AtSpan(i, p)
    BY <1>0, <2>4 DEF AtSpan, Starts
  <2>. QED  BY <2>1, <2>2, <2>3, <2>5
<1>6. ASSUME NEW r PROVE ReadOK(r)' <=> ReadOK(r)
  BY <1>0, <1>5 DEF ReadOK
<1>. QED  BY <1>4, <1>6

\* No read is under way at first, and that is well.
LEMMA NoReadOK == ReadOK(NoRead)
<1>1. Len(<<>>) = 0
  OBVIOUS
<1>. QED  BY <1>1 DEF NoRead, ReadOK, Fields

\* A read begins in the span it is to read first, unless it is past the end.
LEMMA BeginOK ==
    ASSUME Inv, NEW off \in Nat, NEW len \in Nat, BeginRead(off, len)
    PROVE  pc = "open" /\ \A r : r = rd' => ReadOK(r)
<1>. DEFINE end == off + Min({len, image_size - off})
            i == Cardinality({s \in DOMAIN spans : s * SECTOR_SIZE <= off})
<1>1. pc = "open"
  BY DEF BeginRead
<1>2. image_size \in Nat
  BY <1>1, OpenSpans
<1>3. i # 0 /\ (off < image_size => AtSpan(i, off))
  BY <1>1, FirstSpan
<1>4. rd' = IF off > image_size \/ i = 0
            THEN [[NoRead EXCEPT !.off = off, !.len = len] EXCEPT !.st = "err"]
            ELSE [[NoRead EXCEPT !.off = off, !.len = len] EXCEPT !.st = "running", !.pos = off, !.end = end, !.i = i]
  BY DEF BeginRead
<1>. HIDE DEF i
<1>5. Len(<<>>) = 0
  OBVIOUS
<1>6. CASE off > image_size
  <2>1. rd' = [st |-> "err", off |-> off, len |-> len, pos |-> 0, end |-> 0, i |-> 0, out |-> <<>>]
    BY <1>4, <1>6 DEF NoRead
  <2>2. ASSUME NEW r, r = rd' PROVE ReadOK(r)
    <3>1. /\ DOMAIN r = Fields /\ r.st = "err" /\ r.off = off /\ r.len = len /\ r.pos = 0 /\ r.end = 0 /\ r.out = <<>>
      BY <2>1, <2>2 DEF Fields
    <3>2. Excused(off, len)
      BY <1>6 DEF Excused
    <3>. QED  BY <1>1, <1>5, <3>1, <3>2 DEF ReadOK
  <2>. QED  BY <1>1, <2>2
<1>7. CASE ~(off > image_size)
  <2>1. end = Until(off, len) /\ end \in Nat /\ off <= end
    <3>1. image_size - off \in Nat /\ off + len \in Nat
      BY <1>2, <1>7
    <3>2. /\ Min({len, image_size - off}) = IF len <= image_size - off THEN len ELSE image_size - off
          /\ Min({off + len, image_size}) = IF off + len <= image_size THEN off + len ELSE image_size
      BY <1>2, <3>1, LesserOf
    <3>. QED  BY <1>2, <3>1, <3>2 DEF Until
  <2>2. end <= image_size
    <3>1. Min({off + len, image_size}) = IF off + len <= image_size THEN off + len ELSE image_size
      BY <1>2, LesserOf
    <3>. QED  BY <1>2, <2>1, <3>1 DEF Until
  <2>. HIDE DEF end
  <2>3. rd' = [st |-> "running", off |-> off, len |-> len, pos |-> off, end |-> end, i |-> i, out |-> <<>>]
    BY <1>3, <1>4, <1>7 DEF NoRead
  <2>4. Bytes(off, 0) = <<>>
    BY DEF Bytes
  <2>5. ASSUME NEW r, r = rd' PROVE ReadOK(r)
    <3>1. /\ DOMAIN r = Fields /\ r.st = "running" /\ r.off = off /\ r.len = len /\ r.pos = off /\ r.end = end
          /\ r.out = <<>> /\ r.i = i
      BY <2>3, <2>5 DEF Fields
    <3>2. off < end => AtSpan(i, off)
      BY <1>2, <1>3, <2>1, <2>2
    <3>3. off - off = 0 /\ off <= image_size
      BY <1>2, <1>7
    <3>. QED  BY <1>1, <1>5, <2>1, <2>4, <3>1, <3>2, <3>3 DEF ReadOK
  <2>. QED  BY <1>1, <2>5
<1>. QED  BY <1>6, <1>7

\* A turn of the loop adds the next bytes of the disk, as many as the storage gives.
LEMMA TurnReads ==
    ASSUME Inv, Placed, pc = "open", NEW i, NEW pos \in Nat, NEW end \in Nat, pos < end, AtSpan(i, pos)
    PROVE  LET span == spans[Starts[i]]
               stop == span.end * SECTOR_SIZE
               got  == StorageRead(extents[span.val], pos, Min({stop, end}) - pos)
           IN  \E l \in Nat \ {0} :
                  /\ pos + l <= end /\ pos + l <= stop
                  /\ stop \in Nat
                  /\ got.ok => got.bytes = Bytes(pos, l)
                  /\ ~got.ok => \E k \in Nat : pos <= k /\ k < pos + l /\ NearestByte(k) \in disk.bad
<1>0. Chained /\ Sourced /\ Nearest
  BY DEF Placed
<1>1. PICK b : b = Starts[i]
  OBVIOUS
<1>2. b \in DOMAIN spans /\ b * SECTOR_SIZE \in Nat /\ spans[b].end * SECTOR_SIZE \in Nat
  BY <1>1, OpenSpans DEF AtSpan
<1>3. PICK stop \in Nat : stop = spans[b].end * SECTOR_SIZE
  BY <1>2
<1>4. b * SECTOR_SIZE <= pos /\ pos < stop
  BY <1>1, <1>3 DEF AtSpan
<1>5. PICK n \in Nat \ {0} : n = Min({stop, end}) - pos /\ pos + n <= stop /\ pos + n <= end
  <2>1. Min({stop, end}) = IF stop <= end THEN stop ELSE end
    BY LesserOf
  <2>2. PICK m \in Nat : m = Min({stop, end}) /\ m <= stop /\ m <= end /\ pos < m
    BY <1>4, <2>1
  <2>3. m - pos \in Nat \ {0} /\ pos + (m - pos) <= stop /\ pos + (m - pos) <= end
    BY <2>2
  <2>. QED  BY <2>2, <2>3
<1>6. PICK ex : ex = extents[spans[b].val]
  OBVIOUS
<1>7. ASSUME NEW p \in Nat, pos <= p, p < stop PROVE Stored(ex, p) = NearestByte(p) /\ Readable(ex, p)
  <2>1. b * SECTOR_SIZE <= p
    BY <1>2, <1>4, <1>7
  <2>. QED  BY <1>0, <1>2, <1>3, <1>6, <1>7, <2>1, SpanStores
<1>8. PICK l \in 1 .. n :
         /\ StorageRead(ex, pos, n).ok => StorageRead(ex, pos, n).bytes = Run(ex, pos, l)
         /\ StorageRead(ex, pos, n).ok \in BOOLEAN
         /\ ~StorageRead(ex, pos, n).ok => \E k \in 1 .. l : Stored(ex, pos + k - 1) \in disk.bad
  <2>1. Readable(ex, pos)
    BY <1>4, <1>7
  <2>. QED  BY <2>1, StorageReads DEF Readable
<1>9. \A k \in 1 .. l : pos + k - 1 \in Nat /\ pos <= pos + k - 1 /\ pos + k - 1 < stop /\ pos + k - 1 < pos + l
  BY <1>5
<1>10. \A k \in 1 .. l : Stored(ex, pos + k - 1) = NearestByte(pos + k - 1)
  BY <1>7, <1>9
<1>11. Run(ex, pos, l) = Bytes(pos, l)
  BY <1>10 DEF Run, Bytes
<1>12. pos + l <= end /\ pos + l <= stop /\ l \in Nat \ {0}
  BY <1>5
<1>. DEFINE got == StorageRead(ex, pos, n)
<1>13. StorageRead(extents[spans[Starts[i]].val], pos, Min({spans[Starts[i]].end * SECTOR_SIZE, end}) - pos) = got
  BY <1>1, <1>3, <1>5, <1>6
<1>14. /\ got.ok => got.bytes = Bytes(pos, l)
       /\ ~got.ok => \E k \in Nat : pos <= k /\ k < pos + l /\ NearestByte(k) \in disk.bad
  <2>. HIDE DEF got
  <2>1. got.ok => got.bytes = Bytes(pos, l)
    BY <1>8, <1>11 DEF got
  <2>2. ASSUME ~got.ok PROVE \E k \in Nat : pos <= k /\ k < pos + l /\ NearestByte(k) \in disk.bad
    <3>1. PICK k \in 1 .. l : Stored(ex, pos + k - 1) \in disk.bad
      BY <1>8, <2>2 DEF got
    <3>2. PICK p \in Nat : p = pos + k - 1 /\ pos <= p /\ p < pos + l
      BY <1>9
    <3>3. NearestByte(p) \in disk.bad
      BY <1>10, <3>1, <3>2
    <3>. QED  BY <3>2, <3>3
  <2>. QED  BY <2>1, <2>2
<1>. HIDE DEF got
<1>. QED  BY <1>1, <1>3, <1>12, <1>13, <1>14

\* A turn of the loop keeps the read right.
LEMMA TurnOK ==
    ASSUME Inv, Placed, NEW r, r = rd, ReadOK(r), ReadSpan
    PROVE  \A x : x = rd' => ReadOK(x)
<1>. DEFINE stop == spans[Starts[r.i]].end * SECTOR_SIZE
            got  == StorageRead(extents[spans[Starts[r.i]].val], r.pos, Min({stop, r.end}) - r.pos)
            pos  == r.pos + Len(got.bytes)
<1>1. /\ r.st = "running" /\ r.pos < r.end
      /\ \/ ~got.ok /\ rd' = [r EXCEPT !.st = "err"]
         \/ got.ok /\ rd' = [r EXCEPT !.pos = pos, !.out = @ \o got.bytes, !.i = IF pos >= stop THEN @ + 1 ELSE @]
  BY DEF ReadSpan
<1>2. /\ DOMAIN r = Fields
      /\ r.off \in Nat /\ r.len \in Nat /\ r.pos \in Nat /\ r.end \in Nat
      /\ Len(r.out) \in Nat /\ Len(r.out) <= r.len
      /\ pc = "open" /\ r.off <= image_size /\ r.end = Until(r.off, r.len)
      /\ r.off <= r.pos /\ r.out = Bytes(r.off, r.pos - r.off)
      /\ AtSpan(r.i, r.pos)
  BY <1>1 DEF ReadOK, NoRead
<1>3. image_size \in Nat
  BY <1>2, OpenSpans
<1>4. r.end <= r.off + r.len /\ r.end <= image_size
  <2>1. Min({r.off + r.len, image_size}) = IF r.off + r.len <= image_size THEN r.off + r.len ELSE image_size
    <3>1. PICK a \in Int, b \in Int : a = r.off + r.len /\ b = image_size
      BY <1>2, <1>3
    <3>2. Min({a, b}) = IF a <= b THEN a ELSE b
      BY LesserOf
    <3>. QED  BY <3>1, <3>2, Zenon
  <2>. QED  BY <1>2, <1>3, <2>1 DEF Until
<1>5. PICK l \in Nat \ {0} :
         /\ r.pos + l <= r.end /\ r.pos + l <= stop
         /\ stop \in Nat
         /\ got.ok => got.bytes = Bytes(r.pos, l)
         /\ ~got.ok => \E k \in Nat : r.pos <= k /\ k < r.pos + l /\ NearestByte(k) \in disk.bad
  <2>1. PICK i, p, e : i = r.i /\ p = r.pos /\ e = r.end
    OBVIOUS
  <2>2. pc = "open" /\ p \in Nat /\ e \in Nat /\ p < e /\ AtSpan(i, p)
    BY <1>1, <1>2, <2>1
  <2>3. LET span == spans[Starts[i]]
            st   == span.end * SECTOR_SIZE
            g    == StorageRead(extents[span.val], p, Min({st, e}) - p)
        IN  \E l \in Nat \ {0} :
               /\ p + l <= e /\ p + l <= st
               /\ st \in Nat
               /\ g.ok => g.bytes = Bytes(p, l)
               /\ ~g.ok => \E k \in Nat : p <= k /\ k < p + l /\ NearestByte(k) \in disk.bad
    BY <2>2, TurnReads
  <2>. QED  BY <2>1, <2>3, Zenon
<1>6. r.i \in 1 .. Len(Starts)
  BY <1>2 DEF AtSpan
<1>7. \A x \in Nat : x = stop /\ x < image_size => AtSpan(r.i + 1, x)
  BY <1>2, <1>6, NextSpan
<1>8. \A x : r.pos <= x /\ x < stop => (r.pos \in Nat /\ x \in Nat => AtSpan(r.i, x))
  <2>1. Starts[r.i] * SECTOR_SIZE \in Nat
    BY <1>2, <1>6, OpenSpans
  <2>2. stop = spans[Starts[r.i]].end * SECTOR_SIZE /\ Starts[r.i] * SECTOR_SIZE <= r.pos
    BY <1>2 DEF AtSpan
  <2>. HIDE DEF stop
  <2>. QED  BY <1>6, <2>1, <2>2 DEF AtSpan
<1>. HIDE DEF got, stop
<1>9. CASE ~got.ok
  <2>1. rd' = [r EXCEPT !.st = "err"]
    BY <1>1, <1>9
  <2>2. Excused(r.off, r.len)
    <3>1. PICK k \in Nat : r.pos <= k /\ k < r.pos + l /\ NearestByte(k) \in disk.bad
      BY <1>5, <1>9
    <3>2. r.off <= k /\ k < Until(r.off, r.len)
      BY <1>2, <1>5, <3>1
    <3>. QED  BY <3>1, <3>2 DEF Excused
  <2>3. ASSUME NEW x, x = rd' PROVE ReadOK(x)
    <3>1. /\ DOMAIN x = Fields /\ x.st = "err" /\ x.off = r.off /\ x.len = r.len /\ x.pos = r.pos /\ x.end = r.end /\ x.out = r.out
      BY <1>2, <2>1, <2>3 DEF Fields
    <3>2. x.pos <= x.end
      BY <1>1, <1>2, <3>1
    <3>. QED  BY <1>2, <2>2, <3>1, <3>2 DEF ReadOK
  <2>. QED  BY <2>3
<1>10. CASE got.ok
  <2>1. got.bytes = Bytes(r.pos, l) /\ Len(got.bytes) = l
    BY <1>5, <1>10, BytesAre
  <2>2. pos = r.pos + l
    BY <2>1
  <2>. HIDE DEF pos
  <2>3. r.out \o got.bytes = Bytes(r.off, r.pos + l - r.off) /\ Len(r.out \o got.bytes) = r.pos + l - r.off
    <3>1. PICK a \in Nat : a = r.pos - r.off /\ r.off + a = r.pos /\ a + l = r.pos + l - r.off
      <4>1. r.pos - r.off \in Nat /\ r.off + (r.pos - r.off) = r.pos /\ (r.pos - r.off) + l = r.pos + l - r.off
        BY <1>2
      <4>. QED  BY <4>1
    <3>2. Bytes(r.off, a) \o Bytes(r.off + a, l) = Bytes(r.off, a + l)
      <4>1. PICK o \in Nat : o = r.off
        BY <1>2
      <4>2. Bytes(o, a) \o Bytes(o + a, l) = Bytes(o, a + l)
        BY BytesJoin
      <4>. QED  BY <4>1, <4>2, Zenon
    <3>3. Len(Bytes(r.off, a + l)) = a + l
      BY BytesAre
    <3>. QED  BY <1>2, <2>1, <3>1, <3>2, <3>3
  <2>4. rd' = [r EXCEPT !.pos = pos, !.out = @ \o got.bytes, !.i = IF pos >= stop THEN @ + 1 ELSE @]
    BY <1>1, <1>10
  <2>5. PICK out : out = r.out \o got.bytes
    OBVIOUS
  <2>6. PICK j : j = IF pos >= stop THEN r.i + 1 ELSE r.i
    OBVIOUS
  <2>7. pos < r.end => AtSpan(j, pos)
    <3>1. CASE pos >= stop
      <4>1. pos = stop /\ pos \in Nat
        BY <1>2, <1>5, <2>2, <3>1
      <4>. QED  BY <1>2, <1>3, <1>4, <1>7, <2>6, <3>1, <4>1
    <3>2. CASE ~(pos >= stop)
      <4>1. pos \in Nat /\ pos < stop /\ r.pos <= pos
        BY <1>2, <1>5, <2>2, <3>2
      <4>. QED  BY <1>2, <1>8, <2>6, <3>2, <4>1
    <3>. QED  BY <3>1, <3>2
  <2>8. ASSUME NEW x, x = rd' PROVE ReadOK(x)
    <3>1. /\ DOMAIN x = Fields /\ x.st = "running" /\ x.off = r.off /\ x.len = r.len /\ x.pos = pos /\ x.end = r.end
          /\ x.out = out /\ x.i = j
      BY <1>1, <1>2, <2>4, <2>5, <2>6, <2>8 DEF Fields
    <3>2. pos \in Nat /\ pos <= r.end /\ r.off <= pos /\ pos - r.off \in Nat /\ pos - r.off <= r.len
      BY <1>2, <1>4, <1>5, <2>2
    <3>3. out = Bytes(r.off, pos - r.off) /\ Len(out) = pos - r.off
      <4>1. PICK c : c = r.pos + l - r.off
        OBVIOUS
      <4>2. r.out \o got.bytes = Bytes(r.off, c) /\ Len(r.out \o got.bytes) = c
        BY <2>3, <4>1
      <4>3. out = Bytes(r.off, c) /\ Len(out) = c
        BY <2>5, <4>2, Zenon
      <4>4. pos - r.off = c
        BY <1>2, <2>2, <4>1
      <4>. QED  BY <4>3, <4>4
    <3>. QED  BY <1>2, <2>7, <3>1, <3>2, <3>3 DEF ReadOK
  <2>. QED  BY <2>8
<1>. QED  BY <1>1, <1>9, <1>10

\* Every step keeps the read right.
LEMMA NextRead == ASSUME Inv, Placed, ReadRight, [Next]_vars PROVE ReadRight'
<1>1. PICK r : r = rd
  OBVIOUS
<1>2. ReadOK(r)
  BY <1>1 DEF ReadRight
<1>3. CASE pc # "open"
  <2>1. rd = NoRead
    BY <1>1, <1>2, <1>3 DEF ReadOK
  <2>2. rd' = NoRead
    <3>1. NoRead.st = "none"
      BY DEF NoRead
    <3>. QED  BY <1>3, <2>1, <3>1 DEF Next, TakeImage, TakeExtent, TakePiece, InsertSpan, RemoveSpan, ExtentDone,
              ImageDone, TakeGap, Opened, BeginRead, ReadSpan, EndRead, Return, Rest, vars
  <2>3. \A x : x = NoRead => ReadOK(x)'
    BY NoReadOK DEF ReadOK, NoRead
  <2>. QED  BY <2>2, <2>3 DEF ReadRight
<1>4. CASE pc = "open"
  <2>1. /\ UNCHANGED <<disk, pc, build>>
        /\ \/ \E q \in Reads : BeginRead(q[1], q[2])
           \/ ReadSpan \/ EndRead \/ Return \/ UNCHANGED rd
    BY <1>4 DEF Next, TakeImage, TakeExtent, TakePiece, InsertSpan, RemoveSpan, ExtentDone,
                ImageDone, TakeGap, Opened, BeginRead, ReadSpan, EndRead, Return, Rest, vars
  <2>2. ASSUME NEW q \in Reads, BeginRead(q[1], q[2]) PROVE \A x : x = rd' => ReadOK(x)
    <3>1. q[1] \in Nat /\ q[2] \in Nat
      BY VmdkAssumption
    <3>. QED  BY <2>2, <3>1, BeginOK
  <2>3. ASSUME ReadSpan PROVE \A x : x = rd' => ReadOK(x)
    BY <1>1, <1>2, <2>3, TurnOK
  <2>4. ASSUME EndRead, NEW x, x = rd' PROVE ReadOK(x)
    <3>1. r.st = "running" /\ r.pos >= r.end /\ x = [r EXCEPT !.st = "ok"]
      BY <1>1, <2>4 DEF EndRead
    <3>2. r # NoRead
      BY <3>1 DEF NoRead
    <3>3. /\ DOMAIN x = Fields /\ x.st = "ok" /\ x.off = r.off /\ x.len = r.len /\ x.pos = r.pos /\ x.end = r.end /\ x.out = r.out
      BY <1>2, <3>1 DEF ReadOK, Fields
    <3>4. x.pos = x.end
      BY <1>2, <3>1, <3>3 DEF ReadOK
    <3>. QED  BY <1>2, <3>1, <3>2, <3>3, <3>4 DEF ReadOK
  <2>5. ASSUME Return PROVE \A x : x = rd' => ReadOK(x)
    BY <2>5, NoReadOK DEF Return
  <2>6. ASSUME UNCHANGED rd PROVE \A x : x = rd' => ReadOK(x)
    BY <1>1, <1>2, <2>6
  <2>7. \A x : x = rd' => ReadOK(x)
    BY <2>1, <2>2, <2>3, <2>4, <2>5, <2>6
  <2>8. \A x : ReadOK(x)' <=> ReadOK(x)
    BY <2>1, SameRead
  <2>. QED  BY <2>7, <2>8 DEF ReadRight
<1>. QED  BY <1>3, <1>4

\* A read is right as far as it has got, in every state.
THEOREM ReadInvariance == Spec => []ReadRight
<1>1. Init => ReadRight
  BY NoReadOK DEF Init, ReadRight
<1>2. Inv /\ Placed /\ ReadRight /\ [Next]_vars => ReadRight'
  BY NextRead
<1>. QED  BY <1>1, <1>2, WalkInvariance, PlacesInvariance, PTL DEF Spec

\* A read that is right as far as it has got has what it should when it ends.
LEMMA RightMatches == ASSUME Inv, ReadRight PROVE ReadsMatchChain
<1>. DEFINE want == [i \in 1 .. Until(rd.off, rd.len) - rd.off |-> NearestByte(rd.off + i - 1)]
<1>1. ReadsMatchChain <=> /\ rd.st = "ok" => rd.out = want
                          /\ rd.st = "err" => rd.off > image_size \/ Range(want) \cap disk.bad # {}
  BY DEF ReadsMatchChain, Until
<1>2. PICK r : r = rd /\ ReadOK(r)
  BY DEF ReadRight
<1>3. NoRead.st = "none"
  BY DEF NoRead
<1>4. ASSUME rd.st = "ok" PROVE rd.out = want
  <2>1. r.end = Until(r.off, r.len) /\ r.out = Bytes(r.off, r.pos - r.off) /\ r.pos = r.end
    BY <1>2, <1>3, <1>4 DEF ReadOK
  <2>. QED  BY <1>2, <2>1 DEF Bytes
<1>5. ASSUME rd.st = "err" PROVE rd.off > image_size \/ Range(want) \cap disk.bad # {}
  <2>1. Excused(r.off, r.len) /\ pc = "open" /\ r.off \in Nat /\ r.len \in Nat
    BY <1>2, <1>3, <1>5 DEF ReadOK
  <2>2. ASSUME NEW k \in Nat, r.off <= k, k < Until(r.off, r.len), NearestByte(k) \in disk.bad
        PROVE  Range(want) \cap disk.bad # {}
    <3>1. PICK o \in Nat, u \in Int : o = r.off /\ u = Until(r.off, r.len)
      <4>1. image_size \in Nat
        BY <2>1, OpenSpans
      <4>2. PICK a \in Nat, b \in Nat : a = r.off + r.len /\ b = image_size
        BY <2>1, <4>1
      <4>3. Min({a, b}) = IF a <= b THEN a ELSE b
        BY LesserOf
      <4>4. Until(r.off, r.len) \in Nat
        BY <4>2, <4>3 DEF Until
      <4>. QED  BY <2>1, <4>4
    <3>2. PICK i \in 1 .. u - o : i = k - o + 1 /\ o + i - 1 = k
      <4>1. k - o + 1 \in 1 .. u - o /\ o + (k - o + 1) - 1 = k
        BY <2>2, <3>1
      <4>. QED  BY <4>1
    <3>3. want = [x \in 1 .. u - o |-> NearestByte(o + x - 1)]
      BY <1>2, <3>1
    <3>4. want[i] = NearestByte(k) /\ i \in DOMAIN want
      BY <3>2, <3>3
    <3>. HIDE DEF want
    <3>5. NearestByte(k) \in Range(want)
      BY <3>4 DEF Range
    <3>. QED  BY <2>2, <3>5
  <2>. QED  BY <1>2, <2>1, <2>2 DEF Excused
<1>. QED  BY <1>1, <1>4, <1>5

\* A read returns, byte for byte, what the nearest image of the chain that has the byte stores
\* there, zeros where none has it, and fails only past the end or over a byte that cannot be
\* had (read_at_offset over the map that open_with_options builds).
THEOREM ReadsTheChain == Spec => []ReadsMatchChain
<1>1. Inv /\ ReadRight => ReadsMatchChain
  BY RightMatches
<1>. QED  BY <1>1, WalkInvariance, ReadInvariance, PTL

\* The invariants of the walk and of reads bound every variable.
LEMMA RightTypes == ASSUME Inv, Placed, ReadRight PROVE TypeOK
<1>0. Chained /\ Sourced /\ PiecesAre
  BY DEF Placed
<1>1. disk \in Disks
  BY DEF Inv, SizeKnown
<1>2. pc \in Places /\ url \in Files
  BY <1>0 DEF Chained
<1>3. chain \in Seq(Files)
  <2>1. IsSeq(chain) /\ \A k \in 1 .. Len(chain) : chain[k] \in Files
    BY <1>0 DEF Chained, Descends, ImageFails, Files
  <2>2. DOMAIN chain = 1 .. Len(chain) /\ Len(chain) \in Nat
    BY <2>1, SeqFacts
  <2>3. chain \in [1 .. Len(chain) -> Files]
    <3>1. chain = [k \in DOMAIN chain |-> chain[k]]
      <4>1. chain \in Seq(Range(chain))
        BY <2>1 DEF IsSeq
      <4>2. chain \in [1 .. Len(chain) -> Range(chain)]
        BY <4>1, LenProperties
      <4>. QED  BY <4>2
    <3>. QED  BY <2>1, <2>2, <3>1
  <2>. QED  BY <2>2, <2>3
<1>4. idx \in Nat /\ \A n \in DOMAIN sources : n \in Nat /\ sources[n] \in Files \ {Absent}
  BY <1>0 DEF Sourced
<1>5. image_size \in Nat \cup {Absent}
  <2>1. SECTOR_SIZE \in Nat
    BY VmdkAssumption
  <2>2. ASSUME image_size # Absent PROVE image_size \in Nat
    <3>1. PICK n \in Nat, d \in Nat : n = N /\ d = SECTOR_SIZE
      BY <2>1, <2>2 DEF Inv, SizeKnown
    <3>2. image_size = n * d
      BY <2>2, <3>1 DEF Inv, SizeKnown
    <3>3. n * d \in Nat
      OBVIOUS
    <3>. QED  BY <3>2, <3>3
  <2>. QED  BY <2>2
<1>6. \A s \in DOMAIN spans : s \in Nat /\ spans[s].end \in Nat /\ spans[s].val \in 1 .. Val
  <2>1. \A s \in DOMAIN spans : s \in Nat /\ spans[s].end \in Nat /\ spans[s].val \in DOMAIN Pending
    BY DEF Inv, SpansFit, Tidy, Starting, Fits, Inside
  <2>2. DOMAIN Pending \subseteq 1 .. Val
    <3>1. IsSeq(extents)
      BY DEF Inv, TodoWhole
    <3>2. Len(extents) \in Nat /\ DOMAIN extents = 1 .. Len(extents)
      BY <3>1, SeqFacts
    <3>3. Pending = extents \/ \E e : Pending = Append(extents, e)
      BY DEF Pending
    <3>4. ASSUME NEW e, Pending = Append(extents, e) PROVE DOMAIN Pending = 1 .. Len(extents) + 1
      <4>1. IsSeq(Append(extents, e)) /\ Len(Append(extents, e)) = Len(extents) + 1
        BY <3>1, AppendIs
      <4>2. IsSeq(Pending) /\ Len(Pending) = Len(extents) + 1
        BY <3>4, <4>1
      <4>. QED  BY <4>2, SeqFacts
    <3>. QED  BY <3>2, <3>3, <3>4 DEF Val
  <2>. QED  BY <2>1, <2>2
<1>7. \A s \in DOMAIN uncovered : s \in Nat /\ uncovered[s] \in Nat
  BY DEF Inv, UncoveredFits, Ordered, Ends, Starting
<1>8. pieces \subseteq Nat \X Nat
  <2>1. CASE InPiece
    <3>1. ASSUME NEW p \in pieces PROVE p \in Nat \X Nat
      <4>1. p = <<p[1], p[2]>>
        BY <1>0, <2>1, SpanPairs DEF PiecesAre
      <4>2. p[1] \in Nat /\ p[2] \in Nat
        BY <2>1 DEF Inv, TodoWhole, PieceOf
      <4>. QED  BY <4>1, <4>2
    <3>. QED  BY <3>1
  <2>2. CASE ~InPiece
    BY <1>0, <2>2 DEF PiecesAre
  <2>. QED  BY <2>1, <2>2
<1>9. cur \in [{"beg", "end", "sbeg"} -> Nat]
  <2>1. cur \in [beg : Nat, end : Nat, sbeg : Nat]
    BY DEF Inv, CurFits
  <2>. QED  BY <2>1
<1>10. rd.st \in {"none", "running", "ok", "err"} /\ rd.pos <= rd.end /\ Len(rd.out) <= rd.len
  BY DEF ReadRight, ReadOK, NoRead
<1>. QED  BY <1>1, <1>2, <1>3, <1>4, <1>5, <1>6, <1>7, <1>8, <1>9, <1>10 DEF TypeOK, Places

\* Every variable stays within its type: sources have one file each, spans lead to extents that
\* are there, and a read keeps within its buffer (open_with_options and read_at_offset).
THEOREM TypesHold == Spec => []TypeOK
<1>1. Inv /\ Placed /\ ReadRight => TypeOK
  BY RightTypes
<1>. QED  BY <1>1, WalkInvariance, PlacesInvariance, ReadInvariance, PTL
=============================================================================
