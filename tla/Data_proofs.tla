----------------------------- MODULE Data_proofs ------------------------------
(***************************************************************************)
(* Theorems about the algorithms without state, for any input: what        *)
(* ChainGet finds, which manifests come back, how Split covers an area, and  *)
(* that a FireStore stays in its namespace (with FireStore_proofs).          *)
(***************************************************************************)
EXTENDS Data, FireStore_proofs

-------------------------------------------------------------------------------
(* Numbers and sets. *)
(* A finite set of numbers has a greatest and a least one: of the parts of  *)
(* the set above one of its numbers a smallest is that number alone.        *)
LEMMA Greatest ==
  ASSUME NEW S \in SUBSET Int, IsFiniteSet(S), S # {}
  PROVE  Max(S) \in S /\ \A x \in S : Max(S) >= x
<1> DEFINE From(x) == {y \in S : x <= y}
           Parts == {From(x) : x \in S}
<1>1. IsWellFoundedOn(StrictSubsetOrdering(S), SUBSET S)
  BY FS_StrictSubsetOrderingWellFounded, FS_FiniteSubsetsOfFinite
<1>2. Parts \subseteq SUBSET S /\ Parts # {}
  OBVIOUS
<1>3. PICK T \in Parts : \A U \in Parts : <<U, T>> \notin StrictSubsetOrdering(S)
  <2> HIDE DEF Parts
  <2> QED BY <1>1, <1>2, WFMin
<1>4. PICK a \in S : T = From(a)
  BY <1>3
<1>5. ASSUME NEW x \in S, a < x PROVE FALSE
  <2>1. x \in Int /\ a \in Int
    OBVIOUS
  <2>2. From(x) \in Parts
    OBVIOUS
  <2>3. ASSUME NEW y \in From(x) PROVE y \in T
    BY <1>4, <1>5, <2>1, <2>3
  <2>4. a \in T
    BY <1>4, <2>1
  <2>5. a \notin From(x)
    BY <1>5, <2>1
  <2>6. From(x) \in SUBSET S /\ T \in SUBSET S
    BY <1>4
  <2> HIDE DEF From, Parts
  <2> QED BY <1>3, <2>2, <2>3, <2>4, <2>5, <2>6 DEF StrictSubsetOrdering
<1>6. \A x \in S : a >= x
  BY <1>5
<1> QED BY <1>6 DEF Max

LEMMA Least ==
  ASSUME NEW S \in SUBSET Int, IsFiniteSet(S), S # {}
  PROVE  Min(S) \in S /\ \A x \in S : Min(S) <= x
<1> DEFINE UpTo(x) == {y \in S : y <= x}
           Parts == {UpTo(x) : x \in S}
<1>1. IsWellFoundedOn(StrictSubsetOrdering(S), SUBSET S)
  BY FS_StrictSubsetOrderingWellFounded, FS_FiniteSubsetsOfFinite
<1>2. Parts \subseteq SUBSET S /\ Parts # {}
  OBVIOUS
<1>3. PICK T \in Parts : \A U \in Parts : <<U, T>> \notin StrictSubsetOrdering(S)
  <2> HIDE DEF Parts
  <2> QED BY <1>1, <1>2, WFMin
<1>4. PICK a \in S : T = UpTo(a)
  BY <1>3
<1>5. ASSUME NEW x \in S, x < a PROVE FALSE
  <2>1. x \in Int /\ a \in Int
    OBVIOUS
  <2>2. UpTo(x) \in Parts
    OBVIOUS
  <2>3. ASSUME NEW y \in UpTo(x) PROVE y \in T
    BY <1>4, <1>5, <2>1, <2>3
  <2>4. a \in T
    BY <1>4, <2>1
  <2>5. a \notin UpTo(x)
    BY <1>5, <2>1
  <2>6. UpTo(x) \in SUBSET S /\ T \in SUBSET S
    BY <1>4
  <2> HIDE DEF UpTo, Parts
  <2> QED BY <1>3, <2>2, <2>3, <2>4, <2>5, <2>6 DEF StrictSubsetOrdering
<1>6. \A x \in S : a <= x
  BY <1>5
<1> QED BY <1>6 DEF Min

LEMMA LeastNatural ==
  ASSUME NEW S \in SUBSET Nat, S # {}
  PROVE  \E m \in S : \A k \in S : m <= k
<1>1. PICK n \in S : TRUE
  OBVIOUS
<1> DEFINE L == S \cap (0 .. n)
<1>2. L \in SUBSET Int /\ n \in L
  OBVIOUS
<1>3. IsFiniteSet(0 .. n)
  BY FS_Interval
<1>4. L \in SUBSET (0 .. n)
  OBVIOUS
<1>5. IsFiniteSet(L)
  <2> HIDE DEF L
  <2> QED BY <1>3, <1>4, FS_Subset
<1>6. Min(L) \in L /\ \A x \in L : Min(L) <= x
  <2> HIDE DEF L
  <2> QED BY <1>2, <1>5, Least
<1> QED BY <1>6

(* What holds of 0 and of the next number with each holds up to k. *)
LEMMA StepByStep ==
  ASSUME NEW S, NEW k \in Nat, 0 \in S, \A n \in 1 .. k : n - 1 \in S => n \in S
  PROVE  \A n \in 0 .. k : n \in S
<1> DEFINE Bad == { n \in 0 .. k : n \notin S }
<1> SUFFICES ASSUME Bad # {} PROVE FALSE
  OBVIOUS
<1>1. Bad \in SUBSET Nat
  OBVIOUS
<1>2. PICK n \in Bad : \A m \in Bad : n <= m
  <2> HIDE DEF Bad
  <2> QED BY <1>1, LeastNatural
<1>3. n \in 0 .. k /\ n \notin S /\ n # 0
  BY <1>2
<1>4. n \in 1 .. k /\ n - 1 \in 0 .. k /\ ~(n <= n - 1)
  BY <1>3
<1> QED BY <1>2, <1>3, <1>4

-------------------------------------------------------------------------------
(* How Split covers an area. *)
LEMMA QuotientIs ==
  ASSUME NEW a \in Int, NEW b \in Nat \ {0}
  PROVE  /\ a \div b \in Int
         /\ b * (a \div b) <= a
         /\ a < b * (a \div b) + b
OBVIOUS

LEMMA Times ==
  ASSUME NEW b \in Nat, NEW x \in Int, NEW y \in Int, x <= y
  PROVE  b * x <= b * y
OBVIOUS

LEMMA QuotientOrder ==
  ASSUME NEW b \in Nat \ {0}, NEW a \in Int, NEW c \in Int, a <= c
  PROVE  a \div b <= c \div b
<1> DEFINE x == a \div b
           y == c \div b
<1>1. x \in Int /\ y \in Int /\ b * x <= a /\ c < b * y + b
  BY QuotientIs
<1> HIDE DEF x, y
<1>2. ASSUME y + 1 <= x PROVE FALSE
  <2>1. b * (y + 1) <= b * x
    BY <1>1, <1>2, Times
  <2>2. b * (y + 1) = b * y + b
    BY <1>1
  <2> QED BY <1>1, <2>1, <2>2
<1> QED BY <1>1, <1>2 DEF x, y

LEMMA QuotientUnique ==
  ASSUME NEW b \in Nat \ {0}, NEW a \in Int, NEW x \in Int, b * x <= a, a < b * x + b
  PROVE  a \div b = x
<1> DEFINE y == a \div b
<1>1. y \in Int /\ b * y <= a /\ a < b * y + b
  BY QuotientIs
<1> HIDE DEF y
<1>2. ASSUME x + 1 <= y PROVE FALSE
  <2>1. b * (x + 1) <= b * y /\ b * (x + 1) = b * x + b
    BY <1>1, <1>2, Times
  <2> QED BY <1>1, <2>1
<1>3. ASSUME y + 1 <= x PROVE FALSE
  <2>1. b * (y + 1) <= b * x /\ b * (y + 1) = b * y + b
    BY <1>1, <1>3, Times
  <2> QED BY <1>1, <2>1
<1> QED BY <1>1, <1>2, <1>3 DEF y

(* A common factor does not change a quotient. *)
LEMMA QuotientScaled ==
  ASSUME NEW d \in Nat \ {0}, NEW b \in Nat \ {0}, NEW a \in Int
  PROVE  (d * a) \div (d * b) = a \div b
<1> DEFINE x == a \div b
<1>1. x \in Int /\ b * x <= a /\ a + 1 <= b * x + b
  BY QuotientIs
<1> HIDE DEF x
<1>2. b * x \in Int /\ b * x + b \in Int /\ a + 1 \in Int
  BY <1>1
<1>3. d * (b * x) <= d * a /\ d * (a + 1) <= d * (b * x + b)
  BY <1>1, <1>2, Times
<1>4. d * (b * x) = (d * b) * x /\ d * (b * x + b) = (d * b) * x + d * b /\ d * (a + 1) = d * a + d
  BY <1>1
<1>5. d * b \in Nat \ {0} /\ d * a \in Int /\ (d * b) * x \in Int
  BY <1>1
<1>6. (d * b) * x <= d * a /\ d * a < (d * b) * x + d * b
  BY <1>3, <1>4, <1>5
<1>7. (d * a) \div (d * b) = x
  <2> DEFINE e == d * b  f == d * a
  <2>1. e \in Nat \ {0} /\ f \in Int /\ e * x <= f /\ f < e * x + e
    BY <1>5, <1>6
  <2> HIDE DEF e, f
  <2>2. f \div e = x
    BY <1>1, <2>1, QuotientUnique
  <2> QED BY <2>2 DEF e, f
<1> QED BY <1>7 DEF x

Multiple(n) == \E m \in Nat : n = Grain * m

LEMMA RoundOrder ==
  ASSUME NEW d \in Nat \ {0}, NEW n \in Nat, NEW m \in Nat, n <= m
  PROVE  /\ round(n, d) \in Nat /\ Multiple(round(n, d))
         /\ round(n, d) <= round(m, d)
<1> DEFINE b == 2 * d * Grain
           u == 2 * n + d * Grain
           v == 2 * m + d * Grain
           x == u \div b
           y == v \div b
<1>1. d * Grain \in Nat \ {0} /\ b \in Nat \ {0}
  BY GrainAssumption
<1>2. u \in Nat /\ v \in Nat /\ u <= v
  BY <1>1
<1> HIDE DEF b, u, v
<1>3. 0 \div b = 0
  BY <1>1
<1>4. 0 \div b <= x /\ x <= y /\ x \in Int /\ y \in Int
  BY <1>1, <1>2, QuotientOrder, QuotientIs
<1>5. round(n, d) = Grain * x /\ round(m, d) = Grain * y
  BY DEF round, b, u, v
<1> HIDE DEF x, y
<1>6. x \in Nat /\ y \in Nat
  BY <1>3, <1>4
<1>7. Grain * x \in Nat /\ Grain * x <= Grain * y
  BY <1>4, <1>6, GrainAssumption, Times
<1> QED BY <1>5, <1>6, <1>7 DEF Multiple

(* A fraction rounds as the number it is, and a multiple to itself.         *)
LEMMA RoundScaled ==
  ASSUME NEW d \in Nat \ {0}, NEW n \in Nat
  PROVE  round(d * n, d) = round(n, 1)
<1> DEFINE a == 2 * n + 1 * Grain
           b == 2 * 1 * Grain
<1>1. a \in Int /\ b \in Nat \ {0}
  BY GrainAssumption
<1>2. 2 * (d * n) + d * Grain = d * a /\ 2 * d * Grain = d * b
  BY GrainAssumption
<1>3. round(d * n, d) = Grain * ((d * a) \div (d * b))
  BY <1>2 DEF round
<1>4. round(n, 1) = Grain * (a \div b)
  BY DEF round
<1> HIDE DEF a, b
<1>5. (d * a) \div (d * b) = a \div b
  BY <1>1, QuotientScaled
<1> QED BY <1>3, <1>4, <1>5

LEMMA RoundOfMultiple ==
  ASSUME NEW n \in Nat, Multiple(n)
  PROVE  round(n, 1) = n
<1>1. PICK m \in Nat : n = Grain * m
  BY DEF Multiple
<1> DEFINE a == 2 * n + 1 * Grain
           b == 2 * 1 * Grain
<1>2. b \in Nat \ {0} /\ a \in Int
  BY GrainAssumption
<1>3. b * m = 2 * n
  BY <1>1, GrainAssumption
<1>4. b * m <= a /\ a < b * m + b
  BY <1>3, GrainAssumption
<1>5. round(n, 1) = Grain * (a \div b)
  BY DEF round
<1> HIDE DEF a, b
<1>6. a \div b = m
  BY <1>2, <1>4, QuotientUnique
<1> QED BY <1>1, <1>5, <1>6

(* One square of a side's length lies in at most one span.                  *)
Holds(s, x) == s \in Nat \X Nat /\ s[1] <= x /\ x < s[2]

(* Where the spans of a side begin and end. *)
SpanAt(from, longer, cluster, i) == cluster * from + i * longer

LEMMA SpanAtNext ==
  ASSUME NEW from \in Nat, NEW longer \in Nat, NEW cluster \in Nat \ {0}, NEW i \in Nat
  PROVE  /\ SpanAt(from, longer, cluster, i) \in Nat
         /\ \A j \in Nat : i < j =>
              SpanAt(from, longer, cluster, i + 1) <= SpanAt(from, longer, cluster, j)
<1>1. SpanAt(from, longer, cluster, i) \in Nat
  BY DEF SpanAt
<1>2. ASSUME NEW j \in Nat, i < j
      PROVE  SpanAt(from, longer, cluster, i + 1) <= SpanAt(from, longer, cluster, j)
  <2>1. longer * (i + 1) <= longer * j
    BY <1>2, Times
  <2>2. longer * (i + 1) = (i + 1) * longer /\ longer * j = j * longer
    OBVIOUS
  <2>3. cluster * from \in Nat /\ (i + 1) * longer \in Nat /\ j * longer \in Nat
    OBVIOUS
  <2> QED BY <2>1, <2>2, <2>3 DEF SpanAt
<1> QED BY <1>1, <1>2

(* The span that begins at the i-th place. *)
IsSpan(s, i, from, to, longer, cluster) ==
  /\ SpanAt(from, longer, cluster, i) < cluster * to
  /\ s = <<round(SpanAt(from, longer, cluster, i), cluster),
           round(Min2(cluster * to, SpanAt(from, longer, cluster, i + 1)), cluster)>>
  /\ s \in Nat \X Nat /\ Multiple(s[1]) /\ Multiple(s[2])

LEMMA SpanShape ==
  ASSUME NEW from \in Nat, NEW to \in Nat, NEW longer \in Nat, NEW cluster \in Nat \ {0},
         NEW s \in Spans(from, to, longer, cluster)
  PROVE  \E i \in 0 .. cluster : IsSpan(s, i, from, to, longer, cluster)
<1> DEFINE at(i) == SpanAt(from, longer, cluster, i)
<1>1. PICK i \in 0 .. cluster :
        /\ at(i) < cluster * to
        /\ s = <<round(at(i), cluster), round(Min2(cluster * to, at(i + 1)), cluster)>>
  BY DEF Spans, SpanAt
<1>2. at(i) \in Nat /\ at(i + 1) \in Nat
  <2>1. i \in Nat /\ i + 1 \in Nat
    OBVIOUS
  <2>2. \A j \in Nat : at(j) \in Nat
    BY SpanAtNext
  <2> HIDE DEF at
  <2> QED BY <2>1, <2>2
<1> HIDE DEF at
<1>3. Min2(cluster * to, at(i + 1)) \in Nat
  BY <1>2 DEF Min2
<1>4. /\ round(at(i), cluster) \in Nat
      /\ Multiple(round(at(i), cluster))
  BY <1>2, RoundOrder
<1>5. /\ round(Min2(cluster * to, at(i + 1)), cluster) \in Nat
      /\ Multiple(round(Min2(cluster * to, at(i + 1)), cluster))
  BY <1>3, RoundOrder
<1> QED BY <1>1, <1>4, <1>5 DEF IsSpan, at

LEMMA EarlierSpanEnds ==
  ASSUME NEW from \in Nat, NEW to \in Nat, NEW longer \in Nat, NEW cluster \in Nat \ {0},
         NEW i \in Nat, NEW j \in Nat, i < j,
         NEW s, NEW t, IsSpan(s, i, from, to, longer, cluster), IsSpan(t, j, from, to, longer, cluster)
  PROVE  s[2] <= t[1]
<1> DEFINE at(k) == SpanAt(from, longer, cluster, k)
<1>1. at(i + 1) \in Nat /\ at(j) \in Nat /\ at(i + 1) <= at(j)
  BY SpanAtNext
<1>2. at(j) < cluster * to
  BY DEF IsSpan
<1>3. s[2] = round(Min2(cluster * to, at(i + 1)), cluster) /\ t[1] = round(at(j), cluster)
  BY DEF IsSpan
<1> HIDE DEF at
<1>4. Min2(cluster * to, at(i + 1)) = at(i + 1)
  BY <1>1, <1>2 DEF Min2
<1> QED BY <1>1, <1>3, <1>4, RoundOrder

LEMMA SpansApart ==
  ASSUME NEW from \in Nat, NEW to \in Nat, NEW longer \in Nat, NEW cluster \in Nat \ {0}, NEW x \in Int,
         NEW s \in Spans(from, to, longer, cluster), NEW t \in Spans(from, to, longer, cluster),
         Holds(s, x), Holds(t, x)
  PROVE  s = t
<1>1. PICK i \in 0 .. cluster : IsSpan(s, i, from, to, longer, cluster)
  BY SpanShape
<1>2. PICK j \in 0 .. cluster : IsSpan(t, j, from, to, longer, cluster)
  BY SpanShape
<1>3. s[1] \in Nat /\ s[2] \in Nat /\ t[1] \in Nat /\ t[2] \in Nat
  BY DEF Holds
<1>4. s[1] <= x /\ x < s[2] /\ t[1] <= x /\ x < t[2]
  BY DEF Holds
<1>5. i \in Nat /\ j \in Nat
  OBVIOUS
<1>6. ASSUME i < j PROVE FALSE
  <2>1. s[2] <= t[1]
    BY <1>1, <1>2, <1>5, <1>6, EarlierSpanEnds
  <2> QED BY <1>3, <1>4, <2>1
<1>7. ASSUME j < i PROVE FALSE
  <2>1. t[2] <= s[1]
    BY <1>1, <1>2, <1>5, <1>7, EarlierSpanEnds
  <2> QED BY <1>3, <1>4, <2>1
<1>8. i = j
  BY <1>6, <1>7
<1> QED BY <1>1, <1>2, <1>8 DEF IsSpan

(* Between its two edges rounded, the spans leave nothing out.              *)
LEMMA SpanCovers ==
  ASSUME NEW from \in Nat, NEW to \in Nat, NEW longer \in Nat, NEW cluster \in Nat \ {0},
         from < to, to <= from + longer,
         NEW x \in Nat, round(from, 1) <= x, x < round(to, 1)
  PROVE  \E s \in Spans(from, to, longer, cluster) : Holds(s, x)
<1> DEFINE at(i) == SpanAt(from, longer, cluster, i)
           start(i) == round(at(i), cluster)
           end(i) == round(Min2(cluster * to, at(i + 1)), cluster)
           S == {j \in 0 .. cluster : at(j) < cluster * to /\ start(j) <= x}
<1>1. cluster * from \in Nat /\ cluster * to \in Nat /\ cluster * from < cluster * to
  <2>1. cluster * (from + 1) <= cluster * to
    BY Times
  <2>2. cluster * (from + 1) = cluster * from + cluster
    OBVIOUS
  <2>3. cluster * from \in Nat /\ cluster * to \in Nat
    OBVIOUS
  <2> QED BY <2>1, <2>2, <2>3
<1>2. 0 \in S
  <2>1. at(0) = cluster * from
    BY <1>1 DEF SpanAt
  <2>2. start(0) = round(from, 1)
    BY <2>1, RoundScaled
  <2> QED BY <1>1, <2>1, <2>2
<1>3. S \in SUBSET Int /\ S # {}
  <2>1. S \subseteq 0 .. cluster
    OBVIOUS
  <2> HIDE DEF S
  <2> QED BY <1>2, <2>1
<1>4. IsFiniteSet(S)
  <2>1. IsFiniteSet(0 .. cluster)
    BY FS_Interval
  <2>2. S \in SUBSET (0 .. cluster)
    OBVIOUS
  <2> HIDE DEF S
  <2> QED BY <2>1, <2>2, FS_Subset
<1>5. PICK i \in S : \A j \in S : i >= j
  <2> HIDE DEF S
  <2> QED BY <1>3, <1>4, Greatest
<1>6. i \in 0 .. cluster /\ at(i) < cluster * to /\ start(i) <= x
  BY <1>5
<1>7. /\ at(i) \in Nat /\ at(i + 1) \in Nat
      /\ start(i) \in Nat /\ end(i) \in Nat
  <2>1. at(i) \in Nat /\ at(i + 1) \in Nat
    <3>1. i \in Nat /\ i + 1 \in Nat
      BY <1>6
    <3>2. \A j \in Nat : at(j) \in Nat
      BY SpanAtNext
    <3> HIDE DEF at
    <3> QED BY <3>1, <3>2
  <2> HIDE DEF at
  <2>2. Min2(cluster * to, at(i + 1)) \in Nat
    BY <1>1, <2>1 DEF Min2
  <2> QED BY <2>1, <2>2, RoundOrder
<1>8. x < end(i)
  <2>1. CASE cluster * to <= at(i + 1)
    <3>1. Min2(cluster * to, at(i + 1)) = cluster * to
      <4> HIDE DEF at
      <4> QED BY <1>1, <1>7, <2>1 DEF Min2
    <3>2. end(i) = round(to, 1)
      BY <3>1, RoundScaled
    <3> QED BY <3>2
  <2>2. CASE at(i + 1) < cluster * to
    <3>1. ASSUME i = cluster PROVE FALSE
      <4>1. cluster * to <= cluster * (from + longer)
        BY Times
      <4>2. cluster * (from + longer) = at(i)
        BY <3>1 DEF SpanAt
      <4> HIDE DEF at
      <4> QED BY <1>1, <1>6, <1>7, <4>1, <4>2
    <3>2. i + 1 \in 0 .. cluster
      BY <1>6, <3>1
    <3>3. i + 1 \notin S
      BY <1>5, <1>6
    <3>4. ~(start(i + 1) <= x)
      <4> HIDE DEF start, at
      <4> QED BY <2>2, <3>2, <3>3
    <3>5. Min2(cluster * to, at(i + 1)) = at(i + 1)
      <4> HIDE DEF at
      <4> QED BY <2>2, <1>1, <1>7 DEF Min2
    <3>6. end(i) = start(i + 1)
      BY <3>5
    <3> HIDE DEF start, end
    <3> QED BY <1>7, <3>4, <3>6
  <2> HIDE DEF at, end
  <2> QED BY <1>1, <1>7, <2>1, <2>2
<1>9. <<start(i), end(i)>> \in Spans(from, to, longer, cluster)
  <2>1. start(i) # end(i)
    <3> HIDE DEF start, end
    <3> QED BY <1>6, <1>7, <1>8
  <2>2. i \in { j \in 0 .. cluster : cluster * from + j * longer < cluster * to }
    BY <1>6 DEF SpanAt
  <2> QED BY <2>1, <2>2 DEF Spans, SpanAt
<1>10. Holds(<<start(i), end(i)>>, x)
  <2> HIDE DEF start, end
  <2> QED BY <1>6, <1>7, <1>8 DEF Holds
<1> QED BY <1>9, <1>10

LEMMA Projections ==
  ASSUME NEW p, IsPolygon(p), p # {}
  PROVE  /\ { c[1] : c \in p } \in SUBSET Nat /\ { c[2] : c \in p } \in SUBSET Nat
         /\ IsFiniteSet({ c[1] : c \in p }) /\ IsFiniteSet({ c[2] : c \in p })
         /\ { c[1] : c \in p } # {} /\ { c[2] : c \in p } # {}
<1>1. \A c \in p : c[1] \in Nat /\ c[2] \in Nat
  BY DEF IsPolygon
<1>2. IsFiniteSet({ c[1] : c \in p })
  <2> DEFINE f == [c \in p |-> c[1]]
  <2>1. f \in Surjection(p, { c[1] : c \in p })
    BY DEF Surjection
  <2> HIDE DEF f
  <2> QED BY <2>1, FS_Surjection DEF IsPolygon
<1>3. IsFiniteSet({ c[2] : c \in p })
  <2> DEFINE f == [c \in p |-> c[2]]
  <2>1. f \in Surjection(p, { c[2] : c \in p })
    BY DEF Surjection
  <2> HIDE DEF f
  <2> QED BY <2>1, FS_Surjection DEF IsPolygon
<1> QED BY <1>1, <1>2, <1>3

(* Along one side: where a set of numbers begins and ends.                  *)
LEMMA Extent ==
  ASSUME NEW S \in SUBSET Nat, IsFiniteSet(S), S # {}
  PROVE  /\ Min(S) \in Nat /\ Max(S) + 1 \in Nat /\ Min(S) < Max(S) + 1
         /\ \A x \in S : Min(S) <= x /\ x + 1 <= Max(S) + 1
<1>1. S \in SUBSET Int
  OBVIOUS
<1>2. Min(S) \in S /\ \A x \in S : Min(S) <= x
  BY <1>1, Least
<1>3. Max(S) \in S /\ \A x \in S : Max(S) >= x
  BY <1>1, Greatest
<1>4. Min(S) \in Nat /\ Max(S) \in Nat /\ Min(S) <= Max(S)
  BY <1>2, <1>3
<1> HIDE DEF Min, Max
<1>5. ASSUME NEW x \in S PROVE Min(S) <= x /\ x + 1 <= Max(S) + 1
  <2>1. x \in Nat /\ Min(S) <= x /\ x <= Max(S)
    BY <1>2, <1>3, <1>4
  <2> QED BY <1>4, <2>1
<1> QED BY <1>4, <1>5

LEMMA LongerOfTwo ==
  ASSUME NEW a \in Nat, NEW b \in Nat
  PROVE  Max({a, b}) \in Nat /\ a <= Max({a, b}) /\ b <= Max({a, b})
<1>1. IsFiniteSet({a}) 
  BY FS_Singleton
<1>2. {a, b} = {a} \cup {b}
  OBVIOUS
<1>3. IsFiniteSet({a, b})
  BY <1>1, <1>2, FS_AddElement
<1>4. {a, b} \in SUBSET Int /\ {a, b} # {}
  OBVIOUS
<1>5. Max({a, b}) \in {a, b} /\ \A x \in {a, b} : Max({a, b}) >= x
  BY <1>3, <1>4, Greatest
<1> QED BY <1>5

(* The rectangle of one span of each side. *)
Rect(s, t) == [x0 |-> s[1], x1 |-> s[2], y0 |-> t[1], y1 |-> t[2]]

LEMMA RectHolds ==
  ASSUME NEW c \in Nat \X Nat, NEW s \in Nat \X Nat, NEW t \in Nat \X Nat
  PROVE  In(c, Rect(s, t)) <=> Holds(s, c[1]) /\ Holds(t, c[2])
BY DEF In, Rect, Holds

(* The edges of the rectangles are multiples. *)
Rounded(r) ==
  /\ r.x0 \in Nat /\ r.x1 \in Nat /\ r.y0 \in Nat /\ r.y1 \in Nat
  /\ Multiple(r.x0) /\ Multiple(r.x1) /\ Multiple(r.y0) /\ Multiple(r.y1)

(* What the first square of a line, or its last, is cut off by. *)
LEMMA OutsideIsSliver ==
  ASSUME NEW line \in SUBSET Nat, IsFiniteSet(line), NEW x \in line,
         NEW from \in Nat, NEW to \in Nat, \A y \in line : from <= y /\ y + 1 <= to,
         x < round(from, 1) \/ round(to, 1) <= x
  PROVE  OutsideRounded(line, x)
<1>1. line \in SUBSET Int /\ line # {}
  OBVIOUS
<1>2. Min(line) \in line /\ \A y \in line : Min(line) <= y
  BY <1>1, Least
<1>3. Max(line) \in line /\ \A y \in line : Max(line) >= y
  BY <1>1, Greatest
<1> DEFINE k == Min(line)  l == Max(line)
<1>4. k \in line /\ l \in line /\ k <= x /\ x <= l /\ k \in Nat /\ l \in Nat /\ l + 1 \in Nat
  <2>1. k \in line /\ l \in line /\ k <= x
    BY <1>2, <1>3
  <2>2. k \in Nat /\ l \in Nat /\ x \in Nat
    BY <2>1
  <2>3. l >= x
    BY <1>3
  <2> HIDE DEF k, l
  <2> QED BY <2>1, <2>2, <2>3
<1>5. k - 1 \notin line
  <2>1. ~(k <= k - 1)
    BY <1>4
  <2> QED BY <1>2, <2>1
<1>6. l + 1 \notin line
  <2>1. ~(l >= l + 1)
    BY <1>4
  <2> QED BY <1>3, <2>1
<1> HIDE DEF k, l
<1>7. CASE x < round(from, 1)
  <2>1. round(from, 1) <= round(k, 1) /\ round(from, 1) \in Nat /\ round(k, 1) \in Nat
    BY <1>4, RoundOrder
  <2>2. x < round(k, 1)
    BY <1>7, <2>1
  <2> QED BY <1>4, <1>5, <2>2 DEF OutsideRounded
<1>8. CASE round(to, 1) <= x
  <2>1. round(l + 1, 1) <= round(to, 1) /\ round(to, 1) \in Nat /\ round(l + 1, 1) \in Nat
    BY <1>4, RoundOrder
  <2>2. round(l + 1, 1) <= x
    BY <1>8, <2>1
  <2> QED BY <1>4, <1>6, <2>2 DEF OutsideRounded
<1> QED BY <1>7, <1>8

LEMMA LinesShape ==
  ASSUME NEW p, IsPolygon(p), NEW c \in p
  PROVE  /\ Row(p, c) \in SUBSET Nat /\ IsFiniteSet(Row(p, c)) /\ c[1] \in Row(p, c)
         /\ Column(p, c) \in SUBSET Nat /\ IsFiniteSet(Column(p, c)) /\ c[2] \in Column(p, c)
         /\ \A x \in Nat : x \in Row(p, c) <=> <<x, c[2]>> \in p
         /\ \A y \in Nat : y \in Column(p, c) <=> <<c[1], y>> \in p
         /\ Row(p, c) \subseteq { d[1] : d \in p } /\ Column(p, c) \subseteq { d[2] : d \in p }
<1>1. \A d \in p : d = <<d[1], d[2]>> /\ d[1] \in Nat /\ d[2] \in Nat
  BY DEF IsPolygon
<1>2. Row(p, c) \subseteq { d[1] : d \in p } /\ Column(p, c) \subseteq { d[2] : d \in p }
  BY DEF Row, Column
<1>3. /\ { d[1] : d \in p } \in SUBSET Nat /\ { d[2] : d \in p } \in SUBSET Nat
      /\ IsFiniteSet({ d[1] : d \in p }) /\ IsFiniteSet({ d[2] : d \in p })
  BY Projections
<1>4. IsFiniteSet(Row(p, c)) /\ IsFiniteSet(Column(p, c))
  BY <1>2, <1>3, FS_Subset
<1>5. c[1] \in Row(p, c) /\ c[2] \in Column(p, c)
  BY DEF Row, Column
<1>6. ASSUME NEW x \in Nat PROVE x \in Row(p, c) <=> <<x, c[2]>> \in p
  BY <1>1 DEF Row
<1>7. ASSUME NEW y \in Nat PROVE y \in Column(p, c) <=> <<c[1], y>> \in p
  BY <1>1 DEF Column
<1> QED BY <1>2, <1>3, <1>4, <1>5, <1>6, <1>7

(* Every square of a polygon is in exactly one of the rectangles it is cut  *)
(* along, or a sliver beside them.                                          *)
LEMMA RectsTile ==
  ASSUME NEW p, IsPolygon(p), NEW cluster \in Nat \ {0}, NEW c \in p
  PROVE  /\ (\E r \in Rects(p, cluster) : In(c, r)) \/ Sliver(c, p)
         /\ \A r, q \in Rects(p, cluster) : In(c, r) /\ In(c, q) => r = q
         /\ \A r \in Rects(p, cluster) : Rounded(r)
<1> DEFINE X == { d[1] : d \in p }
           Y == { d[2] : d \in p }
           left == Min(X)
           low == Min(Y)
           right == Max(X) + 1
           high == Max(Y) + 1
           longer == Max({right - left, high - low})
           Across == Spans(left, right, longer, cluster)
           Up == Spans(low, high, longer, cluster)
<1>1. c \in Nat \X Nat /\ c[1] \in X /\ c[2] \in Y /\ c[1] \in Nat /\ c[2] \in Nat
  BY DEF IsPolygon
<1>2. X \in SUBSET Nat /\ IsFiniteSet(X) /\ X # {} /\ Y \in SUBSET Nat /\ IsFiniteSet(Y) /\ Y # {}
  BY Projections
<1>3. Rects(p, cluster) = { Rect(s, t) : s \in Across, t \in Up }
  BY DEF Rects, Rect
<1>4. /\ Row(p, c) \in SUBSET Nat /\ IsFiniteSet(Row(p, c)) /\ c[1] \in Row(p, c) /\ Row(p, c) \subseteq X
      /\ Column(p, c) \in SUBSET Nat /\ IsFiniteSet(Column(p, c)) /\ c[2] \in Column(p, c)
      /\ Column(p, c) \subseteq Y
  BY LinesShape
<1> HIDE DEF X, Y
<1>5. left \in Nat /\ right \in Nat /\ left < right /\ \A x \in X : left <= x /\ x + 1 <= right
  BY <1>2, Extent
<1>6. low \in Nat /\ high \in Nat /\ low < high /\ \A y \in Y : low <= y /\ y + 1 <= high
  BY <1>2, Extent
<1> HIDE DEF left, low, right, high
<1>7. longer \in Nat /\ right <= left + longer /\ high <= low + longer
  <2>1. right - left \in Nat /\ high - low \in Nat
    BY <1>5, <1>6
  <2>2. longer \in Nat /\ right - left <= longer /\ high - low <= longer
    BY <2>1, LongerOfTwo
  <2> HIDE DEF longer
  <2> QED BY <1>5, <1>6, <2>2
<1> HIDE DEF longer
<1>8. ASSUME round(left, 1) <= c[1], c[1] < round(right, 1) PROVE \E s \in Across : Holds(s, c[1])
  BY <1>1, <1>5, <1>7, <1>8, SpanCovers
<1>9. ASSUME round(low, 1) <= c[2], c[2] < round(high, 1) PROVE \E t \in Up : Holds(t, c[2])
  BY <1>1, <1>6, <1>7, <1>9, SpanCovers
<1>10. \A s \in Across : s \in Nat \X Nat /\ Multiple(s[1]) /\ Multiple(s[2])
  BY <1>5, <1>7, SpanShape DEF IsSpan
<1>11. \A t \in Up : t \in Nat \X Nat /\ Multiple(t[1]) /\ Multiple(t[2])
  BY <1>6, <1>7, SpanShape DEF IsSpan
<1>12. \A s, t \in Across : Holds(s, c[1]) /\ Holds(t, c[1]) => s = t
  BY <1>1, <1>5, <1>7, SpansApart
<1>13. \A s, t \in Up : Holds(s, c[2]) /\ Holds(t, c[2]) => s = t
  BY <1>1, <1>6, <1>7, SpansApart
<1>14. (\E r \in Rects(p, cluster) : In(c, r)) \/ Sliver(c, p)
  <2>1. CASE c[1] < round(left, 1) \/ round(right, 1) <= c[1]
    <3>1. \A x \in Row(p, c) : left <= x /\ x + 1 <= right
      BY <1>4, <1>5
    <3>2. OutsideRounded(Row(p, c), c[1])
      BY <1>4, <1>5, <2>1, <3>1, OutsideIsSliver
    <3> QED BY <3>2 DEF Sliver
  <2>2. CASE c[2] < round(low, 1) \/ round(high, 1) <= c[2]
    <3>1. \A y \in Column(p, c) : low <= y /\ y + 1 <= high
      BY <1>4, <1>6
    <3>2. OutsideRounded(Column(p, c), c[2])
      BY <1>4, <1>6, <2>2, <3>1, OutsideIsSliver
    <3> QED BY <3>2 DEF Sliver
  <2>3. CASE /\ ~(c[1] < round(left, 1) \/ round(right, 1) <= c[1])
             /\ ~(c[2] < round(low, 1) \/ round(high, 1) <= c[2])
    <3>1. round(left, 1) \in Nat /\ round(right, 1) \in Nat /\ round(low, 1) \in Nat /\ round(high, 1) \in Nat
      BY <1>5, <1>6, RoundOrder
    <3>2. round(left, 1) <= c[1] /\ c[1] < round(right, 1) /\ round(low, 1) <= c[2] /\ c[2] < round(high, 1)
      BY <1>1, <2>3, <3>1
    <3>3. PICK s \in Across : Holds(s, c[1])
      BY <1>8, <3>2
    <3>4. PICK t \in Up : Holds(t, c[2])
      BY <1>9, <3>2
    <3>5. Rect(s, t) \in Rects(p, cluster)
      BY <1>3
    <3> HIDE DEF Across, Up
    <3>6. In(c, Rect(s, t))
      BY <1>1, <1>10, <1>11, <3>3, <3>4, RectHolds
    <3> QED BY <3>5, <3>6
  <2> QED BY <2>1, <2>2, <2>3
<1> HIDE DEF Across, Up
<1>15. ASSUME NEW r \in Rects(p, cluster), NEW q \in Rects(p, cluster), In(c, r), In(c, q)
       PROVE  r = q
  <2>1. PICK s \in Across, t \in Up : r = Rect(s, t)
    BY <1>3
  <2>2. PICK u \in Across, v \in Up : q = Rect(u, v)
    BY <1>3
  <2>3. Holds(s, c[1]) /\ Holds(t, c[2])
    BY <1>1, <1>10, <1>11, <1>15, <2>1, RectHolds
  <2>4. Holds(u, c[1]) /\ Holds(v, c[2])
    BY <1>1, <1>10, <1>11, <1>15, <2>2, RectHolds
  <2> QED BY <1>12, <1>13, <2>1, <2>2, <2>3, <2>4
<1>16. ASSUME NEW r \in Rects(p, cluster) PROVE Rounded(r)
  <2>1. PICK s \in Across, t \in Up : r = Rect(s, t)
    BY <1>3
  <2> QED BY <1>10, <1>11, <2>1 DEF Rounded, Rect
<1> QED BY <1>14, <1>15, <1>16

(* What one more step from near reaches. *)
Grown(near, cells) == near \cup (cells \cap UNION { Sides(d) : d \in near })

(* The function within Component, on as many steps as are wanted. *)
Reaching(g, c, cells, k) ==
  g = [n \in 0 .. k |-> IF n = 0 THEN {c} ELSE Grown(g[n - 1], cells)]

LEMMA ReachingExists ==
  ASSUME NEW c, NEW cells, NEW k \in Nat
  PROVE  \E g : Reaching(g, c, cells, k)
<1> DEFINE Bad == { m \in Nat : ~ \E g : Reaching(g, c, cells, m) }
<1> SUFFICES ASSUME k \in Bad PROVE FALSE
  OBVIOUS
<1>1. PICK m \in Bad : \A j \in Bad : m <= j
  <2>1. Bad \in SUBSET Nat /\ Bad # {}
    OBVIOUS
  <2> HIDE DEF Bad
  <2> QED BY <2>1, LeastNatural
<1>2. m \in Nat /\ ~ \E g : Reaching(g, c, cells, m)
  BY <1>1
<1>3. CASE m = 0
  <2> DEFINE g == [n \in 0 .. 0 |-> {c}]
  <2>1. Reaching(g, c, cells, 0)
    BY DEF Reaching
  <2> QED BY <1>2, <1>3, <2>1
<1>4. CASE m # 0
  <2>1. m - 1 \in Nat /\ m - 1 \notin Bad
    BY <1>1, <1>4
  <2>2. PICK g : Reaching(g, c, cells, m - 1)
    BY <2>1
  <2> DEFINE h == [n \in 0 .. m |-> IF n = m THEN Grown(g[m - 1], cells) ELSE g[n]]
  <2>3. ASSUME NEW n \in 0 .. m
        PROVE  h[n] = IF n = 0 THEN {c} ELSE Grown(h[n - 1], cells)
    <3>1. CASE n = 0
      BY <1>2, <1>4, <2>1, <2>2, <3>1 DEF Reaching
    <3>2. CASE n # 0 /\ n # m
      <4>1. n \in 0 .. m - 1 /\ n - 1 \in 0 .. m - 1 /\ n - 1 # m /\ n - 1 \in 0 .. m
        BY <3>2, <2>1
      <4>2. g[n] = Grown(g[n - 1], cells)
        BY <2>2, <3>2, <4>1 DEF Reaching
      <4> QED BY <3>2, <4>1, <4>2
    <3>3. CASE n = m
      <4>1. n # 0 /\ n - 1 \in 0 .. m /\ n - 1 # m
        BY <1>2, <1>4, <3>3
      <4> QED BY <3>3, <4>1
    <3> QED BY <3>1, <3>2, <3>3
  <2>4. Reaching(h, c, cells, m)
    <3>1. h = [n \in 0 .. m |-> h[n]]
      OBVIOUS
    <3> HIDE DEF h
    <3> QED BY <2>3, <3>1 DEF Reaching
  <2> QED BY <1>2, <2>4
<1> QED BY <1>3, <1>4

(* What Component computes, step by step. *)
LEMMA ComponentIs ==
  ASSUME NEW c, NEW cells, Cardinality(cells) \in Nat
  PROVE  \E g : /\ Component(c, cells) = g[Cardinality(cells)]
                /\ g[0] = {c}
                /\ \A n \in 1 .. Cardinality(cells) : g[n] = Grown(g[n - 1], cells)
<1> DEFINE k == Cardinality(cells)
           g == CHOOSE r : Reaching(r, c, cells, k)
<1>1. Reaching(g, c, cells, k)
  BY ReachingExists
<1>2. Component(c, cells) = g[k]
  BY DEF Component, Reaching, Grown
<1> HIDE DEF g
<1>3. g[0] = {c} /\ \A n \in 1 .. k : g[n] = Grown(g[n - 1], cells)
  <2>1. g = [n \in 0 .. k |-> IF n = 0 THEN {c} ELSE Grown(g[n - 1], cells)]
    BY <1>1 DEF Reaching
  <2>2. 0 \in 0 .. k
    OBVIOUS
  <2>3. \A n \in 1 .. k : n \in 0 .. k /\ n # 0
    OBVIOUS
  <2> HIDE DEF k
  <2>4. g[0] = {c}
    BY <2>1, <2>2
  <2>5. ASSUME NEW n \in 1 .. k PROVE g[n] = Grown(g[n - 1], cells)
    BY <2>1, <2>3
  <2> QED BY <2>4, <2>5
<1> QED BY <1>2, <1>3

Closed(near, cells) == Grown(near, cells) = near

(* What hangs together with a square: itself, no square that is not there,  *)
(* nothing that can be reached is missing, and nothing that a set without    *)
(* a way out does not have.                                                 *)
LEMMA ComponentShape ==
  ASSUME NEW cells, IsFiniteSet(cells), NEW c \in cells
  PROVE  /\ c \in Component(c, cells)
         /\ Component(c, cells) \subseteq cells
         /\ Closed(Component(c, cells), cells)
         /\ \A T : c \in T /\ Closed(T, cells) => Component(c, cells) \subseteq T
<1> DEFINE k == Cardinality(cells)
<1>1. k \in Nat
  BY FS_CardinalityType
<1>2. PICK g : /\ Component(c, cells) = g[k]
               /\ g[0] = {c}
               /\ \A n \in 1 .. k : g[n] = Grown(g[n - 1], cells)
  BY <1>1, ComponentIs
<1> HIDE DEF k
<1> DEFINE Fine(n) == /\ c \in g[n] /\ g[n] \subseteq cells
                      /\ Closed(g[n], cells) \/ Cardinality(g[n]) > n
                      /\ \A T : c \in T /\ Closed(T, cells) => g[n] \subseteq T
           Bad == { n \in 0 .. k : ~Fine(n) }
<1>3. Fine(0)
  <2>1. Cardinality({c}) = 1
    BY FS_Singleton
  <2> QED BY <1>2, <2>1
<1>4. ASSUME NEW n \in 1 .. k, Fine(n - 1) PROVE Fine(n)
  <2>1. g[n] = Grown(g[n - 1], cells)
    BY <1>2
  <2>2. c \in g[n] /\ g[n] \subseteq cells /\ g[n - 1] \subseteq g[n]
    BY <1>4, <2>1 DEF Grown
  <2>3. Closed(g[n], cells) \/ Cardinality(g[n]) > n
    <3>1. CASE g[n] = g[n - 1]
      BY <2>1, <3>1 DEF Closed
    <3>2. CASE g[n] # g[n - 1]
      <4>1. Cardinality(g[n - 1]) > n - 1
        BY <1>4, <2>1, <3>2 DEF Closed
      <4>2. IsFiniteSet(g[n]) /\ IsFiniteSet(g[n - 1])
        BY <2>2, <1>4, FS_Subset
      <4>3. Cardinality(g[n]) \in Nat /\ Cardinality(g[n - 1]) \in Nat
        BY <4>2, FS_CardinalityType
      <4>4. g[n - 1] \in SUBSET g[n]
        BY <2>2
      <4>5. Cardinality(g[n - 1]) <= Cardinality(g[n]) /\ Cardinality(g[n - 1]) # Cardinality(g[n])
        BY <3>2, <4>2, <4>4, FS_Subset
      <4> QED BY <1>1, <4>1, <4>3, <4>5
    <3> QED BY <3>1, <3>2
  <2>4. ASSUME NEW T, c \in T, Closed(T, cells) PROVE g[n] \subseteq T
    <3>1. g[n - 1] \subseteq T
      BY <1>4, <2>4
    <3> QED BY <2>1, <2>4, <3>1 DEF Closed, Grown
  <2> QED BY <2>2, <2>3, <2>4
<1> HIDE DEF Fine
<1>5. Bad = {}
  <2> SUFFICES ASSUME Bad # {} PROVE FALSE
    OBVIOUS
  <2>1. Bad \in SUBSET Nat
    OBVIOUS
  <2>2. PICK n \in Bad : \A m \in Bad : n <= m
    <3> HIDE DEF Bad
    <3> QED BY <2>1, LeastNatural
  <2>3. n \in 0 .. k /\ ~Fine(n)
    BY <2>2
  <2>4. n # 0
    BY <1>3, <2>3
  <2>5. n \in 1 .. k /\ n - 1 \in 0 .. k /\ ~(n <= n - 1)
    BY <1>1, <2>3, <2>4
  <2>6. Fine(n - 1)
    BY <2>2, <2>5
  <2> QED BY <1>4, <2>3, <2>5, <2>6
<1>6. Fine(k)
  <2>1. k \in 0 .. k
    BY <1>1
  <2> QED BY <1>5, <2>1
<1>7. c \in g[k] /\ g[k] \subseteq cells /\ \A T : c \in T /\ Closed(T, cells) => g[k] \subseteq T
  BY <1>6 DEF Fine
<1>8. Closed(g[k], cells)
  <2>1. Closed(g[k], cells) \/ Cardinality(g[k]) > k
    BY <1>6 DEF Fine
  <2>2. g[k] \in SUBSET cells
    BY <1>7
  <2>3. Cardinality(g[k]) <= k
    BY <2>2, FS_Subset DEF k
  <2>4. Cardinality(g[k]) \in Nat
    BY <2>2, FS_Subset, FS_CardinalityType
  <2> QED BY <1>1, <2>1, <2>3, <2>4
<1> QED BY <1>2, <1>7, <1>8

LEMMA SidesAreMutual ==
  ASSUME NEW c \in Nat \X Nat, NEW d \in Nat \X Nat, d \in Sides(c)
  PROVE  c \in Sides(d)
<1>1. c[1] \in Nat /\ c[2] \in Nat /\ d[1] \in Nat /\ d[2] \in Nat
  OBVIOUS
<1>2. c = <<c[1], c[2]>> /\ d = <<d[1], d[2]>>
  OBVIOUS
<1>3. \/ d[1] = c[1] - 1 /\ d[2] = c[2]
      \/ d[1] = c[1] + 1 /\ d[2] = c[2]
      \/ d[1] = c[1] /\ d[2] = c[2] - 1
      \/ d[1] = c[1] /\ d[2] = c[2] + 1
  BY DEF Sides
<1>4. \/ c[1] = d[1] + 1 /\ c[2] = d[2]
      \/ c[1] = d[1] - 1 /\ c[2] = d[2]
      \/ c[1] = d[1] /\ c[2] = d[2] + 1
      \/ c[1] = d[1] /\ c[2] = d[2] - 1
  BY <1>1, <1>3
<1> QED BY <1>2, <1>4 DEF Sides

(* The polygons an intersection consists of share no square. *)
LEMMA SameComponent ==
  ASSUME NEW cells, IsPolygon(cells), NEW c \in cells, NEW e \in Component(c, cells)
  PROVE  Component(e, cells) = Component(c, cells)
<1> DEFINE C == Component(c, cells)
           E == Component(e, cells)
<1>1. c \in C /\ C \subseteq cells /\ Closed(C, cells)
  BY ComponentShape DEF IsPolygon
<1>2. \A T : c \in T /\ Closed(T, cells) => C \subseteq T
  BY ComponentShape DEF IsPolygon
<1>3. e \in cells
  BY <1>1
<1>4. e \in E /\ E \subseteq cells /\ Closed(E, cells)
  BY <1>3, ComponentShape DEF IsPolygon
<1>5. \A T : e \in T /\ Closed(T, cells) => E \subseteq T
  BY <1>3, ComponentShape DEF IsPolygon
<1> HIDE DEF C, E
<1>6. E \subseteq C
  <2>1. e \in C
    BY DEF C
  <2> QED BY <1>1, <1>5, <2>1
<1>7. c \in E
  <2> SUFFICES ASSUME c \notin E PROVE FALSE
    OBVIOUS
  <2>1. Closed(cells \ E, cells)
    <3> SUFFICES ASSUME NEW d \in cells \ E, NEW x \in cells \cap Sides(d) PROVE x \notin E
      BY DEF Closed, Grown
    <3>1. d \in Sides(x)
      BY SidesAreMutual DEF IsPolygon
    <3> QED BY <1>4, <3>1 DEF Closed, Grown
  <2>2. C \subseteq cells \ E
    BY <1>2, <2>1
  <2> QED BY <1>4, <2>2 DEF C
<1> QED BY <1>2, <1>4, <1>6, <1>7 DEF C, E

LEMMA PolygonsShape ==
  ASSUME NEW cells, IsPolygon(cells)
  PROVE  /\ \A q \in Polygons(cells) : q \subseteq cells
         /\ \A c \in cells : \E q \in Polygons(cells) : c \in q
         /\ \A q, r \in Polygons(cells) : q # r => q \cap r = {}
         /\ \A q \in Polygons(cells) : \A d \in q : cells \cap Sides(d) \subseteq q
<1>1. \A c \in cells : c \in Component(c, cells) /\ Component(c, cells) \subseteq cells
  BY ComponentShape DEF IsPolygon
<1>2. ASSUME NEW q \in Polygons(cells), NEW r \in Polygons(cells), NEW e \in q \cap r PROVE q = r
  <2>1. PICK c \in cells : q = Component(c, cells)
    BY DEF Polygons
  <2>2. PICK d \in cells : r = Component(d, cells)
    BY DEF Polygons
  <2>3. q = Component(e, cells)
    BY <1>2, <2>1, SameComponent
  <2>4. r = Component(e, cells)
    BY <1>2, <2>2, SameComponent
  <2> QED BY <2>3, <2>4
<1>3. \A q \in Polygons(cells) : q \subseteq cells
  BY <1>1 DEF Polygons
<1>4. \A c \in cells : \E q \in Polygons(cells) : c \in q
  BY <1>1 DEF Polygons
<1>5. \A c \in cells : Closed(Component(c, cells), cells)
  BY ComponentShape DEF IsPolygon
<1>6. ASSUME NEW q \in Polygons(cells), NEW d \in q PROVE cells \cap Sides(d) \subseteq q
  <2>1. PICK c \in cells : q = Component(c, cells)
    BY DEF Polygons
  <2>2. Grown(q, cells) = q
    BY <1>5, <2>1 DEF Closed
  <2> QED BY <2>2 DEF Grown
<1> QED BY <1>2, <1>3, <1>4, <1>6

(* A piece of a line, cut at multiples, is not cut off by more than the line. *)
LEMMA LineInherits ==
  ASSUME NEW whole \in SUBSET Nat, NEW line \in SUBSET whole, NEW from \in Nat, NEW to \in Nat,
         Multiple(from), Multiple(to),
         \A k \in line : k - 1 \in whole => k - 1 \in line \/ k = from,
         \A k \in line : k + 1 \in whole => k + 1 \in line \/ k + 1 = to,
         NEW x \in Nat, OutsideRounded(line, x)
  PROVE  OutsideRounded(whole, x)
<1>1. CASE \E k \in line : k - 1 \notin line /\ k <= x /\ x < round(k, 1)
  <2>1. PICK k \in line : k - 1 \notin line /\ k <= x /\ x < round(k, 1)
    BY <1>1
  <2>2. ASSUME k - 1 \in whole PROVE FALSE
    <3>1. k = from
      BY <2>1, <2>2
    <3>2. round(k, 1) = k
      BY <3>1, RoundOfMultiple
    <3> QED BY <2>1, <3>1, <3>2
  <2> QED BY <2>1, <2>2 DEF OutsideRounded
<1>2. CASE \E k \in line : k + 1 \notin line /\ x <= k /\ round(k + 1, 1) <= x
  <2>1. PICK k \in line : k + 1 \notin line /\ x <= k /\ round(k + 1, 1) <= x
    BY <1>2
  <2>2. ASSUME k + 1 \in whole PROVE FALSE
    <3>1. k + 1 = to
      BY <2>1, <2>2
    <3>2. round(k + 1, 1) = k + 1
      BY <3>1, RoundOfMultiple
    <3>3. k \in Nat
      OBVIOUS
    <3> QED BY <2>1, <3>2, <3>3
  <2> QED BY <2>1, <2>2 DEF OutsideRounded
<1> QED BY <1>1, <1>2 DEF OutsideRounded

PartIn(p, r) == { c \in p : In(c, r) }

(* A sliver of a piece is one of the polygon it is cut out of.               *)
LEMMA PieceInherits ==
  ASSUME NEW p, IsPolygon(p), NEW r, Rounded(r), NEW q \in Polygons(PartIn(p, r)),
         NEW c, Sliver(c, q)
  PROVE  Sliver(c, p)
<1>1. IsPolygon(PartIn(p, r))
  BY FS_Subset DEF IsPolygon, PartIn
<1>2. q \subseteq PartIn(p, r) /\ \A d \in q : PartIn(p, r) \cap Sides(d) \subseteq q
  BY <1>1, PolygonsShape
<1>3. q \subseteq p /\ IsPolygon(q) /\ c \in q /\ c \in p
  BY <1>1, <1>2, FS_Subset DEF IsPolygon, PartIn, Sliver
<1>4. c = <<c[1], c[2]>> /\ c[1] \in Nat /\ c[2] \in Nat
  BY <1>3 DEF IsPolygon
<1>5. r.x0 \in Nat /\ r.x1 \in Nat /\ r.y0 \in Nat /\ r.y1 \in Nat
  BY DEF Rounded
<1>6. /\ Row(p, c) \in SUBSET Nat /\ Column(p, c) \in SUBSET Nat
      /\ \A x \in Nat : x \in Row(p, c) <=> <<x, c[2]>> \in p
      /\ \A y \in Nat : y \in Column(p, c) <=> <<c[1], y>> \in p
  BY <1>3, LinesShape
<1>7. /\ Row(q, c) \in SUBSET Nat /\ Column(q, c) \in SUBSET Nat
      /\ \A x \in Nat : x \in Row(q, c) <=> <<x, c[2]>> \in q
      /\ \A y \in Nat : y \in Column(q, c) <=> <<c[1], y>> \in q
  BY <1>3, LinesShape
<1>8. Row(q, c) \in SUBSET Row(p, c) /\ Column(q, c) \in SUBSET Column(p, c)
  BY <1>3, <1>6, <1>7
<1>9. ASSUME NEW d \in q, NEW e \in p, e \in Sides(d), e \notin q PROVE In(d, r) /\ ~In(e, r)
  BY <1>2, <1>9 DEF PartIn
<1>10. CASE OutsideRounded(Row(q, c), c[1])
  <2>1. ASSUME NEW k \in Row(q, c), k - 1 \in Row(p, c) PROVE k - 1 \in Row(q, c) \/ k = r.x0
    <3> SUFFICES ASSUME k - 1 \notin Row(q, c) PROVE k = r.x0
      OBVIOUS
    <3>1. k \in Nat /\ k - 1 \in Nat
      BY <1>6, <1>7, <2>1
    <3>2. <<k, c[2]>> \in q /\ <<k - 1, c[2]>> \in p /\ <<k - 1, c[2]>> \notin q
      BY <1>6, <1>7, <2>1, <3>1
    <3>3. <<k - 1, c[2]>> \in Sides(<<k, c[2]>>)
      BY DEF Sides
    <3>4. In(<<k, c[2]>>, r) /\ ~In(<<k - 1, c[2]>>, r)
      BY <1>9, <3>2, <3>3
    <3> QED BY <1>4, <1>5, <3>1, <3>4 DEF In
  <2>2. ASSUME NEW k \in Row(q, c), k + 1 \in Row(p, c) PROVE k + 1 \in Row(q, c) \/ k + 1 = r.x1
    <3> SUFFICES ASSUME k + 1 \notin Row(q, c) PROVE k + 1 = r.x1
      OBVIOUS
    <3>1. k \in Nat /\ k + 1 \in Nat
      BY <1>7
    <3>2. <<k, c[2]>> \in q /\ <<k + 1, c[2]>> \in p /\ <<k + 1, c[2]>> \notin q
      BY <1>6, <1>7, <2>2, <3>1
    <3>3. <<k + 1, c[2]>> \in Sides(<<k, c[2]>>)
      BY DEF Sides
    <3>4. In(<<k, c[2]>>, r) /\ ~In(<<k + 1, c[2]>>, r)
      BY <1>9, <3>2, <3>3
    <3> QED BY <1>4, <1>5, <3>1, <3>4 DEF In
  <2>3. OutsideRounded(Row(p, c), c[1])
    BY <1>4, <1>5, <1>6, <1>8, <1>10, <2>1, <2>2, LineInherits DEF Rounded
  <2> QED BY <1>3, <2>3 DEF Sliver
<1>11. CASE OutsideRounded(Column(q, c), c[2])
  <2>1. ASSUME NEW k \in Column(q, c), k - 1 \in Column(p, c) PROVE k - 1 \in Column(q, c) \/ k = r.y0
    <3> SUFFICES ASSUME k - 1 \notin Column(q, c) PROVE k = r.y0
      OBVIOUS
    <3>1. k \in Nat /\ k - 1 \in Nat
      BY <1>6, <1>7, <2>1
    <3>2. <<c[1], k>> \in q /\ <<c[1], k - 1>> \in p /\ <<c[1], k - 1>> \notin q
      BY <1>6, <1>7, <2>1, <3>1
    <3>3. <<c[1], k - 1>> \in Sides(<<c[1], k>>)
      BY DEF Sides
    <3>4. In(<<c[1], k>>, r) /\ ~In(<<c[1], k - 1>>, r)
      BY <1>9, <3>2, <3>3
    <3> QED BY <1>4, <1>5, <3>1, <3>4 DEF In
  <2>2. ASSUME NEW k \in Column(q, c), k + 1 \in Column(p, c) PROVE k + 1 \in Column(q, c) \/ k + 1 = r.y1
    <3> SUFFICES ASSUME k + 1 \notin Column(q, c) PROVE k + 1 = r.y1
      OBVIOUS
    <3>1. k \in Nat /\ k + 1 \in Nat
      BY <1>7
    <3>2. <<c[1], k>> \in q /\ <<c[1], k + 1>> \in p /\ <<c[1], k + 1>> \notin q
      BY <1>6, <1>7, <2>2, <3>1
    <3>3. <<c[1], k + 1>> \in Sides(<<c[1], k>>)
      BY DEF Sides
    <3>4. In(<<c[1], k>>, r) /\ ~In(<<c[1], k + 1>>, r)
      BY <1>9, <3>2, <3>3
    <3> QED BY <1>4, <1>5, <3>1, <3>4 DEF In
  <2>3. OutsideRounded(Column(p, c), c[2])
    BY <1>4, <1>5, <1>6, <1>8, <1>11, <2>1, <2>2, LineInherits DEF Rounded
  <2> QED BY <1>3, <2>3 DEF Sliver
<1> QED BY <1>10, <1>11 DEF Sliver

(* The pieces of a polygon do not overlap, are of it, and cover it all but   *)
(* for what lies in a lost rectangle and for slivers; and a sliver of a     *)
(* piece is one of the polygon.                                             *)
Tiles(pieces, p, lost) ==
  /\ \A x, y \in pieces : x # y => x \cap y = {}
  /\ \A x \in pieces : x \subseteq p
  /\ \A x \in pieces : \A c : Sliver(c, x) => Sliver(c, p)
  /\ \A c \in p : (\E x \in pieces : c \in x) \/ (\E l \in lost : In(c, l)) \/ Sliver(c, p)

LEMMA CutTiles ==
  ASSUME NEW p, IsPolygon(p), NEW cluster \in Nat \ {0}, NEW lost
  PROVE  Tiles(Cut(p, cluster, lost), p, lost)
<1> DEFINE Inner(r) == { c \in p : In(c, r) }
<1>1. \A r : Inner(r) \subseteq p /\ IsPolygon(Inner(r))
  <2> SUFFICES ASSUME NEW r PROVE IsPolygon(Inner(r))
    OBVIOUS
  <2>1. Inner(r) \in SUBSET p
    OBVIOUS
  <2> HIDE DEF Inner
  <2> QED BY <2>1, FS_Subset DEF IsPolygon
<1>2. \A x : x \in Cut(p, cluster, lost) <=>
               \E r \in Rects(p, cluster) \ lost : x \in Polygons(Inner(r))
  BY DEF Cut
<1>3. ASSUME NEW x \in Cut(p, cluster, lost) PROVE x \subseteq p
  <2>1. PICK r \in Rects(p, cluster) \ lost : x \in Polygons(Inner(r))
    BY <1>2
  <2>2. x \subseteq Inner(r)
    <3> HIDE DEF Inner
    <3> QED BY <1>1, <2>1, PolygonsShape
  <2> QED BY <2>2
<1>4. ASSUME NEW x \in Cut(p, cluster, lost), NEW y \in Cut(p, cluster, lost), NEW c \in x \cap y
      PROVE  x = y
  <2>1. PICK r \in Rects(p, cluster) \ lost : x \in Polygons(Inner(r))
    BY <1>2
  <2>2. PICK q \in Rects(p, cluster) \ lost : y \in Polygons(Inner(q))
    BY <1>2
  <2>3. x \subseteq Inner(r) /\ y \subseteq Inner(q)
    <3> HIDE DEF Inner
    <3> QED BY <1>1, <2>1, <2>2, PolygonsShape
  <2>4. c \in p /\ In(c, r) /\ In(c, q)
    BY <2>3
  <2>5. r = q
    BY <2>4, RectsTile
  <2> HIDE DEF Inner
  <2> QED BY <1>1, <1>4, <2>1, <2>2, <2>5, PolygonsShape
<1>5. ASSUME NEW c \in p
      PROVE  (\E x \in Cut(p, cluster, lost) : c \in x) \/ (\E l \in lost : In(c, l)) \/ Sliver(c, p)
  <2> SUFFICES ASSUME ~Sliver(c, p)
               PROVE  (\E x \in Cut(p, cluster, lost) : c \in x) \/ (\E l \in lost : In(c, l))
    OBVIOUS
  <2>1. PICK r \in Rects(p, cluster) : In(c, r)
    BY RectsTile
  <2>2. CASE r \in lost
    BY <2>1, <2>2
  <2>3. CASE r \notin lost
    <3>1. c \in Inner(r)
      BY <2>1
    <3>2. PICK x \in Polygons(Inner(r)) : c \in x
      <4> HIDE DEF Inner
      <4> QED BY <1>1, <3>1, PolygonsShape
    <3>3. x \in Cut(p, cluster, lost)
      BY <1>2, <2>3, <3>2
    <3> QED BY <3>2, <3>3
  <2> QED BY <2>2, <2>3
<1>6. ASSUME NEW x \in Cut(p, cluster, lost), NEW c, Sliver(c, x) PROVE Sliver(c, p)
  <2>1. PICK r \in Rects(p, cluster) \ lost : x \in Polygons(Inner(r))
    BY <1>2
  <2>2. c \in p
    BY <1>3, <1>6 DEF Sliver
  <2>3. Rounded(r)
    BY <2>1, <2>2, RectsTile
  <2>4. x \in Polygons(PartIn(p, r))
    BY <2>1 DEF PartIn
  <2> QED BY <1>6, <2>3, <2>4, PieceInherits
<1> QED BY <1>3, <1>4, <1>5, <1>6 DEF Tiles

(* Cutting the pieces again keeps that. *)
LEMMA TilesOfTiles ==
  ASSUME NEW pieces, NEW p, NEW lost, Tiles(pieces, p, lost), NEW f,
         \A x \in pieces : Tiles(f[x], x, lost)
  PROVE  Tiles(UNION { f[x] : x \in pieces }, p, lost)
<1> DEFINE all == UNION { f[x] : x \in pieces }
<1>1. \A y : y \in all <=> \E x \in pieces : y \in f[x]
  OBVIOUS
<1> HIDE DEF all
<1>2. ASSUME NEW y \in all PROVE y \subseteq p
  <2>1. PICK x \in pieces : y \in f[x]
    BY <1>1
  <2> QED BY <2>1 DEF Tiles
<1>3. ASSUME NEW y \in all, NEW z \in all, NEW c \in y \cap z PROVE y = z
  <2>1. PICK x \in pieces : y \in f[x]
    BY <1>1
  <2>2. PICK w \in pieces : z \in f[w]
    BY <1>1
  <2>3. c \in x /\ c \in w
    BY <1>3, <2>1, <2>2 DEF Tiles
  <2>4. x = w
    BY <2>3 DEF Tiles
  <2> QED BY <1>3, <2>1, <2>2, <2>4 DEF Tiles
<1>4. ASSUME NEW c \in p
      PROVE  (\E y \in all : c \in y) \/ (\E l \in lost : In(c, l)) \/ Sliver(c, p)
  <2> SUFFICES ASSUME ~ (\E l \in lost : In(c, l)), ~Sliver(c, p) PROVE \E y \in all : c \in y
    OBVIOUS
  <2>1. PICK x \in pieces : c \in x
    BY DEF Tiles
  <2>2. ~Sliver(c, x)
    BY DEF Tiles
  <2>3. PICK y \in f[x] : c \in y
    BY <2>1, <2>2 DEF Tiles
  <2> QED BY <1>1, <2>3
<1>5. ASSUME NEW y \in all, NEW c, Sliver(c, y) PROVE Sliver(c, p)
  <2>1. PICK x \in pieces : y \in f[x]
    BY <1>1
  <2>2. Sliver(c, x)
    BY <1>5, <2>1 DEF Tiles
  <2> QED BY <2>2 DEF Tiles
<1> QED BY <1>2, <1>3, <1>4, <1>5 DEF Tiles, all

LEMMA WholeTiles ==
  ASSUME NEW p, NEW lost
  PROVE  Tiles({p}, p, lost)
BY DEF Tiles

(* The recursion within splitPolygon at one polygon and depth, where g tells *)
(* the pieces of the next depth.                                            *)
Recur(g, q, depth, lc, lost) ==
  IF getCoordCount(q) < Few \/ depth >= lc.maxDepth THEN {q}
  ELSE UNION { g[depth + 1][r] : r \in Cut(q, lc.clusterSize, lost) }

(* The function within splitPolygon. *)
Splits(g, p, lc, lost) ==
  g = [depth \in Nat |-> [q \in SUBSET p |-> Recur(g, q, depth, lc, lost)]]

LEMMA CutStaysWithin ==
  ASSUME NEW p, IsPolygon(p), NEW cluster \in Nat \ {0}, NEW lost, NEW q \in SUBSET p
  PROVE  IsPolygon(q) /\ Cut(q, cluster, lost) \subseteq SUBSET p
<1>1. IsPolygon(q)
  BY FS_Subset DEF IsPolygon
<1>2. \A x \in Cut(q, cluster, lost) : x \subseteq q
  BY <1>1, CutTiles DEF Tiles
<1> QED BY <1>1, <1>2

(* It exists, as the recursion ends at the greatest depth: first a function  *)
(* that is right from there on, then one that is right a depth earlier.      *)
LEMMA SplitsExists ==
  ASSUME NEW p, IsPolygon(p), NEW lc, lc.maxDepth \in Int, lc.clusterSize \in Nat \ {0}, NEW lost
  PROVE  \E g : Splits(g, p, lc, lost)
<1> DEFINE M == lc.maxDepth
           Right(g, k) ==
             /\ g = [depth \in Nat |-> [q \in SUBSET p |-> g[depth][q]]]
             /\ \A depth \in Nat, q \in SUBSET p :
                  depth >= M - k => g[depth][q] = Recur(g, q, depth, lc, lost)
           Bad == { k \in Nat : ~ \E g : Right(g, k) }
<1>1. \E g : Right(g, 0)
  <2> DEFINE g == [depth \in Nat |-> [q \in SUBSET p |-> {q}]]
  <2>1. Right(g, 0)
    BY DEF Recur
  <2> QED BY <2>1
<1>2. ASSUME NEW k \in Nat, NEW g, Right(g, k) PROVE \E h : Right(h, k + 1)
  <2> DEFINE h == [depth \in Nat |-> [q \in SUBSET p |->
                     IF depth >= M - k THEN g[depth][q] ELSE Recur(g, q, depth, lc, lost)]]
  <2>1. h = [depth \in Nat |-> [q \in SUBSET p |-> h[depth][q]]]
    OBVIOUS
  <2>2. ASSUME NEW depth \in Nat, NEW q \in SUBSET p, depth >= M - (k + 1)
        PROVE  h[depth][q] = Recur(h, q, depth, lc, lost)
    <3>1. \A r \in Cut(q, lc.clusterSize, lost) : h[depth + 1][r] = g[depth + 1][r]
      <4>1. \A r \in Cut(q, lc.clusterSize, lost) : r \in SUBSET p
        BY CutStaysWithin
      <4>2. depth + 1 \in Nat /\ depth + 1 >= M - k
        BY <2>2
      <4> QED BY <4>1, <4>2
    <3>2. Recur(h, q, depth, lc, lost) = Recur(g, q, depth, lc, lost)
      <4> HIDE DEF h
      <4> QED BY <3>1 DEF Recur
    <3>3. h[depth][q] = IF depth >= M - k THEN g[depth][q] ELSE Recur(g, q, depth, lc, lost)
      OBVIOUS
    <3>4. CASE depth >= M - k
      <4>1. g[depth][q] = Recur(g, q, depth, lc, lost)
        BY <1>2, <3>4
      <4> QED BY <3>2, <3>3, <3>4, <4>1
    <3>5. CASE ~(depth >= M - k)
      BY <3>2, <3>3, <3>5
    <3> QED BY <3>4, <3>5
  <2> HIDE DEF h
  <2>3. Right(h, k + 1)
    BY <2>1, <2>2
  <2> QED BY <2>3
<1> HIDE DEF Right
<1>3. Bad = {}
  <2> SUFFICES ASSUME Bad # {} PROVE FALSE
    OBVIOUS
  <2>1. Bad \in SUBSET Nat
    OBVIOUS
  <2>2. PICK k \in Bad : \A m \in Bad : k <= m
    <3> HIDE DEF Bad
    <3> QED BY <2>1, LeastNatural
  <2>3. k \in Nat /\ k # 0
    BY <1>1, <2>2
  <2>4. k - 1 \in Nat /\ ~(k <= k - 1) /\ (k - 1) + 1 = k
    BY <2>3
  <2>5. PICK g : Right(g, k - 1)
    BY <2>2, <2>4
  <2>6. \E h : Right(h, (k - 1) + 1)
    BY <1>2, <2>4, <2>5
  <2> QED BY <2>2, <2>4, <2>6
<1>4. PICK k \in Nat : \A depth \in Nat : depth >= M - k
  <2>1. CASE M \in Nat
    BY <2>1
  <2>2. CASE M \notin Nat
    <3>1. \A depth \in Nat : depth >= M - 0
      BY <2>2
    <3> QED BY <3>1
  <2> QED BY <2>1, <2>2
<1>5. PICK g : Right(g, k)
  BY <1>3
<1>6. /\ g = [depth \in Nat |-> [q \in SUBSET p |-> g[depth][q]]]
      /\ \A depth \in Nat, q \in SUBSET p : g[depth][q] = Recur(g, q, depth, lc, lost)
  BY <1>4, <1>5 DEF Right
<1>7. Splits(g, p, lc, lost)
  BY <1>6 DEF Splits
<1> QED BY <1>7

LEMMA SplitPolygonIs ==
  ASSUME NEW p, IsPolygon(p), NEW lc, lc.maxDepth \in Int, lc.clusterSize \in Nat \ {0}, NEW lost
  PROVE  \E g : Splits(g, p, lc, lost) /\ splitPolygon(p, lc, lost) = g[0][p]
<1> DEFINE g == CHOOSE h : Splits(h, p, lc, lost)
<1>1. Splits(g, p, lc, lost)
  BY SplitsExists
<1>2. splitPolygon(p, lc, lost) = g[0][p]
  BY DEF splitPolygon, Splits, Recur
<1> QED BY <1>1, <1>2

(* However deep it is split, the pieces of a polygon are as those of a cut.  *)
LEMMA SplitPolygonTiles ==
  ASSUME NEW p, IsPolygon(p), NEW lc, lc.maxDepth \in Int, lc.clusterSize \in Nat \ {0}, NEW lost
  PROVE  Tiles(splitPolygon(p, lc, lost), p, lost)
<1> DEFINE M == lc.maxDepth
<1>1. PICK g : Splits(g, p, lc, lost) /\ splitPolygon(p, lc, lost) = g[0][p]
  BY SplitPolygonIs
<1> DEFINE Good(depth) == \A q \in SUBSET p : Tiles(g[depth][q], q, lost)
           Bad == { depth \in Nat : ~Good(depth) }
<1>2. \A depth \in Nat, q \in SUBSET p : g[depth][q] = Recur(g, q, depth, lc, lost)
  BY <1>1 DEF Splits
<1>3. ASSUME NEW depth \in Nat, depth >= M \/ Good(depth + 1) PROVE Good(depth)
  <2> SUFFICES ASSUME NEW q \in SUBSET p PROVE Tiles(g[depth][q], q, lost)
    OBVIOUS
  <2>1. CASE getCoordCount(q) < Few \/ depth >= M
    <3>1. g[depth][q] = {q}
      BY <1>2, <2>1 DEF Recur
    <3> QED BY <3>1, WholeTiles
  <2>2. CASE ~(getCoordCount(q) < Few \/ depth >= M)
    <3> DEFINE f == g[depth + 1]
               pieces == Cut(q, lc.clusterSize, lost)
    <3>1. g[depth][q] = UNION { f[r] : r \in pieces }
      BY <1>2, <2>2 DEF Recur
    <3>2. IsPolygon(q) /\ pieces \subseteq SUBSET p
      BY CutStaysWithin
    <3>3. Tiles(pieces, q, lost)
      BY <3>2, CutTiles
    <3>4. \A r \in pieces : Tiles(f[r], r, lost)
      BY <1>3, <2>2, <3>2
    <3> HIDE DEF f, pieces
    <3>5. Tiles(UNION { f[r] : r \in pieces }, q, lost)
      BY <3>3, <3>4, TilesOfTiles
    <3> QED BY <3>1, <3>5
  <2> QED BY <2>1, <2>2
<1> HIDE DEF Good
<1>4. Bad = {}
  <2> SUFFICES ASSUME Bad # {} PROVE FALSE
    OBVIOUS
  <2>1. \A depth \in Bad : depth \in Nat /\ depth < M
    BY <1>3
  <2>2. M \in Nat
    BY <2>1
  <2>3. Bad \in SUBSET (0 .. M)
    BY <2>1, <2>2
  <2>4. IsFiniteSet(Bad) /\ Bad \in SUBSET Int
    <3>1. IsFiniteSet(0 .. M)
      BY <2>2, FS_Interval
    <3>2. Bad \in SUBSET Int
      OBVIOUS
    <3> HIDE DEF Bad
    <3>3. IsFiniteSet(Bad)
      BY <2>3, <3>1, FS_Subset
    <3> QED BY <3>2, <3>3
  <2>5. PICK depth \in Bad : \A e \in Bad : depth >= e
    <3> HIDE DEF Bad
    <3> QED BY <2>4, Greatest
  <2>6. depth \in Nat /\ depth + 1 \in Nat /\ ~(depth >= depth + 1)
    BY <2>1
  <2>7. Good(depth + 1)
    BY <2>5, <2>6
  <2> QED BY <1>3, <2>6, <2>7
<1>5. Good(0)
  BY <1>4
<1> QED BY <1>1, <1>5 DEF Good

(* For any features, depth, cluster size, rounding and dropped rectangles,   *)
(* the pieces of polygons that do not overlap are a partition of what is     *)
(* kept: all but slivers along the outline, which the rounding of a box's    *)
(* own edges costs, at whatever depth it happens (split.go:24-58, 109-172). *)
THEOREM PiecesPartition ==
  ASSUME NEW features, \A f \in features : \A p \in f.parts : IsPolygon(p), NoOverlap(features),
         NEW depth \in Int, NEW cluster \in Nat \ {0}, NEW lost
  PROVE  PiecesAreAPartition(features, depth, cluster, lost)
<1> DEFINE lc(f) == IF f.type = "Polygon" THEN Context(depth, cluster) ELSE Context(3, 3)
           r == Split(features, depth, cluster, lost)
           polygons == UNION { f.parts : f \in features }
           area == UNION polygons
<1> SUFFICES ASSUME "pieces" \in DOMAIN r
             PROVE  /\ \A x, y \in r.pieces : x # y => x \cap y = {}
                    /\ UNION r.pieces \subseteq area
                    /\ \A c \in area \ UNION r.pieces :
                         (\E l \in lost : In(c, l)) \/ (\E p \in polygons : Sliver(c, p))
  BY DEF PiecesAreAPartition
<1>1. \A x : x \in r.pieces <=> \E f \in features : \E p \in f.parts :
                                  x \in splitPolygon(p, lc(f), lost)
  <2>1. CASE \E f \in features : f.type \notin {"Polygon", "MultiPolygon"}
    <3> DEFINE invalid == \E f \in features : f.type \notin {"Polygon", "MultiPolygon"}
               pieces == UNION { UNION { splitPolygon(p, lc(f), lost) : p \in f.parts } : f \in features }
    <3>1. r = IF invalid THEN [error |-> "invalid type"] ELSE [pieces |-> pieces]
      BY Zenon DEF Split
    <3>2. "pieces" \notin DOMAIN [error |-> "invalid type"]
      OBVIOUS
    <3>3. invalid
      BY <2>1
    <3> HIDE DEF r, lc, invalid, pieces
    <3>4. r = [error |-> "invalid type"]
      BY <3>1, <3>3, Zenon
    <3>5. "pieces" \notin DOMAIN r
      BY <3>2, <3>4, Zenon
    <3> QED BY <3>5
  <2>2. CASE ~ \E f \in features : f.type \notin {"Polygon", "MultiPolygon"}
    BY <2>2 DEF Split
  <2> QED BY <2>1, <2>2
<1>2. ASSUME NEW f \in features, NEW p \in f.parts
      PROVE  Tiles(splitPolygon(p, lc(f), lost), p, lost)
  <2>1. IsPolygon(p)
    BY <1>2
  <2>2. lc(f).maxDepth \in Int /\ lc(f).clusterSize \in Nat \ {0}
    BY DEF Context
  <2> HIDE DEF lc
  <2> QED BY <2>1, <2>2, SplitPolygonTiles
<1> HIDE DEF r, lc
<1>3. ASSUME NEW x \in r.pieces, NEW y \in r.pieces, NEW c \in x \cap y PROVE x = y
  <2>1. PICK f \in features : \E p \in f.parts : x \in splitPolygon(p, lc(f), lost)
    BY <1>1
  <2>2. PICK p \in f.parts : x \in splitPolygon(p, lc(f), lost)
    BY <2>1
  <2>3. PICK g \in features : \E q \in g.parts : y \in splitPolygon(q, lc(g), lost)
    BY <1>1
  <2>4. PICK q \in g.parts : y \in splitPolygon(q, lc(g), lost)
    BY <2>3
  <2>5. Tiles(splitPolygon(p, lc(f), lost), p, lost) /\ Tiles(splitPolygon(q, lc(g), lost), q, lost)
    BY <1>2
  <2>6. c \in p /\ c \in q
    BY <1>3, <2>2, <2>4, <2>5 DEF Tiles
  <2>7. <<f, p>> = <<g, q>>
    BY <2>6 DEF NoOverlap
  <2>8. f = g /\ p = q
    BY <2>7
  <2> QED BY <1>3, <2>2, <2>4, <2>5, <2>8 DEF Tiles
<1>4. ASSUME NEW x \in r.pieces PROVE x \subseteq area
  <2>1. PICK f \in features : \E p \in f.parts : x \in splitPolygon(p, lc(f), lost)
    BY <1>1
  <2>2. PICK p \in f.parts : x \in splitPolygon(p, lc(f), lost)
    BY <2>1
  <2>3. x \subseteq p
    BY <1>2, <2>2 DEF Tiles
  <2> QED BY <2>3
<1>5. ASSUME NEW c \in area \ UNION r.pieces
      PROVE  (\E l \in lost : In(c, l)) \/ (\E p \in polygons : Sliver(c, p))
  <2>1. PICK f \in features : \E p \in f.parts : c \in p
    OBVIOUS
  <2>2. PICK p \in f.parts : c \in p
    BY <2>1
  <2>3. (\E x \in splitPolygon(p, lc(f), lost) : c \in x) \/ (\E l \in lost : In(c, l)) \/ Sliver(c, p)
    BY <1>2, <2>2 DEF Tiles
  <2>4. ~ \E x \in splitPolygon(p, lc(f), lost) : c \in x
    BY <1>1, <1>5
  <2>5. p \in polygons
    BY <2>2
  <2> QED BY <2>3, <2>4, <2>5
<1>6. UNION r.pieces \subseteq area
  BY <1>4
<1> HIDE DEF area, polygons
<1> QED BY <1>3, <1>5, <1>6

-------------------------------------------------------------------------------
(* What ChainGet finds. *)
(* The functions within Way and ChainGet exist, as they are made step by    *)
(* step.                                                                   *)
Leading(g, v, p, k) ==
  g = [n \in 0 .. k |-> IF n = 0 THEN v ELSE At(g[n - 1], p[n])]

LEMMA LeadingExists ==
  ASSUME NEW v, NEW p, NEW k \in Nat
  PROVE  \E g : Leading(g, v, p, k)
<1> DEFINE S == { m \in Nat : \E g : Leading(g, v, p, m) }
<1>1. 0 \in S
  <2> DEFINE g == [n \in 0 .. 0 |-> v]
  <2>1. Leading(g, v, p, 0)
    BY DEF Leading
  <2> QED BY <2>1
<1>2. ASSUME NEW m \in 1 .. k, m - 1 \in S PROVE m \in S
  <2>1. PICK g : Leading(g, v, p, m - 1)
    BY <1>2
  <2> DEFINE h == [n \in 0 .. m |-> IF n = m THEN At(g[m - 1], p[m]) ELSE g[n]]
  <2>2. ASSUME NEW n \in 0 .. m
        PROVE  h[n] = IF n = 0 THEN v ELSE At(h[n - 1], p[n])
    <3>1. CASE n = 0
      BY <2>1, <3>1 DEF Leading
    <3>2. CASE n # 0 /\ n # m
      <4>1. n \in 0 .. m - 1 /\ n - 1 \in 0 .. m - 1 /\ n - 1 # m /\ n - 1 \in 0 .. m
        BY <3>2
      <4>2. g[n] = At(g[n - 1], p[n])
        BY <2>1, <3>2, <4>1 DEF Leading
      <4> QED BY <3>2, <4>1, <4>2
    <3>3. CASE n = m
      <4>1. n # 0 /\ n - 1 \in 0 .. m /\ n - 1 # m
        BY <3>3
      <4> QED BY <3>3, <4>1
    <3> QED BY <3>1, <3>2, <3>3
  <2>3. Leading(h, v, p, m)
    <3>1. h = [n \in 0 .. m |-> h[n]]
      OBVIOUS
    <3> HIDE DEF h
    <3> QED BY <2>2, <3>1 DEF Leading
  <2> QED BY <2>3
<1>3. k \in S
  <2>1. k \in 0 .. k
    OBVIOUS
  <2> HIDE DEF S
  <2> QED BY <1>1, <1>2, <2>1, StepByStep
<1> QED BY <1>3

LEMMA WayIs ==
  ASSUME NEW v, NEW p, Len(p) \in Nat
  PROVE  /\ Way(v, p)[0] = v
         /\ \A n \in 1 .. Len(p) : Way(v, p)[n] = At(Way(v, p)[n - 1], p[n])
<1> DEFINE g == CHOOSE r : Leading(r, v, p, Len(p))
<1>1. Leading(g, v, p, Len(p))
  BY LeadingExists
<1>2. Way(v, p) = g
  BY DEF Way, Leading
<1> HIDE DEF g
<1>3. g[0] = v
  BY <1>1 DEF Leading
<1>4. ASSUME NEW n \in 1 .. Len(p) PROVE g[n] = At(g[n - 1], p[n])
  <2>1. n \in 0 .. Len(p) /\ n # 0
    OBVIOUS
  <2> QED BY <1>1, <2>1 DEF Leading
<1> QED BY <1>2, <1>3, <1>4

Running(g, m, keys, k) ==
  g = [n \in 0 .. k |-> IF n = 0 THEN Ok(m) ELSE Step(g[n - 1], keys[n])]

LEMMA RunningExists ==
  ASSUME NEW m, NEW keys, NEW k \in Nat
  PROVE  \E g : Running(g, m, keys, k)
<1> DEFINE S == { i \in Nat : \E g : Running(g, m, keys, i) }
<1>1. 0 \in S
  <2> DEFINE g == [n \in 0 .. 0 |-> Ok(m)]
  <2>1. Running(g, m, keys, 0)
    BY DEF Running
  <2> QED BY <2>1
<1>2. ASSUME NEW i \in 1 .. k, i - 1 \in S PROVE i \in S
  <2>1. PICK g : Running(g, m, keys, i - 1)
    BY <1>2
  <2> DEFINE h == [n \in 0 .. i |-> IF n = i THEN Step(g[i - 1], keys[i]) ELSE g[n]]
  <2>2. ASSUME NEW n \in 0 .. i
        PROVE  h[n] = IF n = 0 THEN Ok(m) ELSE Step(h[n - 1], keys[n])
    <3>1. CASE n = 0
      BY <2>1, <3>1 DEF Running
    <3>2. CASE n # 0 /\ n # i
      <4>1. n \in 0 .. i - 1 /\ n - 1 \in 0 .. i - 1 /\ n - 1 # i /\ n - 1 \in 0 .. i
        BY <3>2
      <4>2. g[n] = Step(g[n - 1], keys[n])
        BY <2>1, <3>2, <4>1 DEF Running
      <4> QED BY <3>2, <4>1, <4>2
    <3>3. CASE n = i
      <4>1. n # 0 /\ n - 1 \in 0 .. i /\ n - 1 # i
        BY <3>3
      <4> QED BY <3>3, <4>1
    <3> QED BY <3>1, <3>2, <3>3
  <2>3. Running(h, m, keys, i)
    <3>1. h = [n \in 0 .. i |-> h[n]]
      OBVIOUS
    <3> HIDE DEF h
    <3> QED BY <2>2, <3>1 DEF Running
  <2> QED BY <2>3
<1>3. k \in S
  <2>1. k \in 0 .. k
    OBVIOUS
  <2> HIDE DEF S
  <2> QED BY <1>1, <1>2, <2>1, StepByStep
<1> QED BY <1>3

LEMMA ChainGetIs ==
  ASSUME NEW type, NEW m, NEW keys, Len(keys) \in Nat
  PROVE  \E g : /\ g[0] = Ok(m)
                /\ \A n \in 1 .. Len(keys) : g[n] = Step(g[n - 1], keys[n])
                /\ ChainGet(type, m, keys) =
                     CASE keys = <<>> -> Panics
                       [] keys # <<>> /\ IsOk(g[Len(keys)]) -> As(type, g[Len(keys)].value)
                       [] keys # <<>> /\ ~IsOk(g[Len(keys)]) -> g[Len(keys)]
<1> DEFINE g == CHOOSE r : Running(r, m, keys, Len(keys))
<1>1. Running(g, m, keys, Len(keys))
  BY RunningExists
<1>2. ChainGet(type, m, keys) =
        CASE keys = <<>> -> Panics
          [] keys # <<>> /\ IsOk(g[Len(keys)]) -> As(type, g[Len(keys)].value)
          [] keys # <<>> /\ ~IsOk(g[Len(keys)]) -> g[Len(keys)]
  BY DEF ChainGet, Running
<1> HIDE DEF g
<1>3. g[0] = Ok(m)
  BY <1>1 DEF Running
<1>4. ASSUME NEW n \in 1 .. Len(keys) PROVE g[n] = Step(g[n - 1], keys[n])
  <2>1. n \in 0 .. Len(keys) /\ n # 0
    OBVIOUS
  <2> QED BY <1>1, <2>1 DEF Running
<1> QED BY <1>2, <1>3, <1>4

LEMMA KeyKinds ==
  ASSUME NEW key, IsKey(key)
  PROVE  \/ key = OtherKey /\ "name" \notin DOMAIN key /\ "index" \notin DOMAIN key
         \/ "name" \in DOMAIN key /\ "index" \notin DOMAIN key /\ key = Name(key.name) /\ key # OtherKey
         \/ "index" \in DOMAIN key /\ "name" \notin DOMAIN key /\ key = Index(key.index) /\ key # OtherKey
            /\ key.index \in Int
<1>1. CASE key = OtherKey
  BY <1>1 DEF OtherKey
<1>2. CASE "name" \in DOMAIN key /\ key = Name(key.name)
  <2>1. DOMAIN key = {"name"}
    BY <1>2 DEF Name
  <2>2. DOMAIN OtherKey = {"other"}
    BY DEF OtherKey
  <2> QED BY <1>2, <2>1, <2>2
<1>3. CASE "index" \in DOMAIN key /\ key = Index(key.index) /\ key.index \in Int
  <2>1. DOMAIN key = {"index"}
    BY <1>3 DEF Index
  <2>2. DOMAIN OtherKey = {"other"}
    BY DEF OtherKey
  <2> QED BY <1>3, <2>1, <2>2
<1> QED BY <1>1, <1>2, <1>3 DEF IsKey

(* The keys of a value are those that getObjectKey finds in it. *)
LEMMA HasIsKeyOf ==
  ASSUME NEW V, NEW v, IsValue(v, V), NEW key, IsKey(key)
  PROVE  /\ Has(v, key) <=> key \in KeysOf(v)
         /\ key \in KeysOf(v) => At(v, key) \in V /\ ~IsNil(v) /\ key # OtherKey
<1>1. DOMAIN Nil = {"nil"}
  BY DEF Nil
<1>2. IsNil(v) => ~IsMap(v) /\ ~IsSlice(v)
  BY <1>1 DEF IsNil, IsMap, IsSlice
<1>3. ~(IsMap(v) /\ IsSlice(v))
  BY DEF IsMap, IsSlice
<1>4. CASE "name" \in DOMAIN key /\ "index" \notin DOMAIN key /\ key = Name(key.name) /\ key # OtherKey
  <2>1. Has(v, key) <=> IsMap(v) /\ key.name \in DOMAIN v.map
    BY <1>4 DEF Has
  <2>2. \A k : Name(k).name = k
    BY DEF Name
  <2>3. \A i : Index(i) # key
    BY <1>4 DEF Index
  <2>4. key \in KeysOf(v) <=> IsMap(v) /\ key.name \in DOMAIN v.map
    <3>1. CASE IsMap(v)
      <4>1. KeysOf(v) = { Name(k) : k \in DOMAIN v.map }
        BY <3>1, <1>3 DEF KeysOf
      <4> QED BY <1>4, <2>2, <3>1, <4>1
    <3>2. CASE ~IsMap(v)
      BY <2>3, <3>2 DEF KeysOf
    <3> QED BY <3>1, <3>2
  <2>5. IsMap(v) => v.map \in [DOMAIN v.map -> V]
    <3>1. IsMap(v) => "atom" \notin DOMAIN v
      BY DEF IsMap
    <3> QED BY <1>2, <1>3, <3>1 DEF IsValue
  <2>6. IsMap(v) => At(v, key) = v.map[key.name]
    BY <1>3 DEF At
  <2> QED BY <1>2, <1>4, <2>1, <2>4, <2>5, <2>6
<1>5. CASE /\ "index" \in DOMAIN key /\ "name" \notin DOMAIN key
           /\ key = Index(key.index) /\ key # OtherKey /\ key.index \in Int
  <2>1. Has(v, key) <=> IsSlice(v) /\ key.index \in 0 .. Len(v.slice) - 1
    BY <1>5 DEF Has
  <2>2. \A i : Index(i).index = i
    BY DEF Index
  <2>3. \A k : Name(k) # key
    BY <1>5 DEF Name
  <2>4. IsSlice(v) => v.slice \in Seq(V)
    <3>1. IsSlice(v) => "atom" \notin DOMAIN v
      BY DEF IsSlice
    <3> QED BY <1>2, <1>3, <3>1 DEF IsValue
  <2>5. key \in KeysOf(v) <=> IsSlice(v) /\ key.index \in 0 .. Len(v.slice) - 1
    <3>1. CASE IsSlice(v)
      <4>1. KeysOf(v) = { Index(i - 1) : i \in DOMAIN v.slice }
        BY <3>1, <1>3 DEF KeysOf
      <4>2. DOMAIN v.slice = 1 .. Len(v.slice) /\ Len(v.slice) \in Nat
        BY <2>4, <3>1, LenProperties
      <4>3. key \in KeysOf(v) <=> \E i \in DOMAIN v.slice : key.index = i - 1
        BY <1>5, <2>2, <4>1
      <4>4. (\E i \in DOMAIN v.slice : key.index = i - 1) <=> key.index \in 0 .. Len(v.slice) - 1
        <5>1. ASSUME key.index \in 0 .. Len(v.slice) - 1
              PROVE  key.index + 1 \in DOMAIN v.slice /\ key.index = (key.index + 1) - 1
          BY <4>2, <5>1
        <5>2. ASSUME NEW i \in DOMAIN v.slice, key.index = i - 1
              PROVE  key.index \in 0 .. Len(v.slice) - 1
          BY <4>2, <5>2
        <5> QED BY <5>1, <5>2
      <4> QED BY <3>1, <4>3, <4>4
    <3>2. CASE ~IsSlice(v)
      BY <2>3, <3>2 DEF KeysOf
    <3> QED BY <3>1, <3>2
  <2>6. IsSlice(v) => At(v, key) = v.slice[key.index + 1]
    BY DEF At
  <2>7. IsSlice(v) /\ key.index \in 0 .. Len(v.slice) - 1 => v.slice[key.index + 1] \in V
    <3> SUFFICES ASSUME IsSlice(v), key.index \in 0 .. Len(v.slice) - 1
                 PROVE  v.slice[key.index + 1] \in V
      OBVIOUS
    <3>1. Len(v.slice) \in Nat
      BY <2>4, LenProperties
    <3>2. key.index + 1 \in 1 .. Len(v.slice)
      BY <3>1, <1>5
    <3> QED BY <2>4, <3>2, ElementOfSeq
  <2> QED BY <1>2, <1>5, <2>1, <2>5, <2>6, <2>7
<1>6. CASE key = OtherKey /\ "name" \notin DOMAIN key /\ "index" \notin DOMAIN key
  <2>1. ~Has(v, key)
    BY <1>6 DEF Has
  <2>2. \A k : Name(k) # key
    BY <1>6 DEF Name
  <2>3. \A i : Index(i) # key
    BY <1>6 DEF Index
  <2>4. key \notin KeysOf(v)
    BY <2>2, <2>3 DEF KeysOf
  <2> QED BY <2>1, <2>4
<1> QED BY <1>4, <1>5, <1>6, KeyKinds

LEMMA ResultKinds ==
  /\ \A v : IsOk(Ok(v)) /\ Ok(v).value = v
  /\ \A e : ~IsOk(Fails(e)) /\ Fails(e) # Panics
  /\ ~IsOk(Panics)
<1>1. \A v : IsOk(Ok(v)) /\ Ok(v).value = v
  BY DEF IsOk, Ok
<1>2. \A e : DOMAIN Fails(e) = {"error"}
  BY DEF Fails
<1>3. DOMAIN Panics = {"panic"}
  BY DEF Panics
<1>4. \A e : ~IsOk(Fails(e)) /\ Fails(e) # Panics
  BY <1>2, <1>3 DEF IsOk
<1> QED BY <1>1, <1>3, <1>4 DEF IsOk

(* One step of the way, and what it says where the way ends. *)
LEMMA StepGoes ==
  ASSUME NEW V, NEW v, IsValue(v, V), NEW key, IsKey(key), key \in KeysOf(v)
  PROVE  Step(Ok(v), key) = Ok(At(v, key))
<1>1. Has(v, key) /\ ~IsNil(v) /\ key # OtherKey
  BY HasIsKeyOf
<1>2. IsOk(Ok(v)) /\ Ok(v).value = v
  BY ResultKinds
<1>3. Step(Ok(v), key) = getObjectKey(v, key)
  BY <1>1, <1>2 DEF Step
<1>4. getObjectKey(v, key) = Ok(At(v, key))
  BY <1>1 DEF getObjectKey
<1> QED BY <1>3, <1>4

LEMMA StepStops ==
  ASSUME NEW V, NEW v, IsValue(v, V), NEW key, IsKey(key), key \notin KeysOf(v)
  PROVE  /\ ~IsOk(Step(Ok(v), key))
         /\ IsNil(v) => Step(Ok(v), key) = Fails("NotFound")
         /\ IsMap(v) /\ "name" \in DOMAIN key => Step(Ok(v), key) = Fails("NotFound")
         /\ ~IsNil(v) /\ ~IsMap(v) /\ "name" \in DOMAIN key =>
              Step(Ok(v), key) = Fails("WrongKeyType")
         /\ ~IsNil(v) /\ ~IsSlice(v) /\ "index" \in DOMAIN key =>
              Step(Ok(v), key) = Fails("WrongKeyType")
<1>1. ~Has(v, key)
  BY HasIsKeyOf
<1>2. IsOk(Ok(v)) /\ Ok(v).value = v
  BY ResultKinds
<1>3. DOMAIN Nil = {"nil"}
  BY DEF Nil
<1>4. CASE IsNil(v)
  <2>1. Step(Ok(v), key) = Fails("NotFound")
    BY <1>2, <1>4 DEF Step
  <2>2. ~IsSlice(v)
    BY <1>3, <1>4 DEF IsNil, IsSlice
  <2> QED BY <1>4, <2>1, <2>2, ResultKinds
<1>5. CASE ~IsNil(v)
  <2>1. Step(Ok(v), key) = getObjectKey(v, key)
    BY <1>2, <1>5 DEF Step
  <2>2. CASE key = OtherKey /\ "name" \notin DOMAIN key /\ "index" \notin DOMAIN key
    <3>1. getObjectKey(v, key) = Fails("InvalidKeys")
      BY <1>1, <2>2 DEF getObjectKey
    <3> QED BY <1>5, <2>1, <2>2, <3>1, ResultKinds
  <2>3. CASE "name" \in DOMAIN key /\ "index" \notin DOMAIN key /\ key # OtherKey
    <3>1. getObjectKey(v, key) = Fails(IF IsMap(v) THEN "NotFound" ELSE "WrongKeyType")
      BY <1>1, <2>3 DEF getObjectKey
    <3> QED BY <1>5, <2>1, <2>3, <3>1, ResultKinds
  <2>4. CASE /\ "index" \in DOMAIN key /\ "name" \notin DOMAIN key /\ key # OtherKey
             /\ key.index \in Int
    <3>1. getObjectKey(v, key) =
            IF IsSlice(v) THEN Beyond(v, key.index) ELSE Fails("WrongKeyType")
      BY <1>1, <2>4 DEF getObjectKey
    <3>2. CASE ~IsSlice(v)
      BY <1>5, <2>1, <2>4, <3>1, <3>2, ResultKinds
    <3>3. CASE IsSlice(v)
      <4>1. getObjectKey(v, key) \in {Fails("NotFound"), Panics}
        BY <3>1, <3>3 DEF Beyond
      <4> QED BY <1>5, <2>1, <2>4, <3>3, <4>1, ResultKinds
    <3> QED BY <3>2, <3>3
  <2> QED BY <2>2, <2>3, <2>4, KeyKinds
<1> QED BY <1>4, <1>5

(* As long as the keys lead somewhere ChainGet is there, and where they do   *)
(* not it has stopped with what the step there said.                        *)
Along(g, V, m, keys, n) ==
  /\ Leads(m, keys, n) => g[n] = Ok(Way(m, keys)[n]) /\ Way(m, keys)[n] \in V
  /\ ~Leads(m, keys, n) => ~IsOk(g[n])

LEMMA ChainGetAlong ==
  ASSUME NEW V, \A v \in V : IsValue(v, V), NEW m \in V, NEW keys, Len(keys) \in Nat,
         \A n \in 1 .. Len(keys) : IsKey(keys[n]),
         NEW g, g[0] = Ok(m), \A n \in 1 .. Len(keys) : g[n] = Step(g[n - 1], keys[n])
  PROVE  \A n \in 0 .. Len(keys) : Along(g, V, m, keys, n)
<1> DEFINE w == Way(m, keys)
           S == { n \in Nat : Along(g, V, m, keys, n) }
<1>1. w[0] = m /\ \A n \in 1 .. Len(keys) : w[n] = At(w[n - 1], keys[n])
  BY WayIs
<1>2. \A n \in 1 .. Len(keys) :
        Leads(m, keys, n) <=> Leads(m, keys, n - 1) /\ keys[n] \in KeysOf(w[n - 1])
  <2> TAKE n \in 1 .. Len(keys)
  <2>1. 1 .. n = 1 .. (n - 1) \cup {n}
    OBVIOUS
  <2> QED BY <2>1 DEF Leads
<1> HIDE DEF w
<1>3. 0 \in S
  <2>1. Leads(m, keys, 0)
    BY DEF Leads
  <2> QED BY <1>1, <2>1 DEF Along, w
<1>4. ASSUME NEW n \in 1 .. Len(keys), n - 1 \in S PROVE n \in S
  <2>1. Along(g, V, m, keys, n - 1) /\ n \in Nat /\ IsKey(keys[n]) /\ g[n] = Step(g[n - 1], keys[n])
    BY <1>4
  <2>2. CASE Leads(m, keys, n - 1) /\ keys[n] \in KeysOf(w[n - 1])
    <3>1. g[n - 1] = Ok(w[n - 1]) /\ w[n - 1] \in V /\ IsValue(w[n - 1], V)
      BY <2>1, <2>2 DEF Along, w
    <3>2. g[n] = Ok(At(w[n - 1], keys[n]))
      BY <2>1, <2>2, <3>1, StepGoes
    <3>3. At(w[n - 1], keys[n]) \in V
      BY <2>1, <2>2, <3>1, HasIsKeyOf
    <3>4. Leads(m, keys, n) /\ w[n] = At(w[n - 1], keys[n])
      BY <1>1, <1>2, <2>2
    <3> QED BY <2>1, <3>2, <3>3, <3>4 DEF Along, w
  <2>3. CASE Leads(m, keys, n - 1) /\ keys[n] \notin KeysOf(w[n - 1])
    <3>1. g[n - 1] = Ok(w[n - 1]) /\ w[n - 1] \in V /\ IsValue(w[n - 1], V)
      BY <2>1, <2>3 DEF Along, w
    <3>2. ~IsOk(g[n])
      BY <2>1, <2>3, <3>1, StepStops
    <3>3. ~Leads(m, keys, n)
      BY <1>2, <2>3
    <3> QED BY <2>1, <3>2, <3>3 DEF Along
  <2>4. CASE ~Leads(m, keys, n - 1)
    <3>1. ~IsOk(g[n - 1])
      BY <2>1, <2>4 DEF Along
    <3>2. g[n] = g[n - 1]
      BY <2>1, <3>1 DEF Step
    <3>3. ~Leads(m, keys, n)
      BY <1>2, <2>4
    <3> QED BY <2>1, <3>1, <3>2, <3>3 DEF Along
  <2> QED BY <2>2, <2>3, <2>4
<1>5. \A n \in 0 .. Len(keys) : n \in S
  <2> HIDE DEF S
  <2> QED BY <1>3, <1>4, StepByStep
<1> QED BY <1>5

(* A result that is no value stays as it is to the end. *)
LEMMA StopIsFinal ==
  ASSUME NEW k \in Nat, NEW keys, NEW g, \A n \in 1 .. k : g[n] = Step(g[n - 1], keys[n]),
         NEW n \in 1 .. k, ~IsOk(g[n])
  PROVE  g[k] = g[n]
<1> DEFINE S == { i \in Nat : i < n \/ g[i] = g[n] }
<1>1. 0 \in S
  OBVIOUS
<1>2. ASSUME NEW i \in 1 .. k, i - 1 \in S PROVE i \in S
  <2>1. CASE i < n
    BY <2>1
  <2>2. CASE i = n
    BY <2>2
  <2>3. CASE i > n
    <3>1. g[i - 1] = g[n]
      BY <1>2, <2>3
    <3>2. g[i] = Step(g[n], keys[i])
      BY <3>1
    <3>3. g[i] = g[n]
      BY <3>2 DEF Step
    <3> QED BY <3>3
  <2> QED BY <2>1, <2>2, <2>3
<1>3. k \in S
  <2>1. k \in 0 .. k
    OBVIOUS
  <2> HIDE DEF S
  <2> QED BY <1>1, <1>2, <2>1, StepByStep
<1> QED BY <1>3

(* ChainGet is exact and says why it stops, on any map of any values and for *)
(* any keys (raw.go:31-96).                                                 *)
THEOREM ChainGetFinds ==
  ASSUME NEW V, \A v \in V : IsValue(v, V), NEW m \in V, IsMap(m), NEW type,
         NEW keys, Len(keys) \in Nat, keys = <<>> <=> Len(keys) = 0,
         \A n \in 1 .. Len(keys) : IsKey(keys[n])
  PROVE  ChainGetIsExact(type, m, keys) /\ ChainGetDeadEnds(type, m, keys)
<1> DEFINE w == Way(m, keys)
           k == Len(keys)
           r == ChainGet(type, m, keys)
<1>1. PICK g : /\ g[0] = Ok(m)
               /\ \A n \in 1 .. k : g[n] = Step(g[n - 1], keys[n])
               /\ r = CASE keys = <<>> -> Panics
                        [] keys # <<>> /\ IsOk(g[k]) -> As(type, g[k].value)
                        [] keys # <<>> /\ ~IsOk(g[k]) -> g[k]
  BY ChainGetIs
<1>2. \A n \in 0 .. k : Along(g, V, m, keys, n)
  BY <1>1, ChainGetAlong
<1> HIDE DEF r
<1>3. \A n \in 1 .. k : w[n] = At(w[n - 1], keys[n])
  BY WayIs
<1>4. w[0] = m
  BY WayIs
<1>5. \A t, v : IsOk(As(t, v)) => As(t, v).value = v
  BY ResultKinds DEF As
<1>6. IsOk(r) <=> keys # <<>> /\ IsPlace(m, keys) /\ IsOk(As(type, ValueAt(m, keys)))
  <2>1. Along(g, V, m, keys, k)
    BY <1>2
  <2>2. CASE keys = <<>>
    BY <1>1, <2>2, ResultKinds
  <2>3. CASE keys # <<>> /\ Leads(m, keys, k)
    <3>1. g[k] = Ok(w[k])
      BY <2>1, <2>3 DEF Along
    <3>2. r = As(type, w[k])
      BY <1>1, <2>3, <3>1, ResultKinds
    <3> QED BY <2>3, <3>2 DEF IsPlace, ValueAt
  <2>4. CASE keys # <<>> /\ ~Leads(m, keys, k)
    <3>1. ~IsOk(g[k])
      BY <2>1, <2>4 DEF Along
    <3>2. r = g[k]
      BY <1>1, <2>4, <3>1
    <3> QED BY <2>4, <3>1, <3>2 DEF IsPlace
  <2> QED BY <2>2, <2>3, <2>4
<1>7. IsOk(r) => r.value = ValueAt(m, keys)
  <2> SUFFICES ASSUME IsOk(r) PROVE r.value = ValueAt(m, keys)
    OBVIOUS
  <2>1. Along(g, V, m, keys, k) /\ keys # <<>> /\ Leads(m, keys, k)
    BY <1>2, <1>6 DEF IsPlace
  <2>2. g[k] = Ok(w[k])
    BY <2>1 DEF Along
  <2>3. r = As(type, w[k])
    BY <1>1, <2>1, <2>2, ResultKinds
  <2> QED BY <1>5, <2>3 DEF ValueAt
<1>8. ASSUME k = 1, "name" \in DOMAIN keys[1] PROVE r = GetKey(type, m, keys[1].name)
  <2>1. keys # <<>> /\ IsKey(keys[1]) /\ g[1] = Step(Ok(m), keys[1])
    <3>1. 1 \in 1 .. k /\ 1 - 1 = 0
      BY <1>8
    <3> QED BY <1>1, <1>8, <3>1
  <2>2. keys[1] = Name(keys[1].name)
    BY <1>8, <2>1, KeyKinds
  <2>3. IsValue(m, V)
    OBVIOUS
  <2>4. KeysOf(m) = { Name(j) : j \in DOMAIN m.map }
    <3>1. ~IsSlice(m)
      BY DEF IsMap, IsSlice
    <3> QED BY <3>1 DEF KeysOf
  <2>5. \A j : Name(j).name = j
    BY DEF Name
  <2>6. keys[1] \in KeysOf(m) <=> keys[1].name \in DOMAIN m.map
    BY <2>2, <2>4, <2>5
  <2>7. CASE keys[1] \in KeysOf(m)
    <3>1. g[1] = Ok(At(m, keys[1]))
      BY <2>1, <2>3, <2>7, StepGoes
    <3>2. ~IsSlice(m)
      BY DEF IsMap, IsSlice
    <3>3. At(m, keys[1]) = m.map[keys[1].name]
      BY <3>2 DEF At
    <3>4. r = As(type, m.map[keys[1].name])
      BY <1>1, <1>8, <2>1, <3>1, <3>3, ResultKinds
    <3> QED BY <2>6, <2>7, <3>4 DEF GetKey
  <2>8. CASE keys[1] \notin KeysOf(m)
    <3>1. g[1] = Fails("NotFound") /\ ~IsOk(g[1])
      BY <1>8, <2>1, <2>3, <2>8, StepStops
    <3>2. r = Fails("NotFound")
      BY <1>1, <1>8, <2>1, <3>1
    <3> QED BY <2>6, <2>8, <3>2 DEF GetKey
  <2> QED BY <2>7, <2>8
<1>9. ASSUME NEW n \in 1 .. k, Leads(m, keys, n - 1), ~Leads(m, keys, n)
      PROVE  LET at == w[n - 1]  named == "name" \in DOMAIN keys[n] IN
               /\ IsNil(at) \/ (IsMap(at) /\ named) => r = Fails("NotFound")
               /\ ~IsNil(at) /\ ~IsMap(at) /\ named => r = Fails("WrongKeyType")
               /\ ~IsNil(at) /\ ~IsSlice(at) /\ "index" \in DOMAIN keys[n] =>
                    r = Fails("WrongKeyType")
  <2>1. n - 1 \in 0 .. k /\ n \in 0 .. k /\ k \in Nat /\ k # 0
    OBVIOUS
  <2>2. g[n - 1] = Ok(w[n - 1]) /\ w[n - 1] \in V /\ ~IsOk(g[n])
    BY <1>2, <1>9, <2>1 DEF Along
  <2>3. IsValue(w[n - 1], V) /\ IsKey(keys[n]) /\ g[n] = Step(Ok(w[n - 1]), keys[n])
    BY <1>1, <2>2
  <2>4. keys[n] \notin KeysOf(w[n - 1])
    <3>1. 1 .. n = 1 .. (n - 1) \cup {n}
      OBVIOUS
    <3> QED BY <1>9, <3>1 DEF Leads
  <2>5. g[k] = g[n]
    BY <1>1, <2>1, <2>2, StopIsFinal
  <2>6. r = g[n]
    BY <1>1, <2>1, <2>2, <2>5
  <2> HIDE DEF w
  <2> QED BY <2>3, <2>4, <2>6, StepStops
<1>10. ChainGetIsExact(type, m, keys)
  BY <1>6, <1>7, <1>8 DEF ChainGetIsExact, r
<1>11. ChainGetDeadEnds(type, m, keys)
  BY <1>9 DEF ChainGetDeadEnds, r
<1> QED BY <1>10, <1>11

-------------------------------------------------------------------------------
(* Which manifests come back. *)
(* The recursive functions of Manifests exist, as they are made step by     *)
(* step.                                                                   *)
Flattening(g, s, k) == g = [i \in 1 .. k |-> IF i = 1 THEN s[i] ELSE g[i - 1] \o s[i]]

LEMMA FlatteningExists ==
  ASSUME NEW s, NEW k \in Nat
  PROVE  \E g : Flattening(g, s, k)
<1> DEFINE S == { m \in Nat : \E g : Flattening(g, s, m) }
<1>1. 0 \in S
  <2> DEFINE g == [i \in 1 .. 0 |-> s[i]]
  <2>1. Flattening(g, s, 0)
    BY DEF Flattening
  <2> QED BY <2>1
<1>2. ASSUME NEW m \in 1 .. k, m - 1 \in S PROVE m \in S
  <2>1. PICK g : Flattening(g, s, m - 1)
    BY <1>2
  <2> DEFINE h == [n \in 1 .. m |-> IF n = m THEN (IF m = 1 THEN s[m] ELSE g[m - 1] \o s[m]) ELSE g[n]]
  <2>2. ASSUME NEW n \in 1 .. m
        PROVE  h[n] = IF n = 1 THEN s[n] ELSE h[n - 1] \o s[n]
    <3>1. CASE n = m /\ n = 1
      BY <3>1
    <3>2. CASE n = m /\ n # 1
      <4>1. n - 1 \in 1 .. m /\ n - 1 # m
        BY <3>2
      <4> QED BY <3>2, <4>1
    <3>3. CASE n # m
      <4>1. n \in 1 .. m - 1 /\ (n # 1 => n - 1 \in 1 .. m /\ n - 1 # m)
        BY <3>3
      <4>2. g[n] = IF n = 1 THEN s[n] ELSE g[n - 1] \o s[n]
        BY <2>1, <4>1 DEF Flattening
      <4> QED BY <3>3, <4>1, <4>2
    <3> QED BY <3>1, <3>2, <3>3
  <2>3. Flattening(h, s, m)
    <3>1. h = [n \in 1 .. m |-> h[n]]
      OBVIOUS
    <3> HIDE DEF h
    <3> QED BY <2>2, <3>1 DEF Flattening
  <2> QED BY <2>3
<1>3. k \in S
  <2>1. k \in 0 .. k
    OBVIOUS
  <2> HIDE DEF S
  <2> QED BY <1>1, <1>2, <2>1, StepByStep
<1> QED BY <1>3

(* What FlattenSeq makes of sequences over A, one after the other. *)
Joining(g, s, A) ==
  /\ g[1] = s[1]
  /\ \A i \in 2 .. Len(s) : g[i] = g[i - 1] \o s[i]
  /\ \A i \in 1 .. Len(s) : g[i] \in Seq(A)

LEMMA FlattenIs ==
  ASSUME NEW A, NEW s, Len(s) \in Nat \ {0}, \A i \in 1 .. Len(s) : s[i] \in Seq(A)
  PROVE  \E g : Joining(g, s, A) /\ FlattenSeq(s) = g[Len(s)]
<1> DEFINE k == Len(s)
           g == CHOOSE f : Flattening(f, s, k)
<1>1. Flattening(g, s, k)
  BY FlatteningExists
<1>2. FlattenSeq(s) = g[k]
  BY DEF FlattenSeq, Flattening
<1> HIDE DEF g
<1>3. \A i \in 1 .. k : g[i] = IF i = 1 THEN s[i] ELSE g[i - 1] \o s[i]
  BY <1>1 DEF Flattening
<1>4. g[1] = s[1]
  <2>1. 1 \in 1 .. k
    OBVIOUS
  <2> HIDE DEF k
  <2> QED BY <1>3, <2>1
<1>5. ASSUME NEW i \in 2 .. k PROVE g[i] = g[i - 1] \o s[i]
  <2>1. i \in 1 .. k /\ i # 1
    OBVIOUS
  <2> HIDE DEF k
  <2> QED BY <1>3, <2>1
<1> DEFINE S == { i \in Nat : i = 0 \/ g[i] \in Seq(A) }
<1>6. \A i \in 0 .. k : i \in S
  <2>1. 0 \in S
    OBVIOUS
  <2>2. ASSUME NEW i \in 1 .. k, i - 1 \in S PROVE i \in S
    <3>1. CASE i = 1
      BY <1>4, <3>1
    <3>2. CASE i # 1
      <4>1. i \in 2 .. k /\ g[i - 1] \in Seq(A) /\ s[i] \in Seq(A)
        BY <2>2, <3>2
      <4>2. g[i] \in Seq(A)
        BY <1>5, <4>1, ConcatProperties
      <4> QED BY <4>2
    <3> QED BY <3>1, <3>2
  <2> HIDE DEF S, k
  <2>3. k \in Nat
    BY DEF k
  <2> QED BY <2>1, <2>2, <2>3, StepByStep
<1>7. \A i \in 1 .. k : g[i] \in Seq(A)
  BY <1>6
<1> QED BY <1>2, <1>4, <1>5, <1>7 DEF Joining

(* One step of SplitAt. *)
Cutting(parts, t, token) ==
  IF t = token THEN Append(parts, <<>>)
  ELSE Append(Front(parts), Append(Last(parts), t))

Splitting(g, text, token, k) ==
  g = [n \in 0 .. k |-> IF n = 0 THEN << <<>> >> ELSE Cutting(g[n - 1], text[n], token)]

LEMMA SplittingExists ==
  ASSUME NEW text, NEW token, NEW k \in Nat
  PROVE  \E g : Splitting(g, text, token, k)
<1> DEFINE S == { m \in Nat : \E g : Splitting(g, text, token, m) }
<1>1. 0 \in S
  <2> DEFINE g == [n \in 0 .. 0 |-> << <<>> >>]
  <2>1. Splitting(g, text, token, 0)
    BY DEF Splitting
  <2> QED BY <2>1
<1>2. ASSUME NEW m \in 1 .. k, m - 1 \in S PROVE m \in S
  <2>1. PICK g : Splitting(g, text, token, m - 1)
    BY <1>2
  <2> DEFINE h == [n \in 0 .. m |-> IF n = m THEN Cutting(g[m - 1], text[m], token) ELSE g[n]]
  <2>2. ASSUME NEW n \in 0 .. m
        PROVE  h[n] = IF n = 0 THEN << <<>> >> ELSE Cutting(h[n - 1], text[n], token)
    <3>1. CASE n = 0
      BY <2>1, <3>1 DEF Splitting
    <3>2. CASE n # 0 /\ n # m
      <4>1. n \in 0 .. m - 1 /\ n - 1 \in 0 .. m - 1 /\ n - 1 # m /\ n - 1 \in 0 .. m
        BY <3>2
      <4>2. g[n] = Cutting(g[n - 1], text[n], token)
        BY <2>1, <3>2, <4>1 DEF Splitting
      <4> QED BY <3>2, <4>1, <4>2
    <3>3. CASE n = m
      <4>1. n # 0 /\ n - 1 \in 0 .. m /\ n - 1 # m
        BY <3>3
      <4> QED BY <3>3, <4>1
    <3> QED BY <3>1, <3>2, <3>3
  <2>3. Splitting(h, text, token, m)
    <3>1. h = [n \in 0 .. m |-> h[n]]
      OBVIOUS
    <3> HIDE DEF h
    <3> QED BY <2>2, <3>1 DEF Splitting
  <2> QED BY <2>3
<1>3. k \in S
  <2>1. k \in 0 .. k
    OBVIOUS
  <2> HIDE DEF S
  <2> QED BY <1>1, <1>2, <2>1, StepByStep
<1> QED BY <1>3

(* The parts after each token of the text. *)
PartsOf(g, text, token) ==
  /\ g[0] = << <<>> >>
  /\ \A n \in 1 .. Len(text) : g[n] = Cutting(g[n - 1], text[n], token)

LEMMA SplitAtIs ==
  ASSUME NEW text, Len(text) \in Nat, NEW token
  PROVE  \E g : PartsOf(g, text, token) /\ SplitAt(text, token) = g[Len(text)]
<1> DEFINE k == Len(text)
           g == CHOOSE f : Splitting(f, text, token, k)
<1>1. Splitting(g, text, token, k)
  BY SplittingExists
<1>2. SplitAt(text, token) = g[k]
  BY DEF SplitAt, Splitting, Cutting
<1> HIDE DEF g
<1>3. g[0] = << <<>> >>
  BY <1>1 DEF Splitting
<1>4. ASSUME NEW n \in 1 .. k PROVE g[n] = Cutting(g[n - 1], text[n], token)
  <2>1. n \in 0 .. k /\ n # 0
    OBVIOUS
  <2> QED BY <1>1, <2>1 DEF Splitting
<1> QED BY <1>2, <1>3, <1>4 DEF PartsOf

(* One step of Without. *)
Keeping(kept, e, skipped) == IF e \in skipped THEN kept ELSE Append(kept, e)

Skipping(g, s, skipped, k) ==
  g = [n \in 0 .. k |-> IF n = 0 THEN <<>> ELSE Keeping(g[n - 1], s[n], skipped)]

LEMMA SkippingExists ==
  ASSUME NEW s, NEW skipped, NEW k \in Nat
  PROVE  \E g : Skipping(g, s, skipped, k)
<1> DEFINE S == { m \in Nat : \E g : Skipping(g, s, skipped, m) }
<1>1. 0 \in S
  <2> DEFINE g == [n \in 0 .. 0 |-> <<>>]
  <2>1. Skipping(g, s, skipped, 0)
    BY DEF Skipping
  <2> QED BY <2>1
<1>2. ASSUME NEW m \in 1 .. k, m - 1 \in S PROVE m \in S
  <2>1. PICK g : Skipping(g, s, skipped, m - 1)
    BY <1>2
  <2> DEFINE h == [n \in 0 .. m |-> IF n = m THEN Keeping(g[m - 1], s[m], skipped) ELSE g[n]]
  <2>2. ASSUME NEW n \in 0 .. m
        PROVE  h[n] = IF n = 0 THEN <<>> ELSE Keeping(h[n - 1], s[n], skipped)
    <3>1. CASE n = 0
      BY <2>1, <3>1 DEF Skipping
    <3>2. CASE n # 0 /\ n # m
      <4>1. n \in 0 .. m - 1 /\ n - 1 \in 0 .. m - 1 /\ n - 1 # m /\ n - 1 \in 0 .. m
        BY <3>2
      <4>2. g[n] = Keeping(g[n - 1], s[n], skipped)
        BY <2>1, <3>2, <4>1 DEF Skipping
      <4> QED BY <3>2, <4>1, <4>2
    <3>3. CASE n = m
      <4>1. n # 0 /\ n - 1 \in 0 .. m /\ n - 1 # m
        BY <3>3
      <4> QED BY <3>3, <4>1
    <3> QED BY <3>1, <3>2, <3>3
  <2>3. Skipping(h, s, skipped, m)
    <3>1. h = [n \in 0 .. m |-> h[n]]
      OBVIOUS
    <3> HIDE DEF h
    <3> QED BY <2>2, <3>1 DEF Skipping
  <2> QED BY <2>3
<1>3. k \in S
  <2>1. k \in 0 .. k
    OBVIOUS
  <2> HIDE DEF S
  <2> QED BY <1>1, <1>2, <2>1, StepByStep
<1> QED BY <1>3

KeptOf(g, s, skipped) ==
  /\ g[0] = <<>>
  /\ \A n \in 1 .. Len(s) : g[n] = Keeping(g[n - 1], s[n], skipped)

LEMMA WithoutIs ==
  ASSUME NEW s, Len(s) \in Nat, NEW skipped
  PROVE  \E g : KeptOf(g, s, skipped) /\ Without(s, skipped) = g[Len(s)]
<1> DEFINE k == Len(s)
           g == CHOOSE f : Skipping(f, s, skipped, k)
<1>1. Skipping(g, s, skipped, k)
  BY SkippingExists
<1>2. Without(s, skipped) = g[k]
  BY DEF Without, Skipping, Keeping
<1> HIDE DEF g
<1>3. g[0] = <<>>
  BY <1>1 DEF Skipping
<1>4. ASSUME NEW n \in 1 .. k PROVE g[n] = Keeping(g[n - 1], s[n], skipped)
  <2>1. n \in 0 .. k /\ n # 0
    OBVIOUS
  <2> QED BY <1>1, <2>1 DEF Skipping
<1> QED BY <1>2, <1>3, <1>4 DEF KeptOf

LEMMA FrontOfAppend ==
  ASSUME NEW E, NEW s \in Seq(E), NEW e \in E
  PROVE  Front(Append(s, e)) = s /\ Last(Append(s, e)) = e
<1> DEFINE d == Append(s, e)
<1>1. /\ d \in Seq(E) /\ d # <<>>
      /\ Len(d) = Len(s) + 1
      /\ \A i \in 1 .. Len(s) : d[i] = s[i]
      /\ d[Len(s) + 1] = e
  BY AppendProperties
<1>2. Len(s) \in Nat
  BY LenProperties
<1> HIDE DEF d
<1>3. Front(d) \in Seq(E)
  BY <1>1, FrontShape
<1>4. Len(Front(d)) = Len(d) - 1
  BY <1>1, FrontShape
<1>5. \A i \in 1 .. Len(Front(d)) : Front(d)[i] = d[i]
  BY <1>1, FrontShape
<1>6. Len(Front(d)) = Len(s)
  BY <1>1, <1>2, <1>4
<1>7. Front(d) = s
  BY <1>1, <1>3, <1>5, <1>6, SeqEqual
<1>8. Last(d) = e
  BY <1>1 DEF Last
<1> QED BY <1>7, <1>8 DEF d

LEMMA AppendNext ==
  ASSUME NEW E, NEW s \in Seq(E), NEW n \in 1 .. Len(s)
  PROVE  Append(SubSeq(s, 1, n - 1), s[n]) = SubSeq(s, 1, n)
<1>1. Len(s) \in Nat
  BY LenProperties
<1>2. 1 \in 1 .. Len(s) /\ n \in 1 .. Len(s)
  BY <1>1
<1>3. SubSeq(s, 1, n) = SubSeq(s, 1, n - 1) \o <<s[n]>>
  BY <1>2, SubSeqRecursiveSecond
<1>4. SubSeq(s, 1, n - 1) \in Seq(E)
  <2>1. \A i \in 1 .. n - 1 : s[i] \in E
    <3>1. \A i \in 1 .. n - 1 : i \in 1 .. Len(s)
      BY <1>1
    <3> QED BY <3>1, ElementOfSeq
  <2>2. 1 \in Int /\ n - 1 \in Int
    OBVIOUS
  <2> QED BY <2>1, <2>2, SubSeqProperties
<1>5. s[n] \in E
  BY ElementOfSeq
<1>6. Append(SubSeq(s, 1, n - 1), s[n]) = SubSeq(s, 1, n - 1) \o <<s[n]>>
  BY <1>4, <1>5, AppendIsConcat
<1> QED BY <1>3, <1>6

(* Parts have every token but the one they are split at. *)
Parts(ps, A, token) == ps \in Seq(Seq(A \ {token})) /\ ps # <<>>

LEMMA CuttingShape ==
  ASSUME NEW A, NEW token, NEW ps, Parts(ps, A, token), NEW t \in A
  PROVE  Parts(Cutting(ps, t, token), A, token)
<1> DEFINE B == A \ {token}
<1>1. <<>> \in Seq(B) /\ ps \in Seq(Seq(B)) /\ ps # <<>>
  BY EmptySeq DEF Parts
<1>2. CASE t = token
  BY <1>1, <1>2, AppendProperties DEF Parts, Cutting
<1>3. CASE t # token
  <2>1. t \in B
    BY <1>3
  <2> HIDE DEF B
  <2>2. Front(ps) \in Seq(Seq(B))
    BY <1>1, FrontShape
  <2>3. Last(ps) \in Seq(B)
    <3>1. Len(ps) \in 1 .. Len(ps)
      BY <1>1, EmptySeq
    <3> QED BY <1>1, <3>1, ElementOfSeq DEF Last
  <2>4. Append(Last(ps), t) \in Seq(B)
    BY <2>1, <2>3, AppendProperties
  <2> DEFINE x == Front(ps)
             y == Append(Last(ps), t)
  <2>0. x \in Seq(Seq(B)) /\ y \in Seq(B)
    BY <2>2, <2>4
  <2> HIDE DEF x, y
  <2>5. Append(x, y) \in Seq(Seq(B))
    BY <2>0, AppendProperties
  <2>6. Append(x, y) # <<>>
    BY <2>0, AppendProperties
  <2> QED BY <1>3, <2>5, <2>6 DEF Parts, Cutting, B, x, y
<1> QED BY <1>2, <1>3

LEMMA PartsShape ==
  ASSUME NEW A, NEW text \in Seq(A), NEW token, NEW g, PartsOf(g, text, token)
  PROVE  \A n \in 0 .. Len(text) : Parts(g[n], A, token)
<1> DEFINE S == { n \in Nat : Parts(g[n], A, token) }
<1>1. Len(text) \in Nat
  BY LenProperties
<1>2. 0 \in S
  <2>1. <<>> \in Seq(A \ {token})
    BY EmptySeq
  <2>2. << <<>> >> \in Seq(Seq(A \ {token})) /\ << <<>> >> # <<>>
    BY <2>1
  <2> QED BY <2>2 DEF PartsOf, Parts
<1>3. ASSUME NEW n \in 1 .. Len(text), n - 1 \in S PROVE n \in S
  <2>1. text[n] \in A
    BY ElementOfSeq
  <2>2. g[n] = Cutting(g[n - 1], text[n], token)
    BY DEF PartsOf
  <2> QED BY <1>3, <2>1, <2>2, CuttingShape
<1>4. \A n \in 0 .. Len(text) : n \in S
  <2> HIDE DEF S
  <2> QED BY <1>1, <1>2, <1>3, StepByStep
<1> QED BY <1>4

LEMMA SplitShape ==
  ASSUME NEW A, NEW text \in Seq(A), NEW token
  PROVE  Parts(SplitAt(text, token), A, token)
<1>1. Len(text) \in Nat
  BY LenProperties
<1>2. PICK g : PartsOf(g, text, token) /\ SplitAt(text, token) = g[Len(text)]
  BY <1>1, SplitAtIs
<1>3. Len(text) \in 0 .. Len(text)
  BY <1>1
<1> QED BY <1>2, <1>3, PartsShape

(* Tokens that are no ends are added to the last part. *)
LEMMA CuttingGrows ==
  ASSUME NEW B, NEW P \in Seq(Seq(B)), NEW v \in Seq(B), NEW token, token \notin B,
         NEW j \in 1 .. Len(v)
  PROVE  Cutting(Append(P, SubSeq(v, 1, j - 1)), v[j], token) = Append(P, SubSeq(v, 1, j))
<1>1. v[j] \in B /\ v[j] # token
  BY ElementOfSeq
<1>2. SubSeq(v, 1, j - 1) \in Seq(B)
  <2>1. \A i \in 1 .. j - 1 : i \in 1 .. Len(v)
    BY LenProperties
  <2>2. \A i \in 1 .. j - 1 : v[i] \in B
    BY <2>1, ElementOfSeq
  <2>3. 1 \in Int /\ j - 1 \in Int
    OBVIOUS
  <2> QED BY <2>2, <2>3, SubSeqProperties
<1> DEFINE x == SubSeq(v, 1, j - 1)
<1> HIDE DEF x
<1>3. Front(Append(P, x)) = P /\ Last(Append(P, x)) = x
  BY <1>2, FrontOfAppend DEF x
<1>4. Append(x, v[j]) = SubSeq(v, 1, j)
  BY AppendNext DEF x
<1>5. Cutting(Append(P, x), v[j], token) = Append(P, Append(x, v[j]))
  BY <1>1, <1>3 DEF Cutting
<1> QED BY <1>4, <1>5 DEF x

(* A text without the token is its only part. *)
LEMMA SplitWhole ==
  ASSUME NEW B, NEW v \in Seq(B), NEW token, token \notin B
  PROVE  SplitAt(v, token) = <<v>>
<1>1. Len(v) \in Nat
  BY LenProperties
<1>2. PICK g : PartsOf(g, v, token) /\ SplitAt(v, token) = g[Len(v)]
  BY <1>1, SplitAtIs
<1>0. PICK P \in Seq(Seq(B)) : P = <<>>
  BY EmptySeq
<1>7. \A x : Append(P, x) = <<x>>
  BY <1>0
<1> DEFINE S == { n \in Nat : g[n] = Append(P, SubSeq(v, 1, n)) }
<1>3. 0 \in S
  <2>1. SubSeq(v, 1, 0) = <<>>
    BY SubSeqEmpty
  <2>2. g[0] = << <<>> >>
    BY <1>2 DEF PartsOf
  <2>3. Append(P, SubSeq(v, 1, 0)) = << <<>> >>
    BY <1>7, <2>1
  <2> QED BY <2>2, <2>3
<1>4. ASSUME NEW n \in 1 .. Len(v), n - 1 \in S PROVE n \in S
  <2>2. g[n] = Cutting(g[n - 1], v[n], token)
    BY <1>2 DEF PartsOf
  <2>3. g[n - 1] = Append(P, SubSeq(v, 1, n - 1))
    BY <1>4
  <2>4. Cutting(Append(P, SubSeq(v, 1, n - 1)), v[n], token) = Append(P, SubSeq(v, 1, n))
    BY CuttingGrows
  <2> QED BY <2>2, <2>3, <2>4
<1>5. Len(v) \in S
  <2>1. Len(v) \in 0 .. Len(v)
    BY <1>1
  <2> HIDE DEF S
  <2> QED BY <1>1, <1>3, <1>4, <2>1, StepByStep
<1>6. SubSeq(v, 1, Len(v)) = v
  BY SubSeqFull
<1> QED BY <1>2, <1>5, <1>6, <1>7

(* What follows the last of the tokens is the last part. *)
LEMMA SplitLast ==
  ASSUME NEW A, NEW token \in A, NEW u \in Seq(A), NEW v \in Seq(A \ {token})
  PROVE  SplitAt(u \o <<token>> \o v, token) = Append(SplitAt(u, token), v)
<1> DEFINE w == u \o <<token>> \o v
           k == Len(u)
           B == A \ {token}
<1>1. k \in Nat /\ Len(v) \in Nat /\ v \in Seq(A)
  BY LenProperties, SeqMonotonic
<1>2. <<token>> \in Seq(A) /\ Len(<<token>>) = 1 /\ <<token>>[1] = token
  OBVIOUS
<1>3. /\ u \o <<token>> \in Seq(A)
      /\ Len(u \o <<token>>) = k + 1
      /\ \A i \in 1 .. k + 1 : (u \o <<token>>)[i] = IF i <= k THEN u[i] ELSE <<token>>[i - k]
  BY <1>2, ConcatProperties
<1>4. /\ w \in Seq(A)
      /\ Len(w) = k + 1 + Len(v)
      /\ \A i \in 1 .. k + 1 + Len(v) : w[i] = IF i <= k + 1 THEN (u \o <<token>>)[i] ELSE v[i - (k + 1)]
  BY <1>1, <1>3, ConcatProperties
<1>5. \A i \in 1 .. k : w[i] = u[i]
  BY <1>1, <1>3, <1>4
<1>6. w[k + 1] = token
  <2>1. (u \o <<token>>)[k + 1] = <<token>>[(k + 1) - k]
    BY <1>1, <1>3
  <2>2. (k + 1) - k = 1
    BY <1>1
  <2> QED BY <1>1, <1>2, <1>4, <2>1, <2>2
<1>7. \A j \in 1 .. Len(v) : w[k + 1 + j] = v[j]
  <2> TAKE j \in 1 .. Len(v)
  <2>1. k + 1 + j \in 1 .. k + 1 + Len(v) /\ ~(k + 1 + j <= k + 1) /\ (k + 1 + j) - (k + 1) = j
    BY <1>1
  <2> QED BY <1>4, <2>1
<1> HIDE DEF w
<1>8. PICK g : PartsOf(g, u, token) /\ SplitAt(u, token) = g[k]
  BY <1>1, SplitAtIs
<1>9. PICK h : PartsOf(h, w, token) /\ SplitAt(w, token) = h[Len(w)]
  <2>1. Len(w) \in Nat
    BY <1>4, LenProperties
  <2> QED BY <2>1, SplitAtIs
<1>10. h[k] = g[k]
  <2> DEFINE S == { n \in Nat : h[n] = g[n] }
  <2>1. 0 \in S
    BY <1>8, <1>9 DEF PartsOf
  <2>2. ASSUME NEW n \in 1 .. k, n - 1 \in S PROVE n \in S
    <3>1. n \in 1 .. Len(w)
      BY <1>1, <1>4
    <3>2. h[n] = Cutting(h[n - 1], w[n], token)
      BY <1>9, <3>1 DEF PartsOf
    <3>3. g[n] = Cutting(g[n - 1], u[n], token)
      BY <1>8 DEF PartsOf
    <3> QED BY <1>5, <2>2, <3>2, <3>3
  <2>3. k \in 0 .. k
    BY <1>1
  <2> HIDE DEF S, k
  <2>4. k \in S
    BY <1>1, <2>1, <2>2, <2>3, StepByStep
  <2> QED BY <2>4 DEF S
<1>11. Parts(g[k], A, token)
  <2>1. k \in 0 .. Len(u)
    BY <1>1
  <2> QED BY <1>8, <2>1, PartsShape
<1>12. h[k + 1] = Append(g[k], <<>>)
  <2>1. k + 1 \in 1 .. Len(w) /\ (k + 1) - 1 = k
    BY <1>1, <1>4
  <2>2. h[k + 1] = Cutting(h[k], token, token)
    BY <1>6, <1>9, <2>1 DEF PartsOf
  <2> QED BY <1>10, <2>2 DEF Cutting
<1> DEFINE S == { j \in Nat : h[k + 1 + j] = Append(g[k], SubSeq(v, 1, j)) }
<1>13. 0 \in S
  <2>1. SubSeq(v, 1, 0) = <<>>
    BY SubSeqEmpty
  <2>2. k + 1 + 0 = k + 1
    BY <1>1
  <2> QED BY <1>12, <2>1, <2>2
<1>14. ASSUME NEW j \in 1 .. Len(v), j - 1 \in S PROVE j \in S
  <2>1. k + 1 + j \in 1 .. Len(w) /\ (k + 1 + j) - 1 = k + 1 + (j - 1)
    BY <1>1, <1>4
  <2>2. h[k + 1 + j] = Cutting(h[k + 1 + (j - 1)], v[j], token)
    BY <1>7, <1>9, <2>1 DEF PartsOf
  <2>3. h[k + 1 + (j - 1)] = Append(g[k], SubSeq(v, 1, j - 1))
    BY <1>14
  <2>4. g[k] \in Seq(Seq(B)) /\ token \notin B
    BY <1>11 DEF Parts
  <2> HIDE DEF B
  <2>5. Cutting(Append(g[k], SubSeq(v, 1, j - 1)), v[j], token) = Append(g[k], SubSeq(v, 1, j))
    <3>1. v \in Seq(B)
      BY DEF B
    <3> QED BY <2>4, <3>1, CuttingGrows
  <2> QED BY <2>2, <2>3, <2>5
<1>15. Len(v) \in S
  <2>1. Len(v) \in 0 .. Len(v)
    BY <1>1
  <2> HIDE DEF S
  <2> QED BY <1>1, <1>13, <1>14, <2>1, StepByStep
<1>16. SubSeq(v, 1, Len(v)) = v
  BY SubSeqFull
<1>17. SplitAt(w, token) = Append(g[k], v)
  BY <1>4, <1>9, <1>15, <1>16
<1> QED BY <1>8, <1>17 DEF w

(* Without keeps what is not skipped, and nothing else. *)
LEMMA WithoutShape ==
  ASSUME NEW E, NEW s \in Seq(E), NEW skipped
  PROVE  Without(s, skipped) \in Seq(E \ skipped)
<1>1. Len(s) \in Nat
  BY LenProperties
<1>2. PICK g : KeptOf(g, s, skipped) /\ Without(s, skipped) = g[Len(s)]
  BY <1>1, WithoutIs
<1> DEFINE S == { n \in Nat : g[n] \in Seq(E \ skipped) }
<1>3. 0 \in S
  BY <1>2, EmptySeq DEF KeptOf
<1>4. ASSUME NEW n \in 1 .. Len(s), n - 1 \in S PROVE n \in S
  <2>1. g[n] = Keeping(g[n - 1], s[n], skipped) /\ s[n] \in E
    BY <1>2, ElementOfSeq DEF KeptOf
  <2>2. CASE s[n] \in skipped
    BY <1>4, <2>1, <2>2 DEF Keeping
  <2>3. CASE s[n] \notin skipped
    <3>1. g[n - 1] \in Seq(E \ skipped) /\ s[n] \in E \ skipped
      BY <1>4, <2>1, <2>3
    <3>2. Append(g[n - 1], s[n]) \in Seq(E \ skipped)
      BY <3>1, AppendProperties
    <3>3. g[n] = Append(g[n - 1], s[n]) /\ n \in Nat
      BY <2>1, <2>3 DEF Keeping
    <3> QED BY <3>2, <3>3
  <2> QED BY <2>2, <2>3
<1>5. Len(s) \in S
  <2>1. Len(s) \in 0 .. Len(s)
    BY <1>1
  <2> HIDE DEF S
  <2> QED BY <1>1, <1>3, <1>4, <2>1, StepByStep
<1> QED BY <1>2, <1>5

LEMMA WithoutNothing ==
  ASSUME NEW E, NEW s \in Seq(E), NEW skipped, E \cap skipped = {}
  PROVE  Without(s, skipped) = s
<1>1. Len(s) \in Nat
  BY LenProperties
<1>2. PICK g : KeptOf(g, s, skipped) /\ Without(s, skipped) = g[Len(s)]
  BY <1>1, WithoutIs
<1> DEFINE S == { n \in Nat : g[n] = SubSeq(s, 1, n) }
<1>3. 0 \in S
  <2>1. SubSeq(s, 1, 0) = <<>>
    BY SubSeqEmpty
  <2> QED BY <1>2, <2>1 DEF KeptOf
<1>4. ASSUME NEW n \in 1 .. Len(s), n - 1 \in S PROVE n \in S
  <2>1. g[n] = Keeping(g[n - 1], s[n], skipped) /\ s[n] \notin skipped
    BY <1>2, ElementOfSeq DEF KeptOf
  <2>2. g[n] = Append(SubSeq(s, 1, n - 1), s[n])
    BY <1>4, <2>1 DEF Keeping
  <2> QED BY <2>2, AppendNext
<1>5. Len(s) \in S
  <2>1. Len(s) \in 0 .. Len(s)
    BY <1>1
  <2> HIDE DEF S
  <2> QED BY <1>1, <1>3, <1>4, <2>1, StepByStep
<1> QED BY <1>2, <1>5, SubSeqFull

LEMMA WithoutFirst ==
  ASSUME NEW E, NEW s \in Seq(E), s # <<>>, NEW skipped, s[1] \in skipped,
         \A i \in 2 .. Len(s) : s[i] \notin skipped
  PROVE  Without(s, skipped) = Tail(s)
<1>1. Len(s) \in Nat \ {0}
  BY EmptySeq
<1>2. PICK g : KeptOf(g, s, skipped) /\ Without(s, skipped) = g[Len(s)]
  BY <1>1, WithoutIs
<1> DEFINE t == Tail(s)
           S == { n \in Nat : n = 0 \/ g[n] = SubSeq(t, 1, n - 1) }
<1>3. t \in Seq(E) /\ Len(t) = Len(s) - 1 /\ \A i \in 1 .. Len(t) : t[i] = s[i + 1]
  BY HeadTailProperties
<1> HIDE DEF t
<1>4. ASSUME NEW n \in 1 .. Len(s), n - 1 \in S PROVE n \in S
  <2>1. g[n] = Keeping(g[n - 1], s[n], skipped)
    BY <1>2 DEF KeptOf
  <2>2. CASE n = 1
    <3>1. g[1] = <<>>
      BY <1>2, <2>1, <2>2 DEF KeptOf, Keeping
    <3>2. SubSeq(t, 1, 0) = <<>>
      BY SubSeqEmpty
    <3>3. n \in Nat /\ n - 1 = 0
      BY <2>2
    <3> QED BY <2>2, <3>1, <3>2, <3>3
  <2>3. CASE n # 1
    <3>1. n \in 2 .. Len(s) /\ n - 1 \in 1 .. Len(t) /\ n - 1 # 0
      BY <1>1, <1>3, <2>3
    <3>2. g[n] = Append(SubSeq(t, 1, (n - 1) - 1), s[n])
      BY <1>4, <2>1, <3>1 DEF Keeping
    <3>3. s[n] = t[n - 1]
      BY <1>3, <3>1
    <3>4. Append(SubSeq(t, 1, (n - 1) - 1), t[n - 1]) = SubSeq(t, 1, n - 1)
      BY <1>3, <3>1, AppendNext
    <3> QED BY <3>2, <3>3, <3>4
  <2> QED BY <2>2, <2>3
<1>5. Len(s) \in S
  <2>1. Len(s) \in 0 .. Len(s) /\ Len(s) \in Nat
    BY <1>1
  <2>2. 0 \in S
    OBVIOUS
  <2> HIDE DEF S
  <2> QED BY <1>4, <2>1, <2>2, StepByStep
<1>6. SubSeq(t, 1, Len(t)) = t
  BY <1>3, SubSeqFull
<1> QED BY <1>1, <1>2, <1>3, <1>5, <1>6 DEF t

(* Trim keeps what is between the blanks at both ends. *)
LEMMA TrimCore ==
  ASSUME NEW A, NEW x \in Seq(Blank), NEW y \in Seq(Blank), NEW core \in Seq(A), core # <<>>,
         core[1] \notin Blank, core[Len(core)] \notin Blank
  PROVE  Trim(x \o core \o y) = core
<1> DEFINE E == A \cup Blank
           text == x \o core \o y
           a == Len(x)
           b == Len(core)
           c == Len(y)
           solid == { i \in DOMAIN text : text[i] \notin Blank }
<1>1. a \in Nat /\ b \in Nat \ {0} /\ c \in Nat
  BY LenProperties, EmptySeq
<1>2. x \in Seq(E) /\ y \in Seq(E) /\ core \in Seq(E)
  BY SeqMonotonic
<1>3. /\ x \o core \in Seq(E)
      /\ Len(x \o core) = a + b
      /\ \A i \in 1 .. a + b : (x \o core)[i] = IF i <= a THEN x[i] ELSE core[i - a]
  BY <1>2, ConcatProperties
<1>4. /\ text \in Seq(E)
      /\ Len(text) = a + b + c
      /\ \A i \in 1 .. a + b + c : text[i] = IF i <= a + b THEN (x \o core)[i] ELSE y[i - (a + b)]
  BY <1>2, <1>3, ConcatProperties
<1>5. DOMAIN text = 1 .. a + b + c
  BY <1>4, LenProperties
<1> HIDE DEF text
<1>6. \A i \in 1 .. a : text[i] \in Blank
  <2> TAKE i \in 1 .. a
  <2>1. text[i] = x[i]
    BY <1>1, <1>3, <1>4
  <2> QED BY <2>1, ElementOfSeq
<1>7. \A i \in 1 .. b : text[a + i] = core[i]
  <2> TAKE i \in 1 .. b
  <2>1. a + i \in 1 .. a + b /\ a + i \in 1 .. a + b + c /\ ~(a + i <= a) /\ (a + i) - a = i
    BY <1>1
  <2> QED BY <1>3, <1>4, <2>1
<1>8. \A i \in a + b + 1 .. a + b + c : text[i] \in Blank
  <2> TAKE i \in a + b + 1 .. a + b + c
  <2>1. i \in 1 .. a + b + c /\ ~(i <= a + b) /\ i - (a + b) \in 1 .. c
    BY <1>1
  <2>2. text[i] = y[i - (a + b)]
    BY <1>4, <2>1
  <2> QED BY <2>1, <2>2, ElementOfSeq
<1>9. text[a + 1] \notin Blank /\ text[a + b] \notin Blank
  <2>1. 1 \in 1 .. b /\ b \in 1 .. b
    BY <1>1
  <2> QED BY <1>7, <2>1
<1>10. a + 1 \in solid /\ a + b \in solid /\ \A i \in solid : a + 1 <= i /\ i <= a + b
  <2>1. a + 1 \in DOMAIN text /\ a + b \in DOMAIN text
    BY <1>1, <1>5
  <2>2. ASSUME NEW i \in solid PROVE a + 1 <= i /\ i <= a + b
    <3>1. i \in 1 .. a + b + c /\ text[i] \notin Blank
      BY <1>5
    <3>2. i \notin 1 .. a /\ i \notin a + b + 1 .. a + b + c
      BY <1>6, <1>8, <3>1
    <3> QED BY <1>1, <3>1, <3>2
  <2> QED BY <1>9, <2>1, <2>2
<1>11. solid \in SUBSET Int /\ solid # {}
  BY <1>1, <1>5, <1>10
<1>12. IsFiniteSet(solid)
  <2>1. IsFiniteSet(1 .. a + b + c)
    BY <1>1, FS_Interval
  <2>2. solid \in SUBSET (1 .. a + b + c)
    BY <1>5
  <2> HIDE DEF solid
  <2> QED BY <2>1, <2>2, FS_Subset
<1>13. Min(solid) = a + 1 /\ Max(solid) = a + b
  <2>1. Min(solid) \in solid /\ \A i \in solid : Min(solid) <= i
    <3> HIDE DEF solid
    <3> QED BY <1>11, <1>12, Least
  <2>2. Max(solid) \in solid /\ \A i \in solid : Max(solid) >= i
    <3> HIDE DEF solid
    <3> QED BY <1>11, <1>12, Greatest
  <2>3. Min(solid) \in Int /\ Max(solid) \in Int
    BY <1>11, <2>1, <2>2
  <2> HIDE DEF solid
  <2>4. Min(solid) = a + 1
    BY <1>1, <1>10, <2>1, <2>3
  <2>5. Max(solid) = a + b
    BY <1>1, <1>10, <2>2, <2>3
  <2> QED BY <2>4, <2>5
<1>14. Trim(text) = SubSeq(text, a + 1, a + b)
  <2>1. Trim(text) = SubSeq(text, Min(solid), Max(solid))
    BY <1>11 DEF Trim
  <2> QED BY <1>13, <2>1
<1>15. SubSeq(text, a + 1, a + b) = core
  <2>1. \A i \in a + 1 .. a + b : text[i] \in E
    <3>1. \A i \in a + 1 .. a + b : i \in 1 .. Len(text)
      BY <1>1, <1>4
    <3> QED BY <1>4, <3>1, ElementOfSeq
  <2>2. a + 1 \in Int /\ a + b \in Int /\ a + 1 <= a + b /\ (a + b) - (a + 1) + 1 = b
    BY <1>1
  <2> DEFINE s == SubSeq(text, a + 1, a + b)
  <2>3. /\ s \in Seq(E) /\ Len(s) = b
        /\ \A i \in 1 .. b : s[i] = text[(a + 1) + i - 1]
    BY <2>1, <2>2, SubSeqProperties
  <2>4. \A i \in 1 .. b : (a + 1) + i - 1 = a + i
    BY <1>1
  <2> HIDE DEF s
  <2>5. \A i \in 1 .. Len(s) : s[i] = core[i]
    BY <1>7, <2>3, <2>4
  <2>6. s = core
    BY <1>2, <2>3, <2>5, SeqEqual
  <2> QED BY <2>6 DEF s
<1> QED BY <1>14, <1>15 DEF text

LEMMA TrimTokens ==
  ASSUME NEW A, NEW text \in Seq(A)
  PROVE  Trim(text) \in Seq(A)
<1> DEFINE solid == { i \in DOMAIN text : text[i] \notin Blank }
<1>1. Len(text) \in Nat /\ DOMAIN text = 1 .. Len(text)
  BY LenProperties
<1>2. CASE solid = {}
  BY <1>2, EmptySeq DEF Trim
<1>3. CASE solid # {}
  <2>1. solid \in SUBSET (1 .. Len(text)) /\ solid \in SUBSET Int
    BY <1>1
  <2>2. IsFiniteSet(1 .. Len(text))
    BY <1>1, FS_Interval
  <2> HIDE DEF solid
  <2>3. IsFiniteSet(solid)
    BY <2>1, <2>2, FS_Subset
  <2>4. Min(solid) \in solid
    BY <1>3, <2>1, <2>3, Least
  <2>5. Max(solid) \in solid
    BY <1>3, <2>1, <2>3, Greatest
  <2>6. \A i \in Min(solid) .. Max(solid) : i \in 1 .. Len(text)
    <3>1. Min(solid) \in 1 .. Len(text) /\ Max(solid) \in 1 .. Len(text)
      BY <2>1, <2>4, <2>5
    <3> QED BY <1>1, <3>1
  <2>7. \A i \in Min(solid) .. Max(solid) : text[i] \in A
    BY <2>6, ElementOfSeq
  <2>8. SubSeq(text, Min(solid), Max(solid)) \in Seq(A)
    <3>1. Min(solid) \in Int /\ Max(solid) \in Int
      BY <2>1, <2>4, <2>5
    <3> QED BY <2>7, <3>1, SubSeqProperties
  <2> QED BY <1>3, <2>8 DEF Trim, solid
<1> QED BY <1>2, <1>3

LEMMA TrimNothing == Trim(<<>>) = <<>>
BY DEF Trim

(* What stands before each of the sequences that are made into one. *)
Befores(y, s, A) ==
  /\ y[1] = <<>>
  /\ \A i \in 1 .. Len(s) : y[i] \in Seq(A)
  /\ \A i \in 1 .. Len(s) - 1 : y[i + 1] = y[i] \o s[i]

LEMMA FlattenBefore ==
  ASSUME NEW A, NEW s, Len(s) \in Nat \ {0}, \A i \in 1 .. Len(s) : s[i] \in Seq(A)
  PROVE  \E y : Befores(y, s, A) /\ FlattenSeq(s) = y[Len(s)] \o s[Len(s)]
<1>1. PICK g : Joining(g, s, A) /\ FlattenSeq(s) = g[Len(s)]
  BY FlattenIs
<1> DEFINE k == Len(s)
           y == [i \in 1 .. k |-> IF i = 1 THEN <<>> ELSE g[i - 1]]
<1>2. 1 \in 1 .. k /\ k \in 1 .. k /\ k \in Nat
  OBVIOUS
<1>3. y[1] = <<>>
  BY <1>2
<1>4. ASSUME NEW i \in 1 .. k PROVE y[i] \in Seq(A)
  <2>1. CASE i = 1
    BY <2>1, EmptySeq
  <2>2. CASE i # 1
    <3>1. i - 1 \in 1 .. k
      BY <2>2
    <3>2. g[i - 1] \in Seq(A)
      BY <1>1, <3>1 DEF Joining
    <3> QED BY <2>2, <3>2
  <2> QED BY <2>1, <2>2
<1>5. ASSUME NEW i \in 1 .. k PROVE g[i] = y[i] \o s[i]
  <2>1. CASE i = 1
    <3>1. g[1] = s[1] /\ s[1] \in Seq(A)
      BY <1>1, <1>2 DEF Joining
    <3>2. <<>> \o s[1] = s[1]
      BY <3>1, ConcatEmptySeq
    <3> QED BY <1>3, <2>1, <3>1, <3>2
  <2>2. CASE i # 1
    <3>1. i \in 2 .. Len(s)
      BY <2>2
    <3>2. g[i] = g[i - 1] \o s[i]
      BY <1>1, <3>1 DEF Joining
    <3> QED BY <2>2, <3>2
  <2> QED BY <2>1, <2>2
<1>6. ASSUME NEW i \in 1 .. k - 1 PROVE y[i + 1] = y[i] \o s[i]
  <2>1. i \in 1 .. k /\ i + 1 \in 1 .. k /\ i + 1 # 1 /\ (i + 1) - 1 = i
    OBVIOUS
  <2>2. y[i + 1] = g[i]
    BY <2>1
  <2> QED BY <1>5, <2>1, <2>2
<1> HIDE DEF y
<1>7. Befores(y, s, A)
  BY <1>3, <1>4, <1>6 DEF Befores
<1> QED BY <1>1, <1>2, <1>5, <1>7

LEMMA FlattenNothing == FlattenSeq(<<>>) = <<>>
BY DEF FlattenSeq

(* A line without the spaces at its end. *)
Stripped(line) == SubSeq(line, 1, Max({ i \in DOMAIN line : line[i] # " " }))

LEMMA StrippedIs ==
  ASSUME NEW T, NEW line \in Seq(T), IsPlain(line)
  PROVE  /\ Stripped(line) \in Seq(T)
         /\ Len(Stripped(line)) \in 1 .. Len(line)
         /\ \A i \in 1 .. Len(Stripped(line)) : Stripped(line)[i] = line[i]
         /\ Stripped(line)[Len(Stripped(line))] # " "
         /\ \E e \in Seq(Blank) : line = Stripped(line) \o e
         /\ Last(line) # " " <=> Stripped(line) = line
         /\ IsPlain(Stripped(line))
<1> DEFINE solid == { i \in DOMAIN line : line[i] # " " }
<1>0. Len(line) \in Nat /\ DOMAIN line = 1 .. Len(line)
  BY LenProperties
<1>1. PICK k \in Nat : k = Len(line) /\ DOMAIN line = 1 .. k
  BY <1>0
<1>2. solid # {}
  BY DEF IsPlain, IsBlank
<1>3. solid \in SUBSET Int /\ solid \in SUBSET (1 .. k)
  <2>1. ASSUME NEW i \in solid PROVE i \in Int /\ i \in 1 .. k
    <3>1. i \in DOMAIN line
      OBVIOUS
    <3> HIDE DEF solid
    <3>2. i \in 1 .. k
      BY <1>1, <3>1
    <3> QED BY <3>2
  <2> HIDE DEF solid
  <2> QED BY <2>1
<1>4. IsFiniteSet(solid)
  <2>1. IsFiniteSet(1 .. k)
    BY <1>1, FS_Interval
  <2> HIDE DEF solid
  <2> QED BY <1>3, <2>1, FS_Subset
<1>5. PICK m \in Int : m = Max(solid) /\ m \in solid /\ \A i \in solid : m >= i
  <2> HIDE DEF solid
  <2> QED BY <1>2, <1>3, <1>4, Greatest
<1> DEFINE s == SubSeq(line, 1, m)
           e == SubSeq(line, m + 1, Len(line))
<1>6. m \in 1 .. k /\ m \in Int /\ k \in Nat
  BY <1>1, <1>3, <1>5
<1>16. line[m] # " "
  BY <1>5
<1>7. \A i \in m + 1 .. k : line[i] = " "
  <2> TAKE i \in m + 1 .. k
  <2>1. i \in 1 .. k /\ i \in Int /\ i > m
    BY <1>6
  <2>2. i \notin solid
    <3> HIDE DEF solid
    <3> QED BY <1>5, <2>1
  <2>3. i \in DOMAIN line
    BY <1>1, <2>1
  <2> QED BY <2>2, <2>3
<1>8. \A i \in 1 .. k : line[i] \in T
  BY <1>1, ElementOfSeq
<1> HIDE DEF solid
<1>9. s \in Seq(T) /\ Len(s) = m /\ \A i \in 1 .. m : s[i] = line[i]
  <2>1. \A i \in 1 .. m : line[i] \in T
    BY <1>1, <1>6, <1>8
  <2>2. /\ 1 \in Int /\ m \in Int /\ 1 <= m /\ m - 1 + 1 = m
        /\ \A i \in 1 .. m : 1 + i - 1 = i
    BY <1>6
  <2> QED BY <2>1, <2>2, SubSeqProperties
<1>10. e \in Seq(Blank) /\ Len(e) = k - m /\ \A i \in 1 .. k - m : e[i] = line[m + i]
  <2>1. \A i \in m + 1 .. k : line[i] \in Blank
    BY <1>7 DEF Blank
  <2>2. /\ m + 1 \in Int /\ k \in Int
        /\ (IF m + 1 <= k THEN k - (m + 1) + 1 ELSE 0) = k - m
        /\ \A i \in 1 .. k - m : (m + 1) + i - 1 = m + i
    BY <1>1, <1>6
  <2>3. /\ e \in Seq(Blank)
        /\ Len(e) = IF m + 1 <= k THEN k - (m + 1) + 1 ELSE 0
        /\ \A i \in 1 .. Len(e) : e[i] = line[(m + 1) + i - 1]
    BY <1>1, <2>1, <2>2, SubSeqProperties
  <2> HIDE DEF e
  <2> QED BY <2>2, <2>3
<1>11. Stripped(line) = s
  BY <1>5 DEF Stripped, solid
<1> HIDE DEF s, e
<1>12. line = s \o e
  <2> DEFINE E == T \cup Blank
  <2>1. s \in Seq(E) /\ e \in Seq(E) /\ line \in Seq(E)
    BY <1>9, <1>10, SeqMonotonic
  <2> HIDE DEF E
  <2>8. /\ s \o e \in Seq(E) /\ Len(s \o e) = Len(s) + Len(e)
        /\ \A i \in 1 .. Len(s) + Len(e) : (s \o e)[i] = IF i <= Len(s) THEN s[i] ELSE e[i - Len(s)]
    BY <2>1, ConcatProperties
  <2>2. /\ s \o e \in Seq(E) /\ Len(s \o e) = m + (k - m)
        /\ \A i \in 1 .. m + (k - m) : (s \o e)[i] = IF i <= m THEN s[i] ELSE e[i - m]
    BY <1>9, <1>10, <2>8
  <2>3. m + (k - m) = k
    BY <1>1, <1>6
  <2>4. ASSUME NEW i \in 1 .. k PROVE (s \o e)[i] = line[i]
    <3>1. CASE i <= m
      <4>1. i \in 1 .. m
        BY <3>1
      <4> QED BY <1>9, <2>2, <2>3, <3>1, <4>1
    <3>2. CASE ~(i <= m)
      <4>1. i - m \in 1 .. k - m /\ m + (i - m) = i
        BY <1>1, <1>6, <3>2
      <4> QED BY <1>10, <2>2, <2>3, <3>2, <4>1
    <3> QED BY <3>1, <3>2
  <2> DEFINE d == s \o e
  <2>5. d \in Seq(E) /\ Len(d) = k /\ \A i \in 1 .. k : d[i] = line[i]
    BY <2>2, <2>3, <2>4
  <2> HIDE DEF d
  <2>6. Len(line) = k
    BY <1>1
  <2>7. d = line
    BY <2>1, <2>5, <2>6, SeqEqual
  <2> QED BY <2>7 DEF d
<1>13. IsPlain(s)
  <2>1. DOMAIN s = 1 .. m
    BY <1>9, LenProperties
  <2>2. m \in 1 .. m /\ \A i \in 1 .. m : i \in DOMAIN line
    BY <1>1, <1>6
  <2>3. ~IsBlank(s)
    BY <1>9, <1>16, <2>1, <2>2 DEF IsBlank
  <2>6. \A i \in 1 .. m : \A j \in 1 .. i - 1 : j \in 1 .. m
    BY <1>6
  <2>4. ~IsComment(s)
    <3> SUFFICES ASSUME NEW i \in 1 .. m, s[i] = "#", \A j \in 1 .. i - 1 : s[j] = " "
                 PROVE  FALSE
      BY <2>1 DEF IsComment
    <3>1. \A j \in 1 .. i - 1 : j \in 1 .. m
      BY <2>6
    <3>2. line[i] = "#" /\ \A j \in 1 .. i - 1 : line[j] = " "
      BY <1>9, <3>1
    <3> QED BY <2>2, <3>2 DEF IsComment, IsPlain
  <2> QED BY <1>9, <2>1, <2>2, <2>3, <2>4 DEF IsPlain
<1>14. Last(line) # " " <=> s = line
  <2>1. Last(line) = line[k]
    BY <1>1 DEF Last
  <2>2. ASSUME s = line PROVE line[k] # " "
    <3>1. m \in 1 .. m /\ m = k
      BY <1>1, <1>6, <1>9, <2>2
    <3> QED BY <1>16, <3>1
  <2>3. ASSUME line[k] # " " PROVE s = line
    <3>1. m = k
      <4>1. k \in m + 1 .. k \/ m = k
        BY <1>1, <1>6
      <4> QED BY <1>7, <2>3, <4>1
    <3> QED BY <1>1, <1>9, <3>1, SeqEqual
  <2> QED BY <2>1, <2>2, <2>3
<1>15. Len(s) \in 1 .. Len(line) /\ s[Len(s)] = line[m]
  BY <1>1, <1>6, <1>9
<1> QED BY <1>9, <1>10, <1>11, <1>12, <1>13, <1>14, <1>15, <1>16

(* The lines of a document, as they are read: no spaces at their end. *)
Clean(lines) == Append(Front(lines), Stripped(Last(lines)))

(* Lines as a resource of words of T has them, all plain. *)
PlainLines(lines, T) ==
  /\ lines \in Seq(Seq(T)) /\ lines # <<>> /\ lines[1] = <<"kind">>
  /\ \A i \in 1 .. Len(lines) : IsPlain(lines[i])

LEMMA CleanIs ==
  ASSUME NEW T, NEW lines, PlainLines(lines, T)
  PROVE  /\ Clean(lines) \in Seq(Seq(T))
         /\ Len(Clean(lines)) = Len(lines)
         /\ Len(lines) \in Nat \ {0}
         /\ \A i \in 1 .. Len(lines) : IsPlain(Clean(lines)[i])
         /\ Clean(lines)[1] = <<"kind">>
         /\ Clean(lines) = lines <=> Last(Last(lines)) # " "
<1> DEFINE k == Len(lines)
           f == Front(lines)
           v == Stripped(Last(lines))
           c == Clean(lines)
<1>1. lines \in Seq(Seq(T)) /\ lines # <<>>
  BY DEF PlainLines
<1>2. k \in Nat \ {0}
  BY <1>1, EmptySeq
<1>3. f \in Seq(Seq(T)) /\ Len(f) = k - 1 /\ \A i \in 1 .. k - 1 : f[i] = lines[i]
  BY <1>1, FrontShape
<1>4. k \in 1 .. k /\ 1 \in 1 .. k
  BY <1>2
<1>5. Last(lines) = lines[k] /\ lines[k] \in Seq(T) /\ IsPlain(lines[k])
  BY <1>1, <1>4, ElementOfSeq DEF Last, PlainLines
<1>6. /\ v \in Seq(T) /\ IsPlain(v)
      /\ Last(lines[k]) # " " <=> v = lines[k]
  BY <1>5, StrippedIs
<1>7. Clean(lines) = Append(f, v)
  BY DEF Clean
<1> HIDE DEF f, v
<1>15. v \in Seq(T) /\ f \in Seq(Seq(T))
  BY <1>3, <1>6
<1>16. /\ Append(f, v) \in Seq(Seq(T))
       /\ Len(Append(f, v)) = Len(f) + 1
       /\ \A i \in 1 .. Len(f) : Append(f, v)[i] = f[i]
       /\ Append(f, v)[Len(f) + 1] = v
  BY <1>15, AppendProperties
<1>8. /\ Append(f, v) \in Seq(Seq(T))
      /\ Len(Append(f, v)) = (k - 1) + 1
      /\ \A i \in 1 .. k - 1 : Append(f, v)[i] = f[i]
      /\ Append(f, v)[(k - 1) + 1] = v
  BY <1>3, <1>16
<1>9. (k - 1) + 1 = k
  BY <1>2
<1>10. c \in Seq(Seq(T)) /\ Len(c) = k /\ (\A i \in 1 .. k - 1 : c[i] = lines[i]) /\ c[k] = v
  BY <1>3, <1>7, <1>8, <1>9
<1> HIDE DEF c
<1>11. \A i \in 1 .. k : i \in 1 .. k - 1 \/ i = k
  BY <1>2
<1>12. \A i \in 1 .. k : IsPlain(c[i])
  <2> TAKE i \in 1 .. k
  <2>1. CASE i \in 1 .. k - 1
    BY <1>10, <2>1 DEF PlainLines
  <2>2. CASE i = k
    BY <1>6, <1>10, <2>2
  <2> QED BY <1>11, <2>1, <2>2
<1>13. c = lines <=> v = lines[k]
  <2>1. ASSUME v = lines[k] PROVE c = lines
    <3>1. \A i \in 1 .. k : c[i] = lines[i]
      BY <1>10, <1>11, <2>1
    <3> HIDE DEF k
    <3>2. Len(lines) = k
      BY DEF k
    <3> QED BY <1>1, <1>10, <3>1, <3>2, SeqEqual
  <2>2. ASSUME c = lines PROVE v = lines[k]
    BY <1>10, <2>2
  <2> QED BY <2>1, <2>2
<1>14. c[1] = <<"kind">>
  <2>1. lines[1] = <<"kind">>
    BY DEF PlainLines
  <2>2. CASE 1 \in 1 .. k - 1
    BY <1>10, <2>1, <2>2
  <2>3. CASE 1 = k
    <3>1. Last(<<"kind">>) = "kind"
      BY DEF Last
    <3>2. Last(lines[k]) # " "
      BY <2>1, <2>3, <3>1
    <3> QED BY <1>6, <1>13, <2>1, <3>2
  <2> QED BY <1>4, <1>11, <2>2, <2>3
<1> QED BY <1>2, <1>5, <1>6, <1>10, <1>12, <1>13, <1>14 DEF c

(* What is written of plain lines, up to the spaces and line ends after it,   *)
(* is one part per line.                                                    *)
Core(core, e, lines, B) ==
  /\ core \in Seq(B) /\ e \in Seq(Blank) /\ Written(lines) = core \o e
  /\ core # <<>> /\ core[1] \notin Blank /\ core[Len(core)] \notin Blank
  /\ SplitAt(core, Newline) = Clean(lines)

LEMMA PlainTokens ==
  ASSUME NEW T, NEW line \in Seq(T), IsPlain(line)
  PROVE  line \in Seq(T \ {Separator})
<1>1. Len(line) \in Nat /\ DOMAIN line = 1 .. Len(line)
  BY LenProperties
<1>2. \A i \in 1 .. Len(line) : line[i] \in T
  BY ElementOfSeq
<1>3. \A i \in 1 .. Len(line) : line[i] # Separator
  BY <1>1 DEF IsPlain
<1>4. \A i \in 1 .. Len(line) : line[i] \in T \ {Separator}
  BY <1>2, <1>3
<1>5. line = [i \in 1 .. Len(line) |-> line[i]]
  BY LenProperties
<1>6. [i \in 1 .. Len(line) |-> line[i]] \in Seq(T \ {Separator})
  BY <1>1, <1>4, IsASeq
<1> QED BY <1>5, <1>6

LEMMA TwoTokens ==
  ASSUME NEW a, NEW b
  PROVE  <<a>> \o <<b>> = <<a, b>>
<1>1. PICK S : a \in S /\ b \in S
  <2>1. a \in {a, b} /\ b \in {a, b}
    OBVIOUS
  <2> QED BY <2>1
<1>9. <<a>> \in Seq(S) /\ <<b>> \in Seq(S) /\ <<a, b>> \in Seq(S)
  BY <1>1
<1>2. PICK p \in Seq(S), q \in Seq(S) : p = <<a>> /\ q = <<b>>
  BY <1>9
<1>3. PICK r \in Seq(S) : r = <<a, b>>
  BY <1>9
<1>4. /\ p \o q \in Seq(S)
      /\ Len(p \o q) = Len(p) + Len(q)
      /\ \A i \in 1 .. Len(p) + Len(q) : (p \o q)[i] = IF i <= Len(p) THEN p[i] ELSE q[i - Len(p)]
  BY ConcatProperties
<1>5. Len(p) = 1 /\ Len(q) = 1 /\ Len(r) = 2 /\ p[1] = a /\ q[1] = b /\ r[1] = a /\ r[2] = b
  BY <1>2, <1>3
<1>6. Len(p \o q) = 2 /\ (p \o q)[1] = a /\ (p \o q)[2] = b
  BY <1>4, <1>5
<1>7. \A i \in 1 .. 2 : (p \o q)[i] = r[i]
  BY <1>5, <1>6
<1>8. p \o q = r
  BY <1>4, <1>5, <1>6, <1>7, SeqEqual
<1> QED BY <1>2, <1>3, <1>8

LEMMA WrittenCore ==
  ASSUME NEW T, Newline \notin T, NEW lines, PlainLines(lines, T)
  PROVE  \E core, e : Core(core, e, lines, (T \cup Blank) \ {Separator})
<1> DEFINE B == (T \cup Blank) \ {Separator}
           W == B \ {Newline}
           s == [i \in DOMAIN lines |-> lines[i] \o <<Newline>>]
<1>1. PICK k \in Nat \ {0} : k = Len(lines) /\ DOMAIN lines = 1 .. k
  <2>1. lines \in Seq(Seq(T)) /\ lines # <<>>
    BY DEF PlainLines
  <2> QED BY <2>1, EmptySeq, LenProperties
<1>2. T \ {Separator} \subseteq W /\ W \subseteq B /\ Newline \in B
  BY DEF Blank, Newline, Separator
<1>3. ASSUME NEW i \in 1 .. k
      PROVE  lines[i] \in Seq(T) /\ lines[i] \in Seq(W) /\ lines[i] \in Seq(B) /\ IsPlain(lines[i])
  <2>1. lines[i] \in Seq(T) /\ IsPlain(lines[i])
    BY <1>1, ElementOfSeq DEF PlainLines
  <2>2. lines[i] \in Seq(T \ {Separator})
    BY <2>1, PlainTokens
  <2>3. lines[i] \in Seq(W)
    BY <1>2, <2>2, SeqMonotonic
  <2>4. lines[i] \in Seq(B)
    BY <1>2, <2>3, SeqMonotonic
  <2> QED BY <2>1, <2>3, <2>4
<1> HIDE DEF B, W
<1>4. /\ s = [i \in 1 .. k |-> lines[i] \o <<Newline>>]
      /\ <<Newline>> \in Seq(B)
  BY <1>1, <1>2
<1>5. /\ Len(s) = k
      /\ \A i \in 1 .. k : s[i] = lines[i] \o <<Newline>> /\ s[i] \in Seq(B)
  <2>1. \A i \in 1 .. k : lines[i] \o <<Newline>> \in Seq(B)
    BY <1>3, <1>4, ConcatProperties
  <2>2. Len([i \in 1 .. k |-> lines[i] \o <<Newline>>]) = k
    OBVIOUS
  <2> QED BY <1>4, <2>1, <2>2
<1>6. Written(lines) = FlattenSeq(s)
  BY DEF Written
<1> HIDE DEF s
<1>7. PICK y : Befores(y, s, B) /\ FlattenSeq(s) = y[k] \o s[k]
  BY <1>5, FlattenBefore
<1>8. /\ y[1] = <<>>
      /\ \A i \in 1 .. k : y[i] \in Seq(B)
      /\ \A i \in 1 .. k - 1 : y[i + 1] = y[i] \o s[i]
  BY <1>5, <1>7 DEF Befores
(* Every line is a part. *)
<1> DEFINE G(n) == \A v \in Seq(W) : SplitAt(y[n] \o v, Newline) = Append(SubSeq(lines, 1, n - 1), v)
           S == { m \in Nat : m = 0 \/ G(m) }
<1>9. ASSUME NEW m \in 1 .. k, m - 1 \in S PROVE m \in S
  <2> SUFFICES ASSUME NEW v \in Seq(W)
               PROVE  SplitAt(y[m] \o v, Newline) = Append(SubSeq(lines, 1, m - 1), v)
    OBVIOUS
  <2>1. v \in Seq(B)
    BY <1>2, SeqMonotonic
  <2>2. CASE m = 1
    <3>1. y[m] \o v = v
      BY <1>8, <2>1, <2>2, ConcatEmptySeq
    <3>2. SplitAt(v, Newline) = <<v>>
      <4>1. Newline \notin W
        BY DEF W
      <4> QED BY <4>1, SplitWhole
    <3>3. PICK P \in Seq(Seq(W)) : P = <<>>
      BY EmptySeq
    <3>4. SubSeq(lines, 1, m - 1) = P
      <4>1. SubSeq(lines, 1, 0) = <<>>
        BY SubSeqEmpty
      <4> QED BY <2>2, <3>3, <4>1
    <3>5. Append(P, v) = <<v>>
      BY <3>3
    <3> QED BY <3>1, <3>2, <3>4, <3>5
  <2>3. CASE m # 1
    <3>1. PICK n \in 1 .. k - 1 : m = n + 1 /\ m - 1 = n /\ n # 0
      BY <1>1, <2>3
    <3>2. n \in 1 .. k
      BY <3>1
    <3> DEFINE l == lines[n]
    <3>3. l \in Seq(W) /\ l \in Seq(B)
      BY <1>3, <3>2
    <3>4. y[n] \in Seq(B) /\ y[m] = y[n] \o (l \o <<Newline>>)
      BY <1>5, <1>8, <3>1, <3>2
    <3>5. SplitAt(y[n] \o l, Newline) = Append(SubSeq(lines, 1, n - 1), l)
      BY <1>9, <3>1, <3>3
    <3> HIDE DEF l
    <3>10. PICK q \in Seq(B) : q = <<Newline>>
      BY <1>4
    <3>12. PICK p \in Seq(B) : p = y[n]
      BY <3>4
    <3>13. p \o (l \o q) = (p \o l) \o q
      BY <3>3, ConcatAssociative
    <3>11. y[n] \o (l \o q) = (y[n] \o l) \o q
      BY <3>12, <3>13
    <3>6. y[n] \o (l \o <<Newline>>) = (y[n] \o l) \o <<Newline>>
      BY <3>10, <3>11
    <3> DEFINE u == y[n] \o l
    <3>7. u \in Seq(B)
      BY <3>3, <3>4, ConcatProperties
    <3> HIDE DEF u
    <3>8. SplitAt(u \o <<Newline>> \o v, Newline) = Append(SplitAt(u, Newline), v)
      BY <1>2, <3>7, SplitLast DEF W
    <3>9. Append(SubSeq(lines, 1, n - 1), l) = SubSeq(lines, 1, n)
      BY <1>1, <3>2, AppendNext DEF l, PlainLines
    <3> QED BY <3>1, <3>4, <3>5, <3>6, <3>8, <3>9 DEF u
  <2> QED BY <2>2, <2>3
<1>10. G(k)
  <2>1. k \in 0 .. k /\ k \in Nat /\ k # 0
    BY <1>1
  <2>2. 0 \in S
    OBVIOUS
  <2> HIDE DEF S
  <2>3. k \in S
    BY <1>9, <2>1, <2>2, StepByStep
  <2> QED BY <2>1, <2>3 DEF S
(* The text begins with the first line. *)
<1> DEFINE H == { m \in Nat : m \in {0, 1} \/ (y[m] # <<>> /\ y[m][1] = "kind") }
<1>11. ASSUME NEW m \in 1 .. k, m - 1 \in H PROVE m \in H
  <2>1. CASE m = 1
    BY <2>1
  <2>2. CASE m # 1
    <3>1. PICK n \in 1 .. k - 1 : m = n + 1 /\ m - 1 = n /\ n # 0
      BY <1>1, <2>2
    <3>2. n \in 1 .. k /\ 1 \in 1 .. k
      BY <3>1
    <3>3. y[n] \in Seq(B) /\ s[n] \in Seq(B) /\ y[m] = y[n] \o s[n]
      BY <1>5, <1>8, <3>1, <3>2
    <3>4. CASE n = 1
      <4>1. y[m] = s[1]
        BY <1>8, <3>3, <3>4, ConcatEmptySeq
      <4>2. s[1] = <<"kind">> \o <<Newline>>
        BY <1>5, <3>2 DEF PlainLines
      <4>3. s[1] = <<"kind", Newline>>
        BY <4>2, TwoTokens
      <4> QED BY <4>1, <4>3
    <3>5. CASE n # 1
      <4>1. y[n] # <<>> /\ y[n][1] = "kind"
        BY <1>11, <3>1, <3>5
      <4>2. PICK p \in Seq(B), q \in Seq(B) : p = y[n] /\ q = s[n]
        BY <3>3
      <4>3. Len(p) \in Nat \ {0} /\ Len(q) \in Nat
        BY <4>1, <4>2, EmptySeq, LenProperties
      <4>4. /\ Len(p \o q) = Len(p) + Len(q)
            /\ \A i \in 1 .. Len(p) + Len(q) : (p \o q)[i] = IF i <= Len(p) THEN p[i] ELSE q[i - Len(p)]
        BY ConcatProperties
      <4>5. 1 \in 1 .. Len(p) + Len(q) /\ 1 <= Len(p) /\ Len(p \o q) # 0
        BY <4>3, <4>4
      <4>6. (p \o q)[1] = p[1]
        BY <4>4, <4>5
      <4>7. p \o q # <<>>
        BY <4>5, EmptySeq
      <4>8. y[m] # <<>> /\ y[m][1] = "kind"
        BY <3>3, <4>1, <4>2, <4>6, <4>7
      <4> QED BY <4>8
    <3> QED BY <3>4, <3>5
  <2> QED BY <2>1, <2>2
<1>12. k = 1 \/ (y[k] # <<>> /\ y[k][1] = "kind")
  <2>1. k \in 0 .. k /\ k \in Nat /\ k # 0
    BY <1>1
  <2>2. 0 \in H
    OBVIOUS
  <2> HIDE DEF H
  <2>3. k \in H
    BY <1>11, <2>1, <2>2, StepByStep
  <2> QED BY <2>1, <2>3 DEF H
(* The spaces of the last line end the text. *)
<1>13. k \in 1 .. k /\ 1 \in 1 .. k
  BY <1>1
<1> DEFINE l == lines[k]
           v == Stripped(l)
<1>14. l \in Seq(W) /\ l \in Seq(B) /\ IsPlain(l)
  BY <1>3, <1>13
<1> HIDE DEF l
<1>15. PICK e \in Seq(Blank) : l = v \o e
  BY <1>14, StrippedIs
<1>16. /\ v \in Seq(W) /\ v \in Seq(B)
       /\ Len(v) \in 1 .. Len(l)
       /\ \A i \in 1 .. Len(v) : v[i] = l[i]
  BY <1>14, StrippedIs
<1>17. v[Len(v)] \in W /\ v[Len(v)] # " "
  <2>1. v[Len(v)] # " "
    BY <1>14, StrippedIs
  <2>2. Len(v) \in 1 .. Len(v)
    BY <1>16
  <2> QED BY <1>16, <2>1, <2>2, ElementOfSeq
<1> HIDE DEF v
<1> DEFINE core == y[k] \o v
<1>18. y[k] \in Seq(B)
  BY <1>8, <1>13
<1>19. core \in Seq(B)
  BY <1>16, <1>18, ConcatProperties
<1>20. e \o <<Newline>> \in Seq(Blank)
  <2>1. <<Newline>> \in Seq(Blank)
    <3>1. Newline \in Blank
      BY DEF Blank
    <3> QED BY <3>1
  <2> QED BY <2>1, ConcatProperties
<1>21. Written(lines) = core \o (e \o <<Newline>>)
  <2> DEFINE D == B \cup Blank
  <2>1. /\ y[k] \in Seq(D) /\ v \in Seq(D) /\ e \in Seq(D) /\ <<Newline>> \in Seq(D)
        /\ core \in Seq(D)
    <3>1. <<Newline>> \in Seq(B)
      BY <1>4
    <3> QED BY <1>16, <1>18, <1>19, <3>1, SeqMonotonic
  <2> HIDE DEF D
  <2>2. Written(lines) = y[k] \o ((v \o e) \o <<Newline>>)
    BY <1>5, <1>6, <1>7, <1>13, <1>15 DEF l
  <2>3. (v \o e) \o <<Newline>> = v \o (e \o <<Newline>>)
    BY <2>1
  <2>4. e \o <<Newline>> \in Seq(D)
    BY <2>1, ConcatProperties
  <2>6. PICK p \in Seq(D), q \in Seq(D) : p = y[k] /\ q = e \o <<Newline>>
    BY <2>1, <2>4
  <2>7. p \o (v \o q) = (p \o v) \o q
    BY <2>1
  <2>5. y[k] \o (v \o (e \o <<Newline>>)) = (y[k] \o v) \o (e \o <<Newline>>)
    BY <2>6, <2>7
  <2> QED BY <2>2, <2>3, <2>5
<1>22. SplitAt(core, Newline) = Clean(lines)
  <2>1. SplitAt(core, Newline) = Append(SubSeq(lines, 1, k - 1), v)
    BY <1>10, <1>16
  <2>2. SubSeq(lines, 1, k - 1) = Front(lines)
    BY <1>1 DEF Front
  <2>3. v = Stripped(Last(lines))
    BY <1>1 DEF v, l, Last
  <2> QED BY <2>1, <2>2, <2>3 DEF Clean
<1>23. PICK a \in Nat, b \in Nat \ {0} : a = Len(y[k]) /\ b = Len(v)
  <2>1. Len(y[k]) \in Nat
    BY <1>18, LenProperties
  <2>2. Len(v) \in Nat \ {0}
    BY <1>16
  <2> QED BY <2>1, <2>2
<1>24. /\ Len(core) = a + b
       /\ \A i \in 1 .. a + b : core[i] = IF i <= a THEN y[k][i] ELSE v[i - a]
  BY <1>16, <1>18, <1>23, ConcatProperties
<1> HIDE DEF core
<1>25. core # <<>>
  <2>1. Len(core) # 0
    BY <1>23, <1>24
  <2> QED BY <2>1, EmptySeq
<1>26. core[Len(core)] \notin Blank
  <2>1. a + b \in 1 .. a + b /\ ~(a + b <= a) /\ (a + b) - a = b
    BY <1>23
  <2>2. core[Len(core)] = v[Len(v)]
    BY <1>23, <1>24, <2>1
  <2> QED BY <1>17, <2>2 DEF W, Blank
<1>27. core[1] = "kind"
  <2>1. CASE k = 1
    <3>1. a = 0
      BY <1>8, <1>23, <2>1, EmptySeq
    <3>2. 1 \in 1 .. a + b /\ ~(1 <= a) /\ 1 - a = 1
      BY <1>23, <3>1
    <3>3. core[1] = v[1]
      BY <1>24, <3>2
    <3>4. v[1] = l[1]
      <4>1. 1 \in 1 .. Len(v)
        BY <1>16
      <4> QED BY <1>16, <4>1
    <3>5. l[1] = "kind"
      BY <2>1 DEF l, PlainLines
    <3> QED BY <3>3, <3>4, <3>5
  <2>2. CASE k # 1
    <3>1. y[k] # <<>> /\ y[k][1] = "kind"
      BY <1>12, <2>2
    <3>2. a # 0
      BY <1>18, <1>23, <3>1, EmptySeq
    <3>3. 1 \in 1 .. a + b /\ 1 <= a
      BY <1>23, <3>2
    <3> QED BY <1>24, <3>1, <3>3
  <2> QED BY <2>1, <2>2
<1>28. core[1] \notin Blank
  BY <1>27 DEF Blank, Newline
<1>29. Core(core, e \o <<Newline>>, lines, B)
  BY <1>19, <1>20, <1>21, <1>22, <1>25, <1>26, <1>28 DEF Core
<1> QED BY <1>29 DEF B

LEMMA OverItsRange ==
  ASSUME NEW E, NEW s \in Seq(E)
  PROVE  s \in Seq(Range(s))
<1>1. Len(s) \in Nat /\ DOMAIN s = 1 .. Len(s) /\ s = [i \in 1 .. Len(s) |-> s[i]]
  BY LenProperties
<1>3. \A i \in 1 .. Len(s) : s[i] \in Range(s)
  BY <1>1 DEF Range
<1>4. [i \in 1 .. Len(s) |-> s[i]] \in Seq(Range(s))
  BY <1>1, <1>3, IsASeq
<1>5. s \in Seq(Range(s))
  BY <1>1, <1>4
<1> QED BY <1>5

(* A document is read as its lines, whatever blanks are around it. *)
LEMMA DocumentIs ==
  ASSUME NEW T, NEW lines, PlainLines(lines, T), NEW B, NEW core, NEW e, Core(core, e, lines, B),
         NEW x \in Seq(Blank), NEW y \in Seq(Blank)
  PROVE  DocumentLines(x \o core \o y) = Clean(lines)
<1> DEFINE c == Clean(lines)
           skipped == { l \in Range(c) : IsComment(l) \/ IsBlank(l) }
<1>1. Trim(x \o core \o y) = core
  BY TrimCore DEF Core
<1>2. SplitAt(core, Newline) = c
  BY DEF Core
<1>3. c \in Seq(Seq(T)) /\ \A i \in 1 .. Len(c) : IsPlain(c[i])
  BY CleanIs
<1> HIDE DEF c
<1>4. c \in Seq(Range(c)) /\ \A l \in Range(c) : IsPlain(l)
  <2>1. c \in Seq(Range(c))
    BY <1>3, OverItsRange
  <2>2. DOMAIN c = 1 .. Len(c)
    BY <1>3, LenProperties
  <2>3. \A l \in Range(c) : IsPlain(l)
    BY <1>3, <2>2 DEF Range
  <2> QED BY <2>1, <2>3
<1>5. Range(c) \cap skipped = {}
  BY <1>4 DEF IsPlain
<1>6. Without(c, skipped) = c
  <2> HIDE DEF skipped
  <2> QED BY <1>4, <1>5, WithoutNothing
<1> QED BY <1>1, <1>2, <1>6 DEF DocumentLines, c

(* A text without tokens is a document without lines. *)
LEMMA NoDocument == DocumentLines(<<>>) = <<>>
<1> DEFINE s == << <<>> >>
           skipped == { l \in Range(s) : IsComment(l) \/ IsBlank(l) }
<1>2. PICK v \in Seq({}) : v = <<>>
  BY EmptySeq
<1>1. SplitAt(<<>>, Newline) = s
  <2>1. SplitAt(v, Newline) = <<v>>
    BY SplitWhole
  <2> QED BY <1>2, <2>1
<1>3. s \in Seq(Seq({})) /\ s # <<>> /\ Len(s) = 1 /\ s[1] = <<>> /\ DOMAIN s = {1}
  <2>1. s = <<v>>
    BY <1>2
  <2> QED BY <1>2, <2>1
<1>4. <<>> \in Range(s)
  BY <1>3 DEF Range
<1>5. IsBlank(<<>>)
  <2>1. DOMAIN v = 1 .. Len(v) /\ Len(v) = 0
    BY <1>2, LenProperties, EmptySeq
  <2>2. DOMAIN v = {}
    BY <2>1
  <2>3. IsBlank(v)
    BY <2>2 DEF IsBlank
  <2> QED BY <1>2, <2>3
<1>6. s[1] \in skipped
  BY <1>3, <1>4, <1>5
<1>7. \A i \in 2 .. Len(s) : s[i] \notin skipped
  BY <1>3
<1>8. Without(s, skipped) = Tail(s)
  <2> HIDE DEF s, skipped
  <2> QED BY <1>3, <1>6, <1>7, WithoutFirst
<1>9. Tail(s) = <<>>
  OBVIOUS
<1> QED BY <1>1, <1>8, <1>9, TrimNothing DEF DocumentLines

(* Documents that are left when the empty first one is left out. *)
EmptyFirst(s, docs, n, E) ==
  /\ s = [j \in 1 .. n + 1 |-> IF j = 1 THEN <<>> ELSE docs[j - 1]]
  /\ \A i \in 1 .. n : docs[i] \in Seq(E) /\ docs[i] # <<>>

LEMMA DocumentsLeft ==
  ASSUME NEW n \in Nat, NEW s, NEW docs, NEW E, EmptyFirst(s, docs, n, E)
  PROVE  Without(s, {<<>>}) = [i \in 1 .. n |-> docs[i]]
<1>0. /\ s = [j \in 1 .. n + 1 |-> IF j = 1 THEN <<>> ELSE docs[j - 1]]
      /\ \A i \in 1 .. n : docs[i] \in Seq(E) /\ docs[i] # <<>>
  BY DEF EmptyFirst
<1> DEFINE doc(j) == IF j = 1 THEN <<>> ELSE docs[j - 1]
<1>1. \A j \in 1 .. n + 1 : doc(j) \in Seq(E)
  <2> TAKE j \in 1 .. n + 1
  <2>1. CASE j = 1
    BY <2>1, EmptySeq
  <2>2. CASE j # 1
    <3>1. j - 1 \in 1 .. n
      BY <2>2
    <3> QED BY <1>0, <2>2, <3>1
  <2> QED BY <2>1, <2>2
<1>2. n + 1 \in Nat /\ 1 \in 1 .. n + 1
  OBVIOUS
<1>3. s \in Seq(Seq(E))
  <2> HIDE DEF doc
  <2>1. [j \in 1 .. n + 1 |-> doc(j)] \in Seq(Seq(E))
    BY <1>1, <1>2, IsASeq
  <2> QED BY <1>0, <2>1 DEF doc
<1>4. Len(s) = n + 1
  BY <1>0
<1>5. s # <<>> /\ s[1] \in {<<>>}
  BY <1>0, <1>2, <1>3, <1>4, EmptySeq
<1>6. ASSUME NEW i \in 1 .. n PROVE s[i + 1] = docs[i]
  <2>1. i + 1 \in 1 .. n + 1 /\ i + 1 # 1 /\ (i + 1) - 1 = i
    OBVIOUS
  <2> QED BY <1>0, <2>1
<1>7. \A j \in 2 .. Len(s) : s[j] \notin {<<>>}
  <2> TAKE j \in 2 .. Len(s)
  <2>1. j - 1 \in 1 .. n /\ (j - 1) + 1 = j
    BY <1>4
  <2> QED BY <1>0, <1>6, <2>1
<1>8. Without(s, {<<>>}) = Tail(s)
  BY <1>3, <1>5, <1>7, WithoutFirst
<1>9. /\ Tail(s) \in Seq(Seq(E))
      /\ Len(Tail(s)) = n
      /\ \A i \in 1 .. n : Tail(s)[i] = s[i + 1]
  BY <1>3, <1>4, <1>5, HeadTailProperties
<1> DEFINE d == [i \in 1 .. n |-> docs[i]]
<1>10. d \in Seq(Seq(E))
  BY <1>0, IsASeq
<1>11. Len(d) = n /\ \A i \in 1 .. n : d[i] = docs[i]
  OBVIOUS
<1>12. Tail(s) = d
  <2> HIDE DEF d
  <2>1. \A i \in 1 .. Len(Tail(s)) : Tail(s)[i] = d[i]
    BY <1>6, <1>9, <1>11
  <2> QED BY <1>9, <1>10, <1>11, <2>1, SeqEqual
<1> QED BY <1>8, <1>12

LEMMA Ends ==
  ASSUME NEW A, NEW u \in Seq(A), NEW v \in Seq(A)
  PROVE  /\ u # <<>> => u \o v # <<>> /\ (u \o v)[1] = u[1]
         /\ v # <<>> => u \o v # <<>> /\ (u \o v)[Len(u \o v)] = v[Len(v)]
<1>1. PICK a \in Nat, b \in Nat : a = Len(u) /\ b = Len(v)
  <2>1. Len(u) \in Nat /\ Len(v) \in Nat
    BY LenProperties
  <2> QED BY <2>1
<1>2. /\ Len(u \o v) = a + b
      /\ \A i \in 1 .. a + b : (u \o v)[i] = IF i <= a THEN u[i] ELSE v[i - a]
  BY <1>1, ConcatProperties
<1>3. ASSUME u # <<>> PROVE u \o v # <<>> /\ (u \o v)[1] = u[1]
  <2>1. a # 0
    BY <1>1, <1>3, EmptySeq
  <2>2. 1 \in 1 .. a + b /\ 1 <= a /\ a + b # 0
    BY <2>1
  <2>3. (u \o v)[1] = u[1]
    BY <1>2, <2>2
  <2>4. u \o v # <<>>
    BY <1>2, <2>2, EmptySeq
  <2> QED BY <2>3, <2>4
<1>4. ASSUME v # <<>> PROVE u \o v # <<>> /\ (u \o v)[Len(u \o v)] = v[Len(v)]
  <2>1. b # 0
    BY <1>1, <1>4, EmptySeq
  <2>2. a + b \in 1 .. a + b /\ ~(a + b <= a) /\ (a + b) - a = b /\ a + b # 0
    BY <2>1
  <2>3. (u \o v)[a + b] = v[b]
    BY <1>2, <2>2
  <2>4. u \o v # <<>>
    BY <1>2, <2>2, EmptySeq
  <2> QED BY <1>1, <1>2, <2>3, <2>4
<1> QED BY <1>3, <1>4

Regrouped(y, g, a, b, w) == y \o ((g \o (a \o b)) \o w) = ((y \o g) \o a) \o (b \o w)

LEMMA Regroup ==
  ASSUME NEW A, NEW y \in Seq(A), NEW g \in Seq(A), NEW a \in Seq(A), NEW b \in Seq(A), NEW w \in Seq(A)
  PROVE  Regrouped(y, g, a, b, w)
<1>1. PICK ab \in Seq(A) : ab = a \o b
  BY ConcatProperties
<1>2. PICK bw \in Seq(A) : bw = b \o w
  BY ConcatProperties
<1>3. PICK abw \in Seq(A) : abw = ab \o w
  BY ConcatProperties
<1>4. PICK yg \in Seq(A) : yg = y \o g
  BY ConcatProperties
<1>5. (g \o ab) \o w = g \o abw
  BY <1>3
<1>6. y \o (g \o abw) = yg \o abw
  BY <1>4
<1>7. abw = a \o bw
  BY <1>1, <1>2, <1>3
<1>8. yg \o (a \o bw) = (yg \o a) \o bw
  OBVIOUS
<1> QED BY <1>1, <1>2, <1>4, <1>5, <1>6, <1>7, <1>8 DEF Regrouped

(* What is read of a text, given the documents it is split into. *)
Reads(parts, L, n, T) ==
  /\ DOMAIN parts = 1 .. n + 1 /\ DocumentLines(parts[1]) = <<>>
  /\ \A i \in 1 .. n : PlainLines(L[i], T) /\ DocumentLines(parts[i + 1]) = Clean(L[i])

LEMMA DecodeFrom ==
  ASSUME NEW T, NEW n \in Nat, NEW L, NEW text, NEW parts, parts = SplitAt(Trim(text), Separator),
         Reads(parts, L, n, T)
  PROVE  DecodeAllYAML(text) = [docs |-> [i \in 1 .. n |-> Clean(L[i])]]
<1> DEFINE docs == [i \in 1 .. n |-> Clean(L[i])]
           s == [j \in DOMAIN parts |-> DocumentLines(parts[j])]
<1>0. /\ DOMAIN parts = 1 .. n + 1 /\ DocumentLines(parts[1]) = <<>>
      /\ \A i \in 1 .. n : PlainLines(L[i], T) /\ DocumentLines(parts[i + 1]) = Clean(L[i])
  BY DEF Reads
<1>1. \A i \in 1 .. n : docs[i] \in Seq(Seq(T)) /\ docs[i] # <<>> /\ docs[i][1] = <<"kind">>
  <2> TAKE i \in 1 .. n
  <2>1. docs[i] = Clean(L[i])
    OBVIOUS
  <2>2. /\ Clean(L[i]) \in Seq(Seq(T)) /\ Clean(L[i])[1] = <<"kind">>
        /\ Len(Clean(L[i])) \in Nat \ {0}
    BY <1>0, CleanIs
  <2>3. Clean(L[i]) # <<>>
    BY <2>2, EmptySeq
  <2> HIDE DEF docs
  <2> QED BY <2>1, <2>2, <2>3
<1>2. s = [j \in 1 .. n + 1 |-> IF j = 1 THEN <<>> ELSE docs[j - 1]]
  <2>1. ASSUME NEW j \in 1 .. n + 1
        PROVE  DocumentLines(parts[j]) = IF j = 1 THEN <<>> ELSE docs[j - 1]
    <3>1. CASE j = 1
      BY <1>0, <3>1
    <3>2. CASE j # 1
      <4>1. PICK i \in 1 .. n : j = i + 1 /\ j - 1 = i
        BY <3>2
      <4>2. docs[i] = Clean(L[i])
        OBVIOUS
      <4> QED BY <1>0, <3>2, <4>1, <4>2
    <3> QED BY <3>1, <3>2
  <2> HIDE DEF docs
  <2> QED BY <1>0, <2>1
<1> HIDE DEF s
<1>3. Without(s, {<<>>}) = [i \in 1 .. n |-> docs[i]]
  <2>1. PICK q, d : q = s /\ d = docs
    OBVIOUS
  <2> HIDE DEF docs
  <2>2. EmptyFirst(q, d, n, Seq(T))
    BY <1>1, <1>2, <2>1 DEF EmptyFirst
  <2>3. Without(q, {<<>>}) = [i \in 1 .. n |-> d[i]]
    BY <2>2, DocumentsLeft
  <2> QED BY <2>1, <2>3
<1>4. Without(s, {<<>>}) = docs
  BY <1>3
<1>5. DOMAIN docs = 1 .. n
  OBVIOUS
<1> HIDE DEF docs
<1>6. \A i \in DOMAIN docs : DecodeYAML(docs[i]) = [lines |-> docs[i]]
  BY <1>1, <1>5 DEF DecodeYAML
<1>7. \A i \in DOMAIN docs : "error" \notin DOMAIN DecodeYAML(docs[i])
  BY <1>6
<1>8. DecodeAllYAML(text) = [docs |-> docs]
  BY <1>4, <1>7 DEF DecodeAllYAML, s
<1> QED BY <1>8 DEF docs

(* A list of resources of which every line is plain is read as their lines,    *)
(* but for the spaces at the end of each.                                   *)
LEMMA PlainListRead ==
  ASSUME NEW T, Newline \notin T, NEW n \in Nat, NEW L, \A i \in 1 .. n : PlainLines(L[i], T)
  PROVE  DecodeAllYAML(FlattenSeq([i \in 1 .. n |-> Document(i, Written(L[i]))]))
           = [docs |-> [i \in 1 .. n |-> Clean(L[i])]]
<1> DEFINE A == (T \cup Blank) \cup {Separator}
           B == (T \cup Blank) \ {Separator}
           s == [i \in 1 .. n |-> Document(i, Written(L[i]))]
<1>1. CASE n = 0
  <2>1. s = <<>>
    BY <1>1
  <2>2. FlattenSeq(s) = <<>>
    BY <2>1, FlattenNothing
  <2>3. PICK v \in Seq({}) : v = <<>>
    BY EmptySeq
  <2>7. SplitAt(v, Separator) = <<v>>
    BY SplitWhole
  <2>8. Trim(v) = v
    BY <2>3, TrimNothing
  <2>4. SplitAt(Trim(v), Separator) = <<v>>
    BY <2>7, <2>8
  <2>9. PICK parts : parts = <<v>>
    OBVIOUS
  <2>5. DOMAIN parts = 1 .. n + 1 /\ parts[1] = v /\ parts = SplitAt(Trim(v), Separator)
    BY <1>1, <2>4, <2>9
  <2>10. DocumentLines(parts[1]) = <<>>
    BY <2>3, <2>5, NoDocument
  <2>11. \A i \in 1 .. n : DocumentLines(parts[i + 1]) = Clean(L[i])
    BY <1>1
  <2>12. Reads(parts, L, n, T)
    BY <2>5, <2>10, <2>11 DEF Reads
  <2>6. DecodeAllYAML(v) = [docs |-> [i \in 1 .. n |-> Clean(L[i])]]
    BY <2>5, <2>12, DecodeFrom
  <2> QED BY <2>2, <2>3, <2>6
<1>2. CASE n # 0
  <2>1. A \ {Separator} = B /\ B \subseteq A /\ Separator \in A /\ Newline \in B /\ Blank \subseteq B
    BY DEF Blank, Newline, Separator
  <2>2. PICK a \in Seq(A), b \in Seq(A) : a = <<Separator>> /\ b = <<Newline>>
    <3>1. <<Separator>> \in Seq(A) /\ <<Newline>> \in Seq(A)
      BY <2>1
    <3> QED BY <3>1
  <2>3. b \in Seq(B) /\ b \in Seq(Blank)
    <3>1. Newline \in Blank
      BY DEF Blank
    <3>2. <<Newline>> \in Seq(B) /\ <<Newline>> \in Seq(Blank)
      BY <2>1, <3>1
    <3> QED BY <2>2, <3>2
  <2>4. a \o b = <<Separator, Newline>>
    BY <2>2, TwoTokens
  <2> HIDE DEF A, B
  <2> DEFINE w(i) == Written(L[i])
             g(i) == IF i = 1 THEN <<>> ELSE b
  <2>5. \A i \in 1 .. n : \E core, e : Core(core, e, L[i], B)
    BY WrittenCore DEF B
  <2>6. \A i \in 1 .. n : w(i) \in Seq(B) /\ w(i) \in Seq(A)
    <3> TAKE i \in 1 .. n
    <3>1. PICK core, e : Core(core, e, L[i], B)
      BY <2>5
    <3>2. core \in Seq(B) /\ e \in Seq(Blank) /\ w(i) = core \o e
      BY <3>1 DEF Core
    <3>3. e \in Seq(B)
      BY <2>1, <3>2, SeqMonotonic
    <3>4. w(i) \in Seq(B)
      BY <3>2, <3>3, ConcatProperties
    <3> HIDE DEF w
    <3> QED BY <2>1, <3>4, SeqMonotonic
  <2>7. \A i \in 1 .. n : s[i] = (g(i) \o (a \o b)) \o w(i)
    <3> TAKE i \in 1 .. n
    <3>1. s[i] = (IF i = 1 THEN <<>> ELSE <<Newline>>) \o <<Separator, Newline>> \o w(i)
      BY DEF Document
    <3> QED BY <2>2, <2>4, <3>1
  <2>8. \A i \in 1 .. n : g(i) \in Seq(A)
    BY EmptySeq
  <2> HIDE DEF w
  <2>9. \A i \in 1 .. n : s[i] \in Seq(A)
    <3> TAKE i \in 1 .. n
    <3>1. PICK x \in Seq(A), y \in Seq(A) : x = g(i) /\ y = w(i)
      BY <2>6, <2>8
    <3>2. (x \o (a \o b)) \o y \in Seq(A)
      BY ConcatProperties
    <3> QED BY <2>7, <3>1, <3>2
  <2>10. Len(s) = n
    OBVIOUS
  <2> HIDE DEF s, g
  <2>11. PICK y : Befores(y, s, A) /\ FlattenSeq(s) = y[n] \o s[n]
    BY <1>2, <2>9, <2>10, FlattenBefore
  <2>12. /\ y[1] = <<>>
         /\ \A i \in 1 .. n : y[i] \in Seq(A)
         /\ \A i \in 1 .. n - 1 : y[i + 1] = y[i] \o s[i]
    BY <2>10, <2>11 DEF Befores
  <2> DEFINE z(i) == y[i] \o g(i)
  <2>13. \A i \in 1 .. n : z(i) \in Seq(A) /\ y[i] \o s[i] = (z(i) \o a) \o (b \o w(i))
    <3> TAKE i \in 1 .. n
    <3>1. PICK yi \in Seq(A), gi \in Seq(A), wi \in Seq(A) : yi = y[i] /\ gi = g(i) /\ wi = w(i)
      BY <2>6, <2>8, <2>12
    <3>2. yi \o gi \in Seq(A)
      BY ConcatProperties
    <3>4. Regrouped(yi, gi, a, b, wi)
      BY Regroup
    <3>3. yi \o ((gi \o (a \o b)) \o wi) = ((yi \o gi) \o a) \o (b \o wi)
      BY <3>4 DEF Regrouped
    <3> QED BY <2>7, <3>1, <3>2, <3>3
  <2>14. \A i \in 1 .. n - 1 : z(i + 1) = (z(i) \o a) \o ((b \o w(i)) \o b)
    <3> TAKE i \in 1 .. n - 1
    <3>1. i \in 1 .. n /\ i + 1 # 1
      OBVIOUS
    <3>2. g(i + 1) = b
      BY <3>1 DEF g
    <3>3. y[i + 1] = (z(i) \o a) \o (b \o w(i))
      BY <2>12, <2>13, <3>1
    <3>4. PICK u \in Seq(A), v \in Seq(A) : u = z(i) \o a /\ v = b \o w(i)
      <4>1. z(i) \o a \in Seq(A) /\ b \o w(i) \in Seq(A)
        BY <2>6, <2>13, <3>1, ConcatProperties
      <4> QED BY <4>1
    <3>5. (u \o v) \o b = u \o (v \o b)
      BY ConcatAssociative
    <3> QED BY <3>2, <3>3, <3>4, <3>5
  <2>15. z(1) = <<>>
    BY <2>12, EmptySeq, ConcatEmptySeq DEF g
  <2> HIDE DEF z
  (* The documents before the last. *)
  <2> DEFINE d(j) == IF j = 1 THEN <<>> ELSE (b \o w(j - 1)) \o b
             D == [j \in 1 .. n |-> d(j)]
  <2>16. \A j \in 1 .. n : d(j) \in Seq(B)
    <3> TAKE j \in 1 .. n
    <3>1. CASE j = 1
      BY <3>1, EmptySeq
    <3>2. CASE j # 1
      <4>1. j - 1 \in 1 .. n
        BY <3>2
      <4>2. w(j - 1) \in Seq(B)
        BY <2>6, <4>1
      <4>3. (b \o w(j - 1)) \o b \in Seq(B)
        BY <2>3, <4>2, ConcatProperties
      <4> QED BY <3>2, <4>3
    <3> QED BY <3>1, <3>2
  <2>17. d(1) = <<>> /\ \A i \in 1 .. n - 1 : d(i + 1) = (b \o w(i)) \o b
    <3>1. \A i \in 1 .. n - 1 : i + 1 # 1 /\ (i + 1) - 1 = i
      OBVIOUS
    <3> QED BY <3>1
  <2> HIDE DEF d
  <2>18. D \in Seq(Seq(B))
    BY <2>16, IsASeq
  <2>19. Len(D) = n /\ \A j \in 1 .. n : D[j] = d(j)
    OBVIOUS
  <2> HIDE DEF D
  <2> DEFINE S == { i \in Nat : i = 0 \/ (SplitAt(z(i), Separator) = SubSeq(D, 1, i)
                                           /\ z(i) \o a # <<>> /\ (z(i) \o a)[1] = Separator) }
  <2>20. ASSUME NEW i \in 1 .. n, i - 1 \in S PROVE i \in S
    <3>1. CASE i = 1
      <4>1. PICK v \in Seq(B) : v = <<>>
        BY EmptySeq
      <4>2. Separator \notin B
        BY DEF B
      <4>3. SplitAt(z(1), Separator) = <<v>>
        BY <2>15, <4>1, <4>2, SplitWhole
      <4>4. PICK P \in Seq(Seq(B)) : P = <<>>
        BY EmptySeq
      <4>5. SubSeq(D, 1, 1 - 1) = P
        <5>1. SubSeq(D, 1, 0) = <<>>
          BY SubSeqEmpty
        <5> QED BY <4>4, <5>1
      <4>6. 1 \in 1 .. Len(D)
        BY <1>2, <2>19
      <4>7. Append(SubSeq(D, 1, 1 - 1), D[1]) = SubSeq(D, 1, 1)
        BY <2>18, <4>6, AppendNext
      <4>8. D[1] = v
        BY <2>17, <2>19, <4>1, <4>6
      <4>9. Append(P, v) = <<v>>
        BY <4>4
      <4>10. SplitAt(z(1), Separator) = SubSeq(D, 1, 1)
        BY <4>3, <4>5, <4>7, <4>8, <4>9
      <4>11. z(1) \o a = a
        BY <2>15, ConcatEmptySeq
      <4>12. a # <<>> /\ a[1] = Separator
        BY <2>2
      <4>13. z(1) \o a # <<>> /\ (z(1) \o a)[1] = Separator
        BY <4>11, <4>12
      <4> QED BY <3>1, <4>10, <4>13
    <3>2. CASE i # 1
      <4>1. PICK m \in 1 .. n - 1 : i = m + 1 /\ i - 1 = m /\ m # 0 /\ m \in 1 .. n
        BY <3>2
      <4>2. SplitAt(z(m), Separator) = SubSeq(D, 1, m) /\ z(m) \o a # <<>> /\ (z(m) \o a)[1] = Separator
        BY <2>20, <4>1
      <4>3. PICK u \in Seq(A), x \in Seq(B) : u = z(m) /\ x = d(i)
        BY <2>13, <2>16, <4>1
      <4>4. z(i) = (u \o a) \o x
        BY <2>14, <2>17, <4>1, <4>3
      <4>5. x \in Seq(A \ {Separator}) /\ x \in Seq(A)
        BY <2>1, SeqMonotonic DEF A, B
      <4>6. SplitAt(u \o <<Separator>> \o x, Separator) = Append(SplitAt(u, Separator), x)
        BY <2>1, <4>5, SplitLast
      <4>7. Append(SubSeq(D, 1, i - 1), D[i]) = SubSeq(D, 1, i)
        BY <2>18, <2>19, AppendNext
      <4>8. SplitAt(z(i), Separator) = SubSeq(D, 1, i)
        BY <2>2, <2>19, <4>1, <4>2, <4>3, <4>4, <4>6, <4>7
      <4>9. u \o a \in Seq(A) /\ u \o a # <<>> /\ (u \o a)[1] = Separator
        BY <4>2, <4>3, ConcatProperties
      <4>10. PICK p \in Seq(A) : p = u \o a
        BY <4>9
      <4>11. p \o x # <<>> /\ (p \o x)[1] = Separator /\ p \o x \in Seq(A)
        BY <4>5, <4>9, <4>10, Ends, ConcatProperties
      <4>12. (p \o x) \o a # <<>> /\ ((p \o x) \o a)[1] = Separator
        BY <4>11, Ends
      <4>13. z(i) \o a # <<>> /\ (z(i) \o a)[1] = Separator
        BY <4>4, <4>10, <4>12
      <4> QED BY <4>8, <4>13
    <3> QED BY <3>1, <3>2
  <2>21. /\ SplitAt(z(n), Separator) = D
         /\ z(n) \o a # <<>> /\ (z(n) \o a)[1] = Separator
    <3>1. n \in 0 .. n /\ 0 \in S
      OBVIOUS
    <3> HIDE DEF S
    <3>2. n \in S
      BY <2>20, <3>1, StepByStep
    <3>3. SubSeq(D, 1, n) = D
      BY <2>18, <2>19, SubSeqFull
    <3> QED BY <1>2, <3>2, <3>3 DEF S
  <2> HIDE DEF S
  (* The whole text. *)
  <2>22. n \in 1 .. n
    BY <1>2
  <2>23. PICK core, e : Core(core, e, L[n], B)
    BY <2>5, <2>22
  <2>24. /\ core \in Seq(B) /\ e \in Seq(Blank) /\ w(n) = core \o e
         /\ core # <<>> /\ core[Len(core)] \notin Blank
    BY <2>23 DEF Core, w
  <2> DEFINE K == (z(n) \o a) \o (b \o core)
  <2>25. PICK u \in Seq(A), c \in Seq(A), f \in Seq(A) : u = z(n) \o a /\ c = core /\ f = e
    <3>1. z(n) \o a \in Seq(A)
      BY <2>13, <2>22, ConcatProperties
    <3>2. core \in Seq(A) /\ e \in Seq(B)
      BY <2>1, <2>24, SeqMonotonic
    <3>3. e \in Seq(A)
      BY <2>1, <3>2, SeqMonotonic
    <3> QED BY <3>1, <3>2, <3>3
  <2>26. FlattenSeq(s) = K \o e
    <3>1. FlattenSeq(s) = u \o (b \o (c \o f))
      BY <2>11, <2>13, <2>22, <2>24, <2>25
    <3>2. PICK bc \in Seq(A) : bc = b \o c
      BY ConcatProperties
    <3>3. b \o (c \o f) = bc \o f
      BY <3>2, ConcatAssociative
    <3>4. u \o (bc \o f) = (u \o bc) \o f
      OBVIOUS
    <3> QED BY <2>25, <3>1, <3>2, <3>3, <3>4
  <2>27. K \in Seq(A) /\ K # <<>> /\ K[1] = Separator /\ K[Len(K)] = core[Len(core)]
    <3>1. PICK bc \in Seq(A) : bc = b \o c
      BY ConcatProperties
    <3>2. u \o bc \in Seq(A)
      BY ConcatProperties
    <3>3. bc # <<>> /\ bc[Len(bc)] = c[Len(c)]
      BY <2>24, <2>25, <3>1, Ends
    <3>4. u # <<>> /\ u[1] = Separator
      BY <2>21, <2>25
    <3>5. u \o bc # <<>> /\ (u \o bc)[1] = Separator /\ (u \o bc)[Len(u \o bc)] = bc[Len(bc)]
      BY <3>3, <3>4, Ends
    <3> QED BY <2>25, <3>1, <3>2, <3>3, <3>5
  <2>28. SplitAt(K, Separator) = Append(D, b \o core)
    <3>1. PICK x \in Seq(B) : x = b \o core
      BY <2>3, <2>24, ConcatProperties
    <3>2. x \in Seq(A \ {Separator})
      BY <2>1
    <3>3. PICK v \in Seq(A) : v = z(n)
      BY <2>13, <2>22
    <3>4. SplitAt(v \o <<Separator>> \o x, Separator) = Append(SplitAt(v, Separator), x)
      BY <2>1, <3>2, SplitLast
    <3> QED BY <2>2, <2>21, <3>1, <3>3, <3>4
  <2> HIDE DEF K
  <2>29. Trim(K \o e) = K
    <3>1. K[1] \notin Blank /\ K[Len(K)] \notin Blank
      BY <2>24, <2>27 DEF Blank, Separator, Newline
    <3>2. PICK x \in Seq(Blank) : x = <<>>
      BY EmptySeq
    <3>3. Trim(x \o K \o e) = K
      BY <2>24, <2>27, <3>1, TrimCore
    <3>4. x \o K = K
      BY <2>27, <3>2, ConcatEmptySeq
    <3> QED BY <3>3, <3>4
  <2> DEFINE parts == Append(D, b \o core)
  <2>30. /\ DOMAIN parts = 1 .. n + 1
         /\ \A j \in 1 .. n : parts[j] = d(j)
         /\ parts[n + 1] = b \o core
    <3>1. PICK x \in Seq(B) : x = b \o core
      BY <2>3, <2>24, ConcatProperties
    <3>2. /\ Append(D, x) \in Seq(Seq(B))
          /\ Len(Append(D, x)) = n + 1
          /\ \A j \in 1 .. n : Append(D, x)[j] = D[j]
          /\ Append(D, x)[n + 1] = x
      BY <2>18, <2>19, AppendProperties
    <3>3. DOMAIN Append(D, x) = 1 .. n + 1
      BY <3>2, LenProperties
    <3> QED BY <2>19, <3>1, <3>2, <3>3
  <2> HIDE DEF parts
  <2>31. DocumentLines(parts[1]) = <<>>
    <3>1. 1 \in 1 .. n
      BY <1>2
    <3> QED BY <2>17, <2>30, <3>1, NoDocument
  <2>32. ASSUME NEW i \in 1 .. n PROVE DocumentLines(parts[i + 1]) = Clean(L[i])
    <3>1. CASE i = n
      <4>1. PICK x \in Seq(Blank) : x = <<>>
        BY EmptySeq
      <4>2. DocumentLines(b \o core \o x) = Clean(L[n])
        BY <2>3, <2>22, <2>23, DocumentIs
      <4>3. PICK v \in Seq(B) : v = b \o core
        BY <2>3, <2>24, ConcatProperties
      <4>4. v \o x = v
        BY <4>1, ConcatEmptySeq
      <4> QED BY <2>30, <3>1, <4>2, <4>3, <4>4
    <3>2. CASE i # n
      <4>1. i \in 1 .. n - 1 /\ i + 1 \in 1 .. n
        BY <3>2
      <4>2. PICK ci, ei : Core(ci, ei, L[i], B)
        BY <2>5
      <4>3. ci \in Seq(B) /\ ei \in Seq(Blank) /\ w(i) = ci \o ei
        BY <4>2 DEF Core, w
      <4>4. ei \o b \in Seq(Blank)
        BY <2>3, <4>3, ConcatProperties
      <4>5. PICK y2 \in Seq(Blank) : y2 = ei \o b
        BY <4>4
      <4>6. DocumentLines(b \o ci \o y2) = Clean(L[i])
        BY <2>3, <4>2, DocumentIs
      <4>7. ei \in Seq(B)
        BY <2>1, <4>3, SeqMonotonic
      <4>8. PICK bc \in Seq(B) : bc = b \o ci
        BY <2>3, <4>3, ConcatProperties
      <4>9. b \o (ci \o ei) = bc \o ei
        BY <2>3, <4>3, <4>7, <4>8
      <4>10. (bc \o ei) \o b = bc \o (ei \o b)
        BY <2>3, <4>7
      <4>11. parts[i + 1] = (b \o (ci \o ei)) \o b
        BY <2>17, <2>30, <4>1, <4>3
      <4> QED BY <4>5, <4>6, <4>8, <4>9, <4>10, <4>11
    <3> QED BY <3>1, <3>2
  <2>33. parts = SplitAt(Trim(FlattenSeq(s)), Separator)
    BY <2>26, <2>28, <2>29 DEF parts
  <2>34. DecodeAllYAML(FlattenSeq(s)) = [docs |-> [i \in 1 .. n |-> Clean(L[i])]]
    <3>1. PICK q, text : q = parts /\ text = FlattenSeq(s)
      OBVIOUS
    <3>2. q = SplitAt(Trim(text), Separator) /\ Reads(q, L, n, T)
      BY <2>30, <2>31, <2>32, <2>33, <3>1 DEF Reads
    <3>3. DecodeAllYAML(text) = [docs |-> [i \in 1 .. n |-> Clean(L[i])]]
      BY <3>2, DecodeFrom
    <3> QED BY <3>1, <3>3
  <2> QED BY <2>34 DEF s
<1> QED BY <1>1, <1>2

PlainOver(B) == { l \in Seq(B) : IsPlain(l) }

(* Whatever is read has plain lines only. *)
LEMMA ReadLinesArePlain ==
  ASSUME NEW B, Separator \notin B, NEW doc \in Seq(B)
  PROVE  DocumentLines(doc) \in Seq(PlainOver(B))
<1> DEFINE lines == SplitAt(Trim(doc), Newline)
           skipped == { l \in Range(lines) : IsComment(l) \/ IsBlank(l) }
<1>1. Trim(doc) \in Seq(B)
  BY TrimTokens
<1>2. lines \in Seq(Seq(B \ {Newline}))
  BY <1>1, SplitShape DEF Parts
<1>3. DocumentLines(doc) = Without(lines, skipped)
  BY DEF DocumentLines
<1> HIDE DEF lines
<1>4. lines \in Seq(Range(lines))
  BY <1>2, OverItsRange
<1> HIDE DEF skipped
<1>5. Without(lines, skipped) \in Seq(Range(lines) \ skipped)
  BY <1>4, WithoutShape
<1>6. Range(lines) \ skipped \subseteq PlainOver(B)
  <2> SUFFICES ASSUME NEW l \in Range(lines) \ skipped PROVE l \in PlainOver(B)
    OBVIOUS
  <2>1. PICK j \in 1 .. Len(lines) : l = lines[j]
    BY <1>2, LenProperties DEF Range
  <2>2. l \in Seq(B \ {Newline})
    BY <1>2, <2>1, ElementOfSeq
  <2>3. l \in Seq(B)
    BY <2>2, SeqMonotonic
  <2>4. ~IsBlank(l) /\ ~IsComment(l)
    BY DEF skipped
  <2>5. \A i \in DOMAIN l : l[i] # Separator
    <3>1. \A i \in 1 .. Len(l) : l[i] \in B
      BY <2>3, ElementOfSeq
    <3>2. DOMAIN l = 1 .. Len(l)
      BY <2>3, LenProperties
    <3> QED BY <3>1, <3>2
  <2> QED BY <2>3, <2>4, <2>5 DEF PlainOver, IsPlain
<1> QED BY <1>3, <1>5, <1>6, SeqMonotonic

LEMMA DecodedArePlain ==
  ASSUME NEW A, NEW text \in Seq(A), NEW docs, DecodeAllYAML(text) = [docs |-> docs]
  PROVE  docs \in Seq(Seq(PlainOver(A \ {Separator})))
<1> DEFINE B == A \ {Separator}
           P == PlainOver(B)
           parts == SplitAt(Trim(text), Separator)
           s == [j \in DOMAIN parts |-> DocumentLines(parts[j])]
           kept == Without(s, {<<>>})
<1>1. parts \in Seq(Seq(B))
  <2>1. Trim(text) \in Seq(A)
    BY TrimTokens
  <2> QED BY <2>1, SplitShape DEF Parts
<1>2. docs = kept
  <2>1. DecodeAllYAML(text) = [error |-> "decode"] \/ DecodeAllYAML(text) = [docs |-> kept]
    BY DEF DecodeAllYAML
  <2> HIDE DEF kept
  <2>2. [error |-> "decode"] # [docs |-> docs]
    <3>1. DOMAIN [error |-> "decode"] = {"error"} /\ DOMAIN [docs |-> docs] = {"docs"}
      OBVIOUS
    <3>2. "error" # "docs"
      OBVIOUS
    <3> QED BY <3>1, <3>2
  <2>3. [docs |-> docs] = [docs |-> kept]
    BY <2>1, <2>2
  <2>4. [docs |-> docs].docs = [docs |-> kept].docs
    BY <2>3
  <2> QED BY <2>4
<1> HIDE DEF parts, P
<1>3. PICK k \in Nat : k = Len(parts) /\ DOMAIN parts = 1 .. k
  BY <1>1, LenProperties
<1>4. \A j \in 1 .. k : DocumentLines(parts[j]) \in Seq(P)
  <2> TAKE j \in 1 .. k
  <2>1. parts[j] \in Seq(B)
    BY <1>1, <1>3, ElementOfSeq
  <2>2. Separator \notin B
    OBVIOUS
  <2> HIDE DEF B
  <2> QED BY <2>1, <2>2, ReadLinesArePlain DEF P
<1>5. s = [j \in 1 .. k |-> DocumentLines(parts[j])]
  BY <1>3
<1>6. s \in Seq(Seq(P))
  <2>1. [j \in 1 .. k |-> DocumentLines(parts[j])] \in Seq(Seq(P))
    BY <1>4, IsASeq
  <2> QED BY <1>5, <2>1
<1> HIDE DEF s
<1>7. kept \in Seq(Seq(P) \ {<<>>})
  BY <1>6, WithoutShape
<1>8. kept \in Seq(Seq(P))
  BY <1>7, SeqMonotonic
<1> QED BY <1>2, <1>8 DEF P

LEMMA FlattenIn ==
  ASSUME NEW A, NEW s, Len(s) \in Nat, DOMAIN s = 1 .. Len(s), \A i \in 1 .. Len(s) : s[i] \in Seq(A),
         Len(s) = 0 => s = <<>>
  PROVE  FlattenSeq(s) \in Seq(A)
<1>1. CASE Len(s) = 0
  BY <1>1, FlattenNothing, EmptySeq
<1>2. CASE Len(s) # 0
  <2>1. PICK g : Joining(g, s, A) /\ FlattenSeq(s) = g[Len(s)]
    BY <1>2, FlattenIs
  <2>2. Len(s) \in 1 .. Len(s)
    BY <1>2
  <2> QED BY <2>1, <2>2 DEF Joining
<1> QED BY <1>1, <1>2

LEMMA WrittenTokens ==
  ASSUME NEW T, NEW lines \in Seq(Seq(T))
  PROVE  Written(lines) \in Seq((T \cup Blank) \cup {Separator})
<1> DEFINE A == (T \cup Blank) \cup {Separator}
           s == [i \in DOMAIN lines |-> lines[i] \o <<Newline>>]
<1>1. PICK k \in Nat : k = Len(lines) /\ DOMAIN lines = 1 .. k
  BY LenProperties
<1>2. <<Newline>> \in Seq(A)
  <2>1. Newline \in A
    BY DEF Blank
  <2> HIDE DEF A
  <2> QED BY <2>1
<1>3. \A i \in 1 .. k : lines[i] \o <<Newline>> \in Seq(A)
  <2> TAKE i \in 1 .. k
  <2>1. lines[i] \in Seq(T)
    BY <1>1, ElementOfSeq
  <2>2. lines[i] \in Seq(A)
    BY <2>1, SeqMonotonic
  <2> HIDE DEF A
  <2> QED BY <1>2, <2>2, ConcatProperties
<1>4. s = [i \in 1 .. k |-> lines[i] \o <<Newline>>]
  BY <1>1
<1> HIDE DEF A
<1>5. Len(s) = k /\ DOMAIN s = 1 .. k /\ (\A i \in 1 .. k : s[i] \in Seq(A)) /\ (k = 0 => s = <<>>)
  BY <1>3, <1>4
<1>6. Written(lines) = FlattenSeq(s)
  BY DEF Written
<1> HIDE DEF s
<1>7. FlattenSeq(s) \in Seq(A)
  BY <1>5, FlattenIn
<1> QED BY <1>6, <1>7 DEF A

(* A resource is written exactly when its type is known and it fits. *)
LEMMA EncodeIs ==
  ASSUME NEW obj, obj.fits \in BOOLEAN
  PROVE  /\ obj.kind \in Kinds /\ obj.fits =>
              EncodeYAML(obj) = [text |-> Written(obj.lines)] /\ "error" \notin DOMAIN EncodeYAML(obj)
         /\ ~(obj.kind \in Kinds /\ obj.fits) =>
              "error" \in DOMAIN EncodeYAML(obj) /\ "text" \notin DOMAIN EncodeYAML(obj)
<1>1. CASE obj.kind \notin Kinds
  <2>1. EncodeYAML(obj) = [error |-> "unsupported"]
    BY <1>1 DEF EncodeYAML
  <2> QED BY <1>1, <2>1
<1>2. CASE obj.kind \in Kinds /\ ~obj.fits
  <2>1. EncodeYAML(obj) = [error |-> "parse"]
    BY <1>2 DEF EncodeYAML
  <2> QED BY <1>2, <2>1
<1>3. CASE obj.kind \in Kinds /\ obj.fits
  <2>1. EncodeYAML(obj) = [text |-> Written(obj.lines)]
    BY <1>3 DEF EncodeYAML
  <2>2. DOMAIN [text |-> Written(obj.lines)] = {"text"} /\ "error" # "text"
    OBVIOUS
  <2>3. "error" \notin DOMAIN EncodeYAML(obj)
    BY <2>1, <2>2
  <2> QED BY <1>3, <2>1, <2>3
<1> QED BY <1>1, <1>2, <1>3

ManifestOf(list) == FlattenSeq([i \in DOMAIN list |-> Document(i, Written(list[i].lines))])

LEMMA EncodeAllIs ==
  ASSUME NEW n \in Nat, NEW list, DOMAIN list = 1 .. n, \A i \in 1 .. n : list[i].fits \in BOOLEAN
  PROVE  /\ (\A i \in 1 .. n : list[i].kind \in Kinds /\ list[i].fits) =>
              EncodeYAMLAll(list) = [text |-> ManifestOf(list)]
         /\ (\E i \in 1 .. n : ~(list[i].kind \in Kinds /\ list[i].fits)) =>
              "text" \notin DOMAIN EncodeYAMLAll(list)
<1> DEFINE encoded == [i \in DOMAIN list |-> EncodeYAML(list[i])]
           failed == { i \in DOMAIN list : "error" \in DOMAIN encoded[i] }
<1>1. \A i \in 1 .. n : encoded[i] = EncodeYAML(list[i])
  OBVIOUS
<1>2. EncodeYAMLAll(list) =
        IF failed # {} THEN encoded[Min(failed)]
        ELSE [text |-> FlattenSeq([i \in DOMAIN list |-> Document(i, encoded[i].text)])]
  BY DEF EncodeYAMLAll
<1> HIDE DEF encoded
<1>3. ASSUME \A i \in 1 .. n : list[i].kind \in Kinds /\ list[i].fits
      PROVE  EncodeYAMLAll(list) = [text |-> ManifestOf(list)]
  <2>1. \A i \in 1 .. n : encoded[i] = [text |-> Written(list[i].lines)] /\ "error" \notin DOMAIN encoded[i]
    BY <1>1, <1>3, EncodeIs
  <2>2. failed = {}
    BY <2>1
  <2> HIDE DEF failed
  <2>3. \A i \in 1 .. n : encoded[i].text = Written(list[i].lines)
    <3> TAKE i \in 1 .. n
    <3>1. PICK w : w = Written(list[i].lines)
      OBVIOUS
    <3>2. encoded[i] = [text |-> w]
      BY <2>1, <3>1
    <3>3. encoded[i].text = w
      BY <3>2
    <3> QED BY <3>1, <3>3
  <2>4. [i \in DOMAIN list |-> Document(i, encoded[i].text)]
          = [i \in DOMAIN list |-> Document(i, Written(list[i].lines))]
    BY <2>3
  <2> QED BY <1>2, <2>2, <2>4 DEF ManifestOf
<1>4. ASSUME NEW i \in 1 .. n, ~(list[i].kind \in Kinds /\ list[i].fits)
      PROVE  "text" \notin DOMAIN EncodeYAMLAll(list)
  <2>1. i \in failed
    BY <1>1, <1>4, EncodeIs
  <2>2. failed \in SUBSET (1 .. n)
    OBVIOUS
  <2>3. \A j \in failed : "error" \in DOMAIN encoded[j]
    OBVIOUS
  <2> HIDE DEF failed
  <2>4. failed \in SUBSET Int
    BY <2>2
  <2>5. IsFiniteSet(failed)
    <3>1. IsFiniteSet(1 .. n)
      BY FS_Interval
    <3> QED BY <2>2, <3>1, FS_Subset
  <2>6. Min(failed) \in failed
    BY <2>1, <2>4, <2>5, Least
  <2>7. PICK j \in 1 .. n : j = Min(failed) /\ "error" \in DOMAIN EncodeYAML(list[j])
    BY <1>1, <2>2, <2>3, <2>6
  <2>8. "text" \notin DOMAIN EncodeYAML(list[j])
    BY <2>7, EncodeIs
  <2> QED BY <1>1, <1>2, <2>1, <2>7, <2>8
<1> QED BY <1>3, <1>4

(* A list of resources comes back from its manifest exactly when every line   *)
(* is plain and none of them ends in a space (k8s.go:152-221).               *)
THEOREM ManifestIsRead ==
  ASSUME NEW T, Newline \notin T, NEW E, NEW list \in Seq(E),
         \A i \in 1 .. Len(list) : IsResource(list[i], T)
  PROVE  WrittenCanBeRead(list)
<1> DEFINE A == (T \cup Blank) \cup {Separator}
<1>1. PICK n \in Nat : n = Len(list) /\ DOMAIN list = 1 .. n
  BY LenProperties
<1>2. \A i \in 1 .. n :
        /\ list[i].fits \in BOOLEAN
        /\ list[i].lines \in Seq(Seq(T)) /\ list[i].lines # <<>> /\ list[i].lines[1] = <<"kind">>
  BY <1>1 DEF IsResource
<1> DEFINE Fine == \A i \in 1 .. n : list[i].kind \in Kinds /\ list[i].fits
           L == [i \in 1 .. n |-> list[i].lines]
           Kept == \A i \in 1 .. n :
                     /\ \A l \in Range(list[i].lines) : IsPlain(l)
                     /\ Last(Last(list[i].lines)) # " "
           P == PlainOver(A \ {Separator})
<1>3. ASSUME ~Fine PROVE "text" \notin DOMAIN EncodeYAMLAll(list)
  BY <1>1, <1>2, <1>3, EncodeAllIs
<1>4. ASSUME Fine PROVE EncodeYAMLAll(list) = [text |-> ManifestOf(list)]
  BY <1>1, <1>2, <1>4, EncodeAllIs
<1>5. "text" \in DOMAIN EncodeYAMLAll(list) <=> Fine
  <2>1. "text" \in DOMAIN [text |-> ManifestOf(list)]
    OBVIOUS
  <2> HIDE DEF Fine
  <2> QED BY <1>3, <1>4, <2>1
<1> HIDE DEF Fine
<1>6. \A i \in 1 .. n : L[i] = list[i].lines
  OBVIOUS
<1>7. ManifestOf(list) = FlattenSeq([i \in 1 .. n |-> Document(i, Written(L[i]))])
  <2>1. [i \in DOMAIN list |-> Document(i, Written(list[i].lines))]
          = [i \in 1 .. n |-> Document(i, Written(L[i]))]
    BY <1>1
  <2> QED BY <2>1 DEF ManifestOf
<1>8. /\ L = [i \in DOMAIN list |-> list[i].lines]
      /\ L = [i \in 1 .. n |-> L[i]]
  BY <1>1
<1> HIDE DEF L
<1>9. \A i \in 1 .. n : L[i] \in Seq(Seq(T)) /\ DOMAIN L[i] = 1 .. Len(L[i])
  BY <1>2, <1>6, LenProperties
<1>10. \A i \in 1 .. n : (\A l \in Range(L[i]) : IsPlain(l)) => PlainLines(L[i], T)
  BY <1>2, <1>6, <1>9 DEF PlainLines, Range
<1>11. ASSUME \A i \in 1 .. n : PlainLines(L[i], T)
       PROVE  DecodeAllYAML(ManifestOf(list)) = [docs |-> [i \in 1 .. n |-> Clean(L[i])]]
  BY <1>7, <1>11, PlainListRead
<1>12. ASSUME \A i \in 1 .. n : PlainLines(L[i], T)
       PROVE  \A i \in 1 .. n : Clean(L[i]) = L[i] <=> Last(Last(L[i])) # " "
  BY <1>12, CleanIs
(* What is kept is read as it was. *)
<1>13. ASSUME Kept PROVE DecodeAllYAML(ManifestOf(list)) = [docs |-> L]
  <2>1. \A i \in 1 .. n : PlainLines(L[i], T)
    BY <1>6, <1>10, <1>13
  <2>2. \A i \in 1 .. n : Clean(L[i]) = L[i]
    BY <1>6, <1>12, <1>13, <2>1
  <2>3. [i \in 1 .. n |-> Clean(L[i])] = [i \in 1 .. n |-> L[i]]
    BY <2>2
  <2> QED BY <1>8, <1>11, <2>1, <2>3
(* What is read as it was has plain lines only. *)
<1>14. ManifestOf(list) \in Seq(A)
  <2> DEFINE s == [i \in 1 .. n |-> Document(i, Written(L[i]))]
  <2>1. ASSUME NEW i \in 1 .. n PROVE s[i] \in Seq(A)
    <3>1. PICK w \in Seq(A) : w = Written(L[i])
      BY <1>9, WrittenTokens
    <3>2. Newline \in A /\ Separator \in A
      BY DEF Blank
    <3> HIDE DEF A
    <3>3. <<Separator, Newline>> \in Seq(A) /\ <<Newline>> \in Seq(A)
      BY <3>2
    <3>4. PICK g \in Seq(A) : g = IF i = 1 THEN <<>> ELSE <<Newline>>
      BY <3>3, EmptySeq
    <3>5. (g \o <<Separator, Newline>>) \o w \in Seq(A)
      BY <3>3, ConcatProperties
    <3> QED BY <3>1, <3>4, <3>5 DEF Document
  <2>2. Len(s) = n /\ DOMAIN s = 1 .. n /\ (n = 0 => s = <<>>)
    OBVIOUS
  <2> HIDE DEF s, A
  <2>3. FlattenSeq(s) \in Seq(A)
    BY <2>1, <2>2, FlattenIn
  <2> QED BY <1>7, <2>3 DEF s
<1>15. ASSUME DecodeAllYAML(ManifestOf(list)) = [docs |-> L] PROVE Kept
  <2>1. L \in Seq(Seq(P))
    <3> HIDE DEF A
    <3> QED BY <1>14, <1>15, DecodedArePlain
  <2>2. Len(L) = n
    BY <1>8
  <2> HIDE DEF P
  <2>3. \A i \in 1 .. n : L[i] \in Seq(P)
    BY <2>1, <2>2, ElementOfSeq
  <2>4. \A i \in 1 .. n : \A l \in Range(L[i]) : IsPlain(l)
    <3> TAKE i \in 1 .. n
    <3> TAKE l \in Range(L[i])
    <3>1. PICK j \in 1 .. Len(L[i]) : l = L[i][j]
      BY <1>9 DEF Range
    <3>2. l \in P
      BY <2>3, <3>1, ElementOfSeq
    <3> QED BY <3>2 DEF P, PlainOver
  <2>5. \A i \in 1 .. n : PlainLines(L[i], T)
    BY <1>10, <2>4
  <2>6. [docs |-> L] = [docs |-> [i \in 1 .. n |-> Clean(L[i])]]
    BY <1>11, <1>15, <2>5
  <2>7. [docs |-> L].docs = [docs |-> [i \in 1 .. n |-> Clean(L[i])]].docs
    BY <2>6
  <2>8. \A i \in 1 .. n : L[i] = Clean(L[i])
    BY <2>7
  <2>9. \A i \in 1 .. n : Last(Last(L[i])) # " "
    BY <1>12, <2>5, <2>8
  <2> QED BY <1>6, <2>4, <2>9
<1>16. "text" \in DOMAIN EncodeYAMLAll(list) => EncodeYAMLAll(list).text = ManifestOf(list)
  <2>1. PICK m : m = ManifestOf(list)
    OBVIOUS
  <2>2. ASSUME Fine PROVE EncodeYAMLAll(list).text = m
    <3>1. EncodeYAMLAll(list) = [text |-> m]
      BY <1>4, <2>1, <2>2
    <3> QED BY <3>1
  <2> QED BY <1>5, <2>1, <2>2
<1>17. DecodeAllYAML(ManifestOf(list)) = [docs |-> L] <=> Kept
  BY <1>13, <1>15
<1> HIDE DEF Kept
<1>18. \A m : EncodeYAMLAll(list).text = m /\ (DecodeAllYAML(m) = [docs |-> L] <=> Kept) =>
               (DecodeAllYAML(EncodeYAMLAll(list).text) = [docs |-> L] <=> Kept)
  OBVIOUS
<1>19. "text" \in DOMAIN EncodeYAMLAll(list) =>
         (DecodeAllYAML(EncodeYAMLAll(list).text) = [docs |-> [i \in DOMAIN list |-> list[i].lines]] <=> Kept)
  BY <1>8, <1>16, <1>17, <1>18
<1> QED BY <1>1, <1>5, <1>19 DEF WrittenCanBeRead, Fine, Kept

-------------------------------------------------------------------------------
(* The invariants of Data.  Every input is one of Inputs, about which the    *)
(* module's assumptions say what it may be.                                 *)
Known == input \in Inputs \cup {Nothing}

LEMMA KnownInput == Spec => []Known
<1>1. Init => Known
  BY DEF Init, Known
<1>2. Known /\ [Next]_input => Known'
  BY DEF Known, Next
<1> QED BY <1>1, <1>2, PTL DEF Spec

LEMMA NothingAsked == Known /\ input.of # "nothing" => input \in Inputs
BY DEF Known, Nothing

LEMMA AnySequence ==
  ASSUME NEW s, s \in Seq(Range(s))
  PROVE  Len(s) \in Nat /\ (s = <<>> <=> Len(s) = 0) /\ \A i \in 1 .. Len(s) : s[i] \in Range(s)
<1>1. Len(s) \in Nat
  BY LenProperties
<1>2. s = <<>> <=> Len(s) = 0
  BY <1>1, EmptySeq
<1>3. \A i \in 1 .. Len(s) : s[i] \in Range(s)
  BY ElementOfSeq
<1> QED BY <1>1, <1>2, <1>3

(* On every map of Values and for all keys, ChainGet and Get return what is   *)
(* at the place of the keys and nothing else, or say why they stop           *)
(* (raw.go:31-96).                                                          *)
THEOREM ChainGetAlwaysExact == Spec => []GetsWhatIsThere
<1>1. Known => GetsWhatIsThere
  <2> SUFFICES ASSUME Known, input.of = "keys"
               PROVE  /\ ChainGetIsExact(input.type, input.m, input.keys)
                      /\ ChainGetDeadEnds(input.type, input.m, input.keys)
    BY DEF GetsWhatIsThere
  <2>1. /\ input.m \in Values /\ IsMap(input.m) /\ input.keys \in Seq(Range(input.keys))
        /\ \A k \in Range(input.keys) : IsKey(k)
    BY NothingAsked, InputsAssumption
  <2>2. PICK m, keys, type : m = input.m /\ keys = input.keys /\ type = input.type
    OBVIOUS
  <2>3. /\ Len(keys) \in Nat
        /\ keys = <<>> <=> Len(keys) = 0
        /\ \A i \in 1 .. Len(keys) : keys[i] \in Range(keys)
    BY <2>1, <2>2, AnySequence
  <2>4. \A i \in 1 .. Len(keys) : IsKey(keys[i])
    BY <2>1, <2>2, <2>3
  <2>5. m \in Values /\ IsMap(m)
    BY <2>1, <2>2
  <2>6. ChainGetIsExact(type, m, keys) /\ ChainGetDeadEnds(type, m, keys)
    BY <2>3, <2>4, <2>5, ValuesAssumption, ChainGetFinds
  <2> QED BY <2>2, <2>6
<1> QED BY <1>1, KnownInput, PTL

(* Whatever the resources and the tokens of their lines, what EncodeYAMLAll   *)
(* writes is read again by DecodeAllYAML as the same list exactly when no    *)
(* line has a separator, is blank or looks like a comment, and no resource   *)
(* ends in a space (k8s.go:81-221).                                         *)
THEOREM ManifestsAlwaysComeBack == Spec => []ManifestsComeBack
<1>1. Known => ManifestsComeBack
  <2> SUFFICES ASSUME Known, input.of = "list" PROVE WrittenCanBeRead(input.list)
    BY DEF ManifestsComeBack
  <2>1. /\ input.list \in Seq(Range(input.list))
        /\ \A obj \in Range(input.list) : IsResource(obj, Tokens)
    BY NothingAsked, InputsAssumption
  <2>2. PICK list, E : list = input.list /\ E = Range(list)
    OBVIOUS
  <2>3. list \in Seq(E) /\ \A i \in 1 .. Len(list) : IsResource(list[i], Tokens)
    BY <2>1, <2>2, AnySequence
  <2>4. WrittenCanBeRead(list)
    BY <2>3, TokensAssumption, ManifestIsRead
  <2> QED BY <2>2, <2>4
<1> QED BY <1>1, KnownInput, PTL

(* Whatever polygons that do not overlap are split, to any depth, by any      *)
(* cluster size and with any rectangles dropped: the pieces do not overlap,  *)
(* are of the area, and cover it but for the dropped rectangles and for      *)
(* slivers at the edges of the boxes, which are rounded (split.go:24-172).   *)
THEOREM PiecesAlwaysCover == Spec => []PiecesCoverTheArea
<1>1. Known => PiecesCoverTheArea
  <2> SUFFICES ASSUME Known, input.of = "features"
               PROVE  PiecesAreAPartition(input.features, input.depth, input.cluster, input.lost)
    BY DEF PiecesCoverTheArea
  <2>1. /\ \A f \in input.features : \A p \in f.parts : IsPolygon(p)
        /\ NoOverlap(input.features)
        /\ input.depth \in Int /\ input.cluster \in Nat \ {0}
    BY NothingAsked, InputsAssumption
  <2> QED BY <2>1, PiecesPartition
<1> QED BY <1>1, KnownInput, PTL

(* Whatever the documents, an operation with a namespace neither sees nor     *)
(* changes what is outside of it (firestore.go:70-197).                     *)
THEOREM NamespacesAlwaysApart == Spec => []NamespacesAreApart
<1>1. Known => NamespacesAreApart
  <2> SUFFICES ASSUME Known, input.of = "call"
               PROVE  StaysInItsNamespace(input.namespace, input.op, input.path, input.db)
    BY DEF NamespacesAreApart
  <2>1. /\ input.namespace \in Elements /\ input.path \in Seq(Elements)
        /\ input.op \in Operations /\ IsDatabase(input.db, Elements)
    BY NothingAsked, InputsAssumption
  <2> QED BY <2>1, ElementsAssumption, NamespacesStayApart
<1> QED BY <1>1, KnownInput, PTL

(* Whatever the documents, the paths that List returns can be given back,     *)
(* exactly when the collection has no element that ends what is stripped     *)
(* (firestore.go:53-79, 149-175).                                           *)
THEOREM ListedPathsAlwaysWork == Spec => []ListedPathsWork
<1>1. Known => ListedPathsWork
  <2> SUFFICES ASSUME Known, input.of = "call"
               PROVE  ListedIsFound(input.namespace, input.path, input.db)
    BY DEF ListedPathsWork
  <2>1. input.namespace \in Elements /\ input.path \in Seq(Elements) /\ IsDatabase(input.db, Elements)
    BY NothingAsked, InputsAssumption
  <2> QED BY <2>1, ElementsAssumption, ListedPathsAreFound
<1> QED BY <1>1, KnownInput, PTL
===============================================================================
