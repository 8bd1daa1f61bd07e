--------------------------- MODULE Verdict_proofs ---------------------------
(***************************************************************************)
(* Proofs about Verdict, for any numbers of segments, faces, keyframes,    *)
(* matches and creators.                                                   *)
(***************************************************************************)
EXTENDS Verdict, Sums, FiniteSetTheorems, TLAPS

-----------------------------------------------------------------------------
(* Percentages                                                             *)

Pct == 0..Percent(100)

\* A quotient is below what its dividend is below.
LEMMA Quotient ==
    ASSUME NEW a \in Int, NEW b \in Nat \ {0}
    PROVE  /\ a \div b \in Int
           /\ a >= 0 => a \div b >= 0
           /\ \A c \in Int : a <= c * b => a \div b <= c
           /\ \A c \in Int : a < c * b => a \div b < c
           /\ \A c \in Int : c * b <= a => c <= a \div b
  OBVIOUS

LEMMA PercentType ==
    /\ Unit \in Nat /\ Unit > 0
    /\ \A p \in Nat : Percent(p) \in Nat /\ Percent(p) = p * Unit
  BY SizeAssumption DEF Percent


\* Part of a whole, as a percentage.
LEMMA CoverageType ==
    ASSUME NEW count \in Nat, NEW of \in Nat
    PROVE  /\ Coverage(count, of) \in Nat
           /\ of # 0 /\ count <= of => Coverage(count, of) <= Percent(100)
<1>1. count * Percent(100) \in Nat
  BY PercentType
<1>2. ASSUME of # 0
      PROVE  /\ (count * Percent(100)) \div of \in Nat
             /\ count <= of => (count * Percent(100)) \div of <= Percent(100)
  <2> DEFINE a == count * Percent(100)
  <2>1. a \in Int /\ of \in Nat \ {0} /\ a >= 0
    BY <1>1, <1>2
  <2>2. count <= of => a <= Percent(100) * of
    BY PercentType
  <2>3. Percent(100) \in Int
    BY PercentType
  <2> HIDE DEF a
  <2>4. a \div of \in Int /\ a \div of >= 0
    BY <2>1, Quotient
  <2>5. count <= of => a \div of <= Percent(100)
    BY <2>1, <2>2, <2>3, Quotient
  <2>6. a \div of \in Nat
    BY <2>4
  <2> QED  BY <2>5, <2>6 DEF a
<1> QED  BY <1>2 DEF Coverage

\* Half of it, rounded down.
LEMMA Half ==
    ASSUME NEW a \in Nat
    PROVE  /\ a \div 2 \in Nat
           /\ \A c \in Nat : a <= 2 * c => a \div 2 <= c
  OBVIOUS

-----------------------------------------------------------------------------
(* The range of the confidence                                             *)

\* The boost caps at 100, but only where there is one.
LEMMA BoostRange ==
    ASSUME NEW score \in Nat, NEW t \in Trust
    PROVE  /\ Boost(score, t) \in Nat
           /\ score <= Percent(100) \/ t.consensus > 1 => Boost(score, t) <= Percent(100)
           /\ Boost(score, t) <= score + Percent(15)
<1>1. t.consensus \in Nat
  BY SizeAssumption DEF Trust
<1>2. /\ Percent(100) = 100 * Unit /\ Percent(15) = 15 * Unit /\ Percent(5) = 5 * Unit
      /\ Unit \in Nat
  BY PercentType
<1>3. ASSUME t.consensus > 1 PROVE (t.consensus - 1) * Percent(5) \in Nat
  <2>1. t.consensus - 1 \in Nat
    BY <1>1, <1>3
  <2>2. Percent(5) \in Nat
    BY PercentType
  <2> QED  BY <2>1, <2>2
<1> QED  BY <1>1, <1>2, <1>3 DEF Boost, Least

\* A flag takes off half, from whatever the standing of the publisher gave.
LEMMA PublisherRange ==
    ASSUME NEW score \in Nat, NEW t \in Trust
    PROVE  /\ Publisher(score, t) \in Nat
           /\ score <= Percent(100) \/ t.verified
                => Publisher(score, t) <= Percent(IF t.flagged THEN 50 ELSE 100)
           /\ ~t.verified => Publisher(score, t) <= score
<1>1. Percent(100) = 100 * Unit /\ Percent(50) = 50 * Unit /\ Unit \in Nat
  BY PercentType
<1>2. t.flagged \in BOOLEAN /\ t.verified \in BOOLEAN
  BY DEF Trust
<1>3. CASE t.flagged
  BY <1>1, <1>2, <1>3 DEF Publisher, Most
<1>4. CASE ~t.flagged
  BY <1>1, <1>2, <1>4 DEF Publisher
<1> QED  BY <1>3, <1>4

-----------------------------------------------------------------------------
(* VerifySegments                                                          *)

Found == {e \in Evidence : e.by = "segments"}

LEMMA FoundType ==
    ASSUME NEW e \in Found
    PROVE  /\ e.hits \in [1..Segs -> SUBSET Offsets]
           /\ \A i \in 1..Segs : IsFiniteSet(e.hits[i]) /\ Cardinality(e.hits[i]) \in Nat
           /\ e.semantic \in Nat /\ e.faces \in Nat /\ e.registered \in Nat
           /\ e.trust \in Trust
<1>1. e \in [by : {"segments"},
          hits : [1..Segs -> {H \in SUBSET Offsets : Cardinality(H) <= Near}],
          semantic : SemCounts,
          faces : 0..(Near * Faces),
          audio : {"none", "match", "mismatch"},
          registered : {0, Cardinality(Offsets)},
          trust : Trust]
  BY DEF Found, Evidence
<1>2. Cardinality(Offsets) \in Nat
  BY SizeAssumption, FS_CardinalityType
<1>3. e.hits \in [1..Segs -> SUBSET Offsets]
  BY <1>1
<1>4. \A i \in 1..Segs : IsFiniteSet(e.hits[i])
  BY <1>3, SizeAssumption, FS_Subset
<1>5. e.semantic \in Nat /\ e.faces \in Nat /\ e.trust \in Trust
  <2>1. e.semantic \in SemCounts /\ e.faces \in 0..(Near * Faces) /\ e.trust \in Trust
    BY <1>1
  <2>2. SemCounts \subseteq Nat
    BY SizeAssumption
  <2>3. e.faces \in Nat
    BY <2>1
  <2> QED  BY <2>1, <2>2, <2>3
<1>6. e.registered \in Nat
  BY <1>1, <1>2
<1> QED  BY <1>3, <1>4, <1>5, <1>6, FS_CardinalityType

LEMMA SegsFinite ==
    IsFiniteSet(1..Segs) /\ Cardinality(1..Segs) = Segs /\ Segs \in Nat /\ Segs > 0
<1>1. Segs \in Nat /\ Segs > 0 /\ 1 \in Int /\ Segs \in Int
  BY SizeAssumption
<1> QED  BY <1>1, FS_Interval

LEMMA MatchedType ==
    ASSUME NEW e \in Found
    PROVE  /\ Matched(e) \in Nat
           /\ \A c : c = [i \in 1..Segs |-> Cardinality(e.hits[i])]
                       => Matched(e) = SumFunctionOnSet(c, 1..Segs)
<1> DEFINE c == [i \in 1..Segs |-> Cardinality(e.hits[i])]
<1>1. \A i \in 1..Segs : c[i] \in Nat
  BY FoundType
<1>2. Matched(e) = SumFunctionOnSet(c, 1..Segs)
  BY DEF Matched, SumFunction
<1> HIDE DEF c
<1>3. Matched(e) \in Nat
  BY <1>1, <1>2, SegsFinite, SumNat
<1> QED  BY <1>2, <1>3 DEF c

\* Both shares are numbers, and below 100 percent if nothing is counted twice.
LEMMA SharesRange ==
    ASSUME NEW e \in Found
    PROVE  /\ Covered(e) \in Nat
           /\ Coverage(Count(e), e.registered) \in Nat
           /\ ~Overcounted(e) => /\ Covered(e) <= Percent(100)
                                 /\ Coverage(Count(e), e.registered) <= Percent(100)
<1> DEFINE a == Covered(e)
           b == Coverage(Count(e), e.registered)
<1>1. Count(e) \in Nat /\ e.registered \in Nat
  BY FoundType, MatchedType DEF Count
<1>2. Percent(100) \in Nat
  BY PercentType
<1>3. (IF Kind(e) = "face" THEN Faces ELSE Segs) \in Nat
  BY SizeAssumption
<1>4. a \in Nat
  BY <1>1, <1>3, CoverageType DEF Covered
<1>5. b \in Nat
  BY <1>1, CoverageType
<1>6. ASSUME ~Overcounted(e) PROVE a <= Percent(100) /\ b <= Percent(100)
  <2>1. ~(a > Percent(100)) /\ (e.registered = 0 \/ ~(Count(e) > e.registered))
    BY <1>6 DEF Overcounted, Found
  <2>2. CASE e.registered = 0
    BY <1>2, <1>4, <2>1, <2>2 DEF Coverage
  <2>3. CASE e.registered # 0
    <3>1. Count(e) <= e.registered
      BY <1>1, <2>1, <2>3
    <3>2. b <= Percent(100)
      BY <1>1, <2>3, <3>1, CoverageType
    <3> HIDE DEF a, b
    <3> QED  BY <1>2, <1>4, <2>1, <3>2
  <2> QED  BY <2>2, <2>3
<1> QED  BY <1>4, <1>5, <1>6

\* A mean of shares, halved for an audio deepfake, where it takes 320 percent in
\* all to reach 80.
LEMMA SimilarityRange ==
    ASSUME NEW e \in Found
    PROVE  /\ Similarity(e) \in Nat
           /\ ~Overcounted(e) => Similarity(e) <= Percent(100)
           /\ Kind(e) = "audio deepfake" /\ Similarity(e) >= Percent(80)
                => /\ Covered(e) + Coverage(Count(e), e.registered) >= Percent(320)
                   /\ Overcounted(e)
<1> DEFINE a == Covered(e)
           b == Coverage(Count(e), e.registered)
<1>1. /\ a \in Nat /\ b \in Nat
      /\ ~Overcounted(e) => a <= Percent(100) /\ b <= Percent(100)
  BY SharesRange
<1>2. Similarity(e) = IF Kind(e) = "audio deepfake" THEN ((a + b) \div 2) \div 2 ELSE (a + b) \div 2
  BY DEF Similarity
<1>3. /\ Percent(100) \in Nat /\ Percent(80) \in Nat /\ Percent(320) = 4 * Percent(80)
      /\ 2 * Percent(100) < Percent(320)
  BY PercentType
<1> HIDE DEF a, b
<1>4. /\ (a + b) \div 2 \in Nat
      /\ ~Overcounted(e) => (a + b) \div 2 <= Percent(100)
  BY <1>1, <1>3
<1>5. /\ ((a + b) \div 2) \div 2 \in Nat
      /\ ~Overcounted(e) => ((a + b) \div 2) \div 2 <= Percent(100)
      /\ ((a + b) \div 2) \div 2 >= Percent(80) => a + b >= Percent(320)
  BY <1>1, <1>3, <1>4
<1>6. a + b >= Percent(320) => Overcounted(e)
  BY <1>1, <1>3
<1>7. CASE Kind(e) = "audio deepfake"
  <2>1. Similarity(e) = ((a + b) \div 2) \div 2
    BY <1>2, <1>7
  <2> QED  BY <1>5, <1>6, <2>1 DEF a, b
<1>8. CASE Kind(e) # "audio deepfake"
  <2>1. Similarity(e) = (a + b) \div 2
    BY <1>2, <1>8
  <2> QED  BY <1>4, <1>8, <2>1
<1> QED  BY <1>7, <1>8

-----------------------------------------------------------------------------
(* Temporal integrity                                                      *)

LEMMA FirstsType ==
    ASSUME NEW e \in Found, NEW f \in Firsts(e)
    PROVE  /\ DOMAIN f = {i \in 1..Segs : e.hits[i] # {}}
           /\ \A i \in DOMAIN f : f[i] \in e.hits[i] /\ f[i] \in Nat /\ i \in Nat
           /\ IsFiniteSet(DOMAIN f) /\ Cardinality(DOMAIN f) \in Nat
<1>1. /\ DOMAIN f = {i \in 1..Segs : e.hits[i] # {}}
      /\ \A i \in DOMAIN f : f[i] \in e.hits[i] /\ f[i] \in Offsets
  BY DEF Firsts
<1>2. IsFiniteSet(DOMAIN f) /\ Cardinality(DOMAIN f) \in Nat
  BY <1>1, SegsFinite, FS_Subset, FS_CardinalityType
<1>3. \A i \in DOMAIN f : f[i] \in Nat /\ i \in Nat
  <2>1. Offsets \subseteq Nat
    BY SizeAssumption
  <2>2. \A i \in 1..Segs : i \in Nat
    BY SegsFinite
  <2> QED  BY <1>1, <2>1, <2>2
<1> QED  BY <1>1, <1>2, <1>3

LEMMA GapType ==
    ASSUME NEW a \in Int, NEW b \in Int
    PROVE  Gap(a, b) \in Nat /\ (Gap(a, b) = 0 <=> a = b)
  BY DEF Gap

\* There is no drift exactly if the offsets are as far apart as the segments.
LEMMA DriftIs ==
    ASSUME NEW e \in Found, NEW f \in Firsts(e), Cardinality(DOMAIN f) > 0
    PROVE  /\ Drift(f) \in Nat
           /\ Drift(f) = 0 <=> \A i, j \in DOMAIN f : i < j => f[j] - f[i] = j - i
<1> DEFINE I == DOMAIN f
           first == Min(I)
           shift == f[first] - first
           g == [i \in I |-> Gap(f[i], i + (f[first] - first))]
<1>0. /\ IsFiniteSet(I) /\ I \in SUBSET Nat
      /\ \A i \in I : f[i] \in Nat /\ i \in Nat
  BY FirstsType
<1>1. Drift(f) = SumFunctionOnSet(g, I)
  BY DEF Drift, SumFunction
<1>2. first \in I /\ \A i \in I : first <= i
  <2>1. I # {}
    BY FS_EmptySet
  <2>2. \E i \in I : \A j \in I : i <= j
    BY <1>0, <2>1, Smallest
  <2> QED  BY <2>2 DEF Min
<1> HIDE DEF first, I
<1>3. shift \in Int /\ shift = f[first] - first
  BY <1>0, <1>2
<1>4. \A i \in I : g[i] = Gap(f[i], i + shift) /\ i + shift \in Int
  BY <1>0, <1>3
<1> HIDE DEF g, shift
<1>5. ASSUME NEW i \in I PROVE g[i] \in Nat /\ (g[i] = 0 <=> f[i] = i + shift)
  <2>1. f[i] \in Int /\ i + shift \in Int /\ g[i] = Gap(f[i], i + shift)
    BY <1>0, <1>4
  <2> QED  BY <2>1, GapType
<1>6. Drift(f) \in Nat
  BY <1>0, <1>1, <1>5, SumNat
<1>7. Drift(f) = 0 <=> \A i \in I : g[i] = 0
  BY <1>0, <1>1, <1>5, SumIsZero, SumOfZeros
<1>8. ASSUME \A i \in I : f[i] = i + shift,
             NEW i \in I, NEW j \in I, i < j
      PROVE  f[j] - f[i] = j - i
  BY <1>0, <1>3, <1>8
<1>9. ASSUME \A i, j \in I : i < j => f[j] - f[i] = j - i, NEW i \in I
      PROVE  f[i] = i + shift
  <2>1. CASE i = first
    BY <1>0, <1>2, <1>3, <2>1
  <2>2. CASE i # first
    <3>1. first < i
      BY <1>0, <1>2, <2>2
    <3>2. f[i] - f[first] = i - first
      BY <1>2, <1>9, <3>1
    <3> QED  BY <1>0, <1>2, <1>3, <3>2
  <2> QED  BY <2>1, <2>2
<1>10. Drift(f) = 0 <=> \A i \in I : f[i] = i + shift
  BY <1>5, <1>7
<1>11. (\A i \in I : f[i] = i + shift) <=> (\A i, j \in I : i < j => f[j] - f[i] = j - i)
  BY <1>8, <1>9
<1> QED  BY <1>6, <1>10, <1>11 DEF I

LEMMA TemporalRange ==
    ASSUME NEW e \in Found, NEW f \in Firsts(e)
    PROVE  /\ Temporal(e, f) \in Nat /\ Temporal(e, f) <= Percent(100)
           /\ Count(e) > 1 /\ Cardinality(DOMAIN f) > 1
                => (Temporal(e, f) = Percent(100) <=> Drift(f) = 0)
<1> DEFINE n == Cardinality(DOMAIN f)
           N == n * n
           P == Percent(100)
           a == P * (N - Drift(f))
<1>1. n \in Nat /\ P \in Nat /\ P > 0
  <2>1. n \in Nat
    BY FirstsType
  <2>2. P \in Nat /\ P = 100 * Unit /\ Unit \in Nat /\ Unit > 0
    BY PercentType
  <2> QED  BY <2>1, <2>2
<1>2. CASE ~(Count(e) > 1 /\ n > 1)
  BY <1>1, <1>2 DEF Temporal
<1>3. CASE Count(e) > 1 /\ n > 1
  <2>1. Drift(f) \in Nat
    BY <1>1, <1>3, DriftIs
  <2>2. N \in Nat \ {0}
    BY <1>1, <1>3
  <2>3. Temporal(e, f) = Most(0, a \div N)
    BY <1>3 DEF Temporal
  <2> HIDE DEF n, N, P
  <2>4. /\ a \in Int /\ a <= P * N
        /\ Drift(f) > 0 => a < P * N
        /\ Drift(f) = 0 => P * N <= a
    <3>1. N - Drift(f) \in Int /\ N - Drift(f) <= N
      BY <2>1, <2>2
    <3> QED  BY <1>1, <2>1, <2>2, <3>1
  <2>5. P \in Int
    BY <1>1
  <2> HIDE DEF a
  <2>6. /\ a \div N \in Int /\ a \div N <= P
        /\ Drift(f) > 0 => a \div N < P
        /\ Drift(f) = 0 => P <= a \div N
    BY <2>2, <2>4, <2>5, Quotient
  <2>7. /\ Temporal(e, f) \in Nat /\ Temporal(e, f) <= P
        /\ Temporal(e, f) = P <=> Drift(f) = 0
    BY <1>1, <2>1, <2>3, <2>6 DEF Most
  <2> QED  BY <2>7 DEF P
<1> QED  BY <1>2, <1>3

\* Similarity and temporal integrity blend into one score; a deepfake's counts
\* for half.
LEMMA ScoreRange ==
    ASSUME NEW e \in Found, NEW temporal \in Nat, temporal <= Percent(100)
    PROVE  /\ Score(e, temporal) \in Nat
           /\ ~Overcounted(e) =>
                /\ Score(e, temporal) <= Percent(100)
                /\ Deepfake(Kind(e)) => Score(e, temporal) <= Percent(50)
<1> DEFINE s == Similarity(e)
           mixed == (7 * s + 3 * temporal) \div 10
           blend == IF temporal > 0 THEN mixed ELSE s
<1>1. s \in Nat /\ (~Overcounted(e) => s <= Percent(100))
  BY SimilarityRange
<1>2. Percent(100) \in Nat /\ Percent(50) \in Nat /\ Percent(100) = 2 * Percent(50)
  BY PercentType
<1>3. Score(e, temporal) = IF Deepfake(Kind(e)) THEN blend \div 2 ELSE blend
  BY DEF Score
<1> HIDE DEF s
<1>4. mixed \in Nat /\ (~Overcounted(e) => mixed <= Percent(100))
  BY <1>1, <1>2
<1> HIDE DEF mixed
<1>5. blend \in Nat /\ (~Overcounted(e) => blend <= Percent(100))
  BY <1>1, <1>4
<1> HIDE DEF blend
<1>6. blend \div 2 \in Nat /\ (~Overcounted(e) => blend \div 2 <= Percent(50))
  BY <1>2, <1>5, Half
<1>7. Percent(50) <= Percent(100)
  BY <1>2
<1>8. CASE Deepfake(Kind(e))
  <2>1. Score(e, temporal) = blend \div 2
    BY <1>3, <1>8
  <2>2. ~Overcounted(e) => Score(e, temporal) <= Percent(100)
    BY <1>2, <1>6, <1>7, <2>1
  <2> QED  BY <1>6, <2>1, <2>2, Zenon
<1>9. CASE ~Deepfake(Kind(e))
  <2>1. Score(e, temporal) = blend
    BY <1>3, <1>9
  <2> QED  BY <1>5, <1>9, <2>1, Zenon
<1> QED  BY <1>8, <1>9

\* Two points of a set of at most one are the same.
LEMMA AtMostOne ==
    ASSUME NEW H, IsFiniteSet(H), Cardinality(H) <= 1, NEW x \in H, NEW y \in H
    PROVE  x = y
<1>1. /\ Cardinality(H) \in Nat /\ IsFiniteSet(H \ {x})
      /\ Cardinality(H \ {x}) = Cardinality(H) - 1
      /\ Cardinality(H \ {x}) \in Nat
  BY FS_RemoveElement, FS_CardinalityType, FS_Subset
<1>2. Cardinality(H \ {x}) = 0
  BY <1>1
<1>3. H \ {x} = {}
  BY <1>1, <1>2, FS_EmptySet
<1> QED  BY <1>3

\* With one match per segment at most, as many segments are compared as matched.
LEMMA MatchedIsCompared ==
    ASSUME NEW e \in Found, NEW f \in Firsts(e),
           \A i \in 1..Segs : Cardinality(e.hits[i]) <= 1
    PROVE  Cardinality(DOMAIN f) = Matched(e)
<1> DEFINE S == 1..Segs
           I == DOMAIN f
           c == [i \in S |-> Cardinality(e.hits[i])]
<1>1. Matched(e) = SumFunctionOnSet(c, S)
  BY MatchedType
<1>2. I = {i \in S : e.hits[i] # {}}
  BY FirstsType
<1>3. \A i \in S : c[i] = IF i \in I THEN 1 ELSE 0
  <2> SUFFICES ASSUME NEW i \in S PROVE c[i] = IF i \in I THEN 1 ELSE 0
    OBVIOUS
  <2>1. /\ IsFiniteSet(e.hits[i]) /\ Cardinality(e.hits[i]) \in Nat
        /\ Cardinality(e.hits[i]) <= 1
    BY FoundType
  <2>2. Cardinality(e.hits[i]) = 0 <=> e.hits[i] = {}
    BY <2>1, FS_EmptySet
  <2>3. c[i] = Cardinality(e.hits[i])
    OBVIOUS
  <2> HIDE DEF c
  <2> QED  BY <1>2, <2>1, <2>2, <2>3
<1>4. IsFiniteSet(I) /\ IsFiniteSet(S \ I) /\ I \cup (S \ I) = S /\ I \cap (S \ I) = {}
  BY <1>2, SegsFinite, FS_Subset
<1> HIDE DEF S, I, c
<1>5. (\A i \in I : c[i] = 1) /\ (\A i \in S \ I : c[i] = 0) /\ (\A i \in I \cup (S \ I) : c[i] \in Int)
  BY <1>3, <1>4
<1>6. SumFunctionOnSet(c, I \cup (S \ I)) = SumFunctionOnSet(c, I) + SumFunctionOnSet(c, S \ I)
  BY <1>4, <1>5, SumSplit
<1>7. SumFunctionOnSet(c, I) = Cardinality(I) /\ SumFunctionOnSet(c, S \ I) = 0
  BY <1>4, <1>5, SumOfOnes, SumOfZeros
<1>8. Cardinality(I) \in Nat
  BY <1>4, FS_CardinalityType
<1>9. Matched(e) = Cardinality(I) + 0
  BY <1>1, <1>4, <1>6, <1>7
<1> QED  BY <1>8, <1>9 DEF I

SameSpacing(e) ==
    \A i, j \in 1..Segs : i < j =>
        \A a \in e.hits[i], b \in e.hits[j] : b - a = j - i

LEMMA FullIffSameSpacing ==
    ASSUME NEW e \in Found, NEW f \in Firsts(e), Count(e) > 1, Matched(e) > 1,
           \A i \in 1..Segs : Cardinality(e.hits[i]) <= 1
    PROVE  Temporal(e, f) = Percent(100) <=> SameSpacing(e)
<1> DEFINE I == DOMAIN f
<1>1. Cardinality(I) > 1 /\ Cardinality(I) \in Nat
  BY MatchedIsCompared, FirstsType
<1>2. Temporal(e, f) = Percent(100) <=> Drift(f) = 0
  BY <1>1, TemporalRange
<1>3. Cardinality(I) > 0
  BY <1>1
<1>4. Drift(f) = 0 <=> \A i, j \in I : i < j => f[j] - f[i] = j - i
  BY <1>3, DriftIs
<1>5. I = {i \in 1..Segs : e.hits[i] # {}} /\ \A i \in I : f[i] \in e.hits[i]
  BY FirstsType
<1>6. \A i \in I : \A a \in e.hits[i] : a = f[i]
  <2> SUFFICES ASSUME NEW i \in I, NEW a \in e.hits[i] PROVE a = f[i]
    OBVIOUS
  <2>1. IsFiniteSet(e.hits[i]) /\ Cardinality(e.hits[i]) <= 1 /\ f[i] \in e.hits[i]
    BY <1>5, FoundType
  <2> QED  BY <2>1, AtMostOne
<1> HIDE DEF I
<1>7. ASSUME SameSpacing(e), NEW i \in I, NEW j \in I, i < j
      PROVE  f[j] - f[i] = j - i
  BY <1>5, <1>7 DEF SameSpacing
<1>8. ASSUME \A i, j \in I : i < j => f[j] - f[i] = j - i,
             NEW i \in 1..Segs, NEW j \in 1..Segs, i < j,
             NEW a \in e.hits[i], NEW b \in e.hits[j]
      PROVE  b - a = j - i
  <2>1. i \in I /\ j \in I
    BY <1>5
  <2>2. a = f[i] /\ b = f[j]
    BY <1>6, <2>1
  <2> QED  BY <1>8, <2>1, <2>2
<1>9. SameSpacing(e) <=> \A i, j \in I : i < j => f[j] - f[i] = j - i
  BY <1>7, <1>8 DEF SameSpacing
<1> QED  BY <1>2, <1>4, <1>9

-----------------------------------------------------------------------------
(* The verdicts                                                            *)

\* A verdict is given once, on evidence that does not change.
LEMMA VerdictStep ==
    ASSUME evidence \in Evidence, Next
    PROVE  /\ evidence' = evidence /\ verdict = NoVerdict
           /\ evidence.trust \in Trust
           /\ Exact \/ Fuzzy \/ Segments
  BY DEF Next, Exact, Fuzzy, Segments, Evidence

\* What VerifySegments judges.
LEMMA SegmentsJudge ==
    ASSUME evidence \in Evidence, Segments
    PROVE  \E f \in Firsts(evidence) :
             /\ evidence \in Found
             /\ verdict'.kind = Kind(evidence)
             /\ verdict'.temporal = Temporal(evidence, f)
             /\ verdict'.confidence =
                  Publisher(Boost(Score(evidence, Temporal(evidence, f)), evidence.trust), evidence.trust)
             /\ verdict'.tier = Tier(verdict'.confidence)
             /\ verdict'.alert = (Similarity(evidence) >= Percent(80))
  BY DEF Segments, Judge, Found

LEMMA FuzzyRange ==
    ASSUME NEW d \in Distances
    PROVE  /\ ((64 - d) * Percent(100)) \div 64 \in Nat
           /\ ((64 - d) * Percent(100)) \div 64 <= Percent(100)
<1> DEFINE a == (64 - d) * Percent(100)
<1>1. Percent(100) \in Nat /\ Percent(100) \in Int
  BY PercentType
<1>2. d \in Nat /\ d <= 22
  BY DEF Distances
<1>3. a \in Int /\ a >= 0 /\ a <= Percent(100) * 64
  <2>1. 64 - d \in Nat /\ 64 - d <= 64
    BY <1>2
  <2> QED  BY <1>1, <2>1
<1>4. 64 \in Nat \ {0}
  OBVIOUS
<1> HIDE DEF a
<1>5. a \div 64 \in Int /\ a \div 64 >= 0 /\ a \div 64 <= Percent(100)
  BY <1>1, <1>3, <1>4, Quotient
<1> QED  BY <1>5 DEF a

\* What the cap on the confidence takes: a score of 100 percent, several
\* creators or a verified publisher.
LEMMA CapRange ==
    ASSUME NEW score \in Nat, NEW t \in Trust
    PROVE  /\ Publisher(Boost(score, t), t) \in Nat
           /\ score <= Percent(100) \/ t.consensus > 1 \/ t.verified
                => Publisher(Boost(score, t), t) <= Percent(IF t.flagged THEN 50 ELSE 100)
<1>1. PICK b : b = Boost(score, t)
  OBVIOUS
<1>2. b \in Nat /\ (score <= Percent(100) \/ t.consensus > 1 => b <= Percent(100))
  BY <1>1, BoostRange
<1> QED  BY <1>1, <1>2, PublisherRange

LEMMA SurerStep ==
    ASSUME evidence \in Evidence, Next
    PROVE  /\ verdict'.confidence \in Nat
           /\ verdict'.confidence > Percent(IF evidence.trust.flagged THEN 50 ELSE 100)
                => /\ Overcounted(evidence)
                   /\ evidence.trust.consensus <= 1
                   /\ ~evidence.trust.verified
<1> DEFINE cap == Percent(IF evidence.trust.flagged THEN 50 ELSE 100)
           low == evidence.trust.consensus <= 1 /\ ~evidence.trust.verified
<1>1. /\ evidence.trust \in Trust /\ Percent(100) \in Nat /\ cap \in Nat
      /\ evidence.trust.consensus \in Nat
  BY VerdictStep, PercentType, SizeAssumption DEF Trust
<1>2. CASE Exact
  <2>1. verdict'.confidence = Publisher(Percent(100), evidence.trust)
    BY <1>2 DEF Exact, Judge
  <2>2. verdict'.confidence \in Nat /\ verdict'.confidence <= cap
    BY <1>1, <2>1, PublisherRange
  <2> HIDE DEF cap
  <2> QED  BY <1>1, <2>2 DEF cap
<1>3. CASE Fuzzy
  <2>1. evidence.distance \in Distances
    BY <1>3 DEF Fuzzy, Evidence
  <2>2. PICK s : s = ((64 - evidence.distance) * Percent(100)) \div 64
    OBVIOUS
  <2>3. s \in Nat /\ s <= Percent(100)
    BY <2>1, <2>2, FuzzyRange
  <2>4. verdict'.confidence = Publisher(Boost(s, evidence.trust), evidence.trust)
    BY <1>3, <2>2 DEF Fuzzy, Judge
  <2>5. verdict'.confidence \in Nat /\ verdict'.confidence <= cap
    BY <1>1, <2>3, <2>4, CapRange
  <2> HIDE DEF cap
  <2> QED  BY <1>1, <2>5 DEF cap
<1>4. CASE Segments
  <2>1. PICK f \in Firsts(evidence) :
             /\ evidence \in Found
             /\ verdict'.confidence =
                  Publisher(Boost(Score(evidence, Temporal(evidence, f)), evidence.trust), evidence.trust)
    BY <1>4, SegmentsJudge
  <2>2. PICK t : t = Temporal(evidence, f)
    OBVIOUS
  <2>3. t \in Nat /\ t <= Percent(100)
    BY <2>1, <2>2, TemporalRange
  <2>4. PICK s : s = Score(evidence, t)
    OBVIOUS
  <2>5. s \in Nat /\ (~Overcounted(evidence) => s <= Percent(100))
    BY <2>1, <2>3, <2>4, ScoreRange
  <2>6. verdict'.confidence = Publisher(Boost(s, evidence.trust), evidence.trust)
    BY <2>1, <2>2, <2>4
  <2>7. /\ verdict'.confidence \in Nat
        /\ s <= Percent(100) \/ evidence.trust.consensus > 1 \/ evidence.trust.verified
             => verdict'.confidence <= cap
    BY <1>1, <2>5, <2>6, CapRange
  <2>8. ~Overcounted(evidence) \/ ~low => verdict'.confidence <= cap
    BY <1>1, <2>5, <2>7
  <2> HIDE DEF cap
  <2>9. verdict'.confidence > cap => Overcounted(evidence) /\ low
    BY <1>1, <2>7, <2>8
  <2> QED  BY <2>7, <2>9 DEF cap
<1> QED  BY <1>2, <1>3, <1>4, VerdictStep

\* Half, with the boost of three creators, is not high.
LEMMA BelowHigh ==
    ASSUME NEW s \in Nat, s <= Percent(50)
    PROVE  \A b, p \in Nat : p <= b /\ b <= s + Percent(15) => p < Percent(80)
  BY PercentType

LEMMA DeepfakeStep ==
    ASSUME evidence \in Evidence, Next,
           verdict'.kind \in {"audio deepfake", "face", "semantic"}
    PROVE  /\ verdict'.tier = "High" => evidence.trust.verified \/ Overcounted(evidence)
           /\ verdict'.kind = "audio deepfake" /\ verdict'.alert
                => /\ Covered(evidence) + Coverage(Count(evidence), evidence.registered) >= Percent(320)
                   /\ Overcounted(evidence)
<1>1. evidence.trust \in Trust
  BY VerdictStep
<1>2. ~Exact /\ ~Fuzzy
  <2>1. ~Exact
    <3>1. Exact => verdict'.kind = "exact"
      BY DEF Exact, Judge
    <3> QED  BY <3>1
  <2>2. ~Fuzzy
    <3>1. Fuzzy => verdict'.kind = "visual"
      BY DEF Fuzzy, Judge
    <3> QED  BY <3>1
  <2> QED  BY <2>1, <2>2
<1>3. PICK f \in Firsts(evidence) :
             /\ evidence \in Found
             /\ verdict'.kind = Kind(evidence)
             /\ verdict'.confidence =
                  Publisher(Boost(Score(evidence, Temporal(evidence, f)), evidence.trust), evidence.trust)
             /\ verdict'.tier = Tier(verdict'.confidence)
             /\ verdict'.alert = (Similarity(evidence) >= Percent(80))
  BY <1>2, VerdictStep, SegmentsJudge
<1>4. ASSUME ~evidence.trust.verified, ~Overcounted(evidence)
      PROVE  verdict'.tier # "High"
  <2>1. PICK t : t = Temporal(evidence, f)
    OBVIOUS
  <2>2. t \in Nat /\ t <= Percent(100)
    BY <1>3, <2>1, TemporalRange
  <2>3. PICK s : s = Score(evidence, t)
    OBVIOUS
  <2>4. s \in Nat /\ s <= Percent(50)
    BY <1>3, <1>4, <2>2, <2>3, ScoreRange DEF Deepfake
  <2>5. PICK b : b = Boost(s, evidence.trust)
    OBVIOUS
  <2>6. b \in Nat /\ b <= s + Percent(15)
    BY <1>1, <2>4, <2>5, BoostRange
  <2>7. PICK p : p = Publisher(b, evidence.trust)
    OBVIOUS
  <2>8. p \in Nat /\ p <= b
    BY <1>1, <1>4, <2>6, <2>7, PublisherRange
  <2>9. p < Percent(80)
    BY <2>4, <2>6, <2>8, BelowHigh
  <2>10. verdict'.tier = Tier(p)
    BY <1>3, <2>1, <2>3, <2>5, <2>7
  <2> QED  BY <2>9, <2>10 DEF Tier
<1>5. ASSUME verdict'.kind = "audio deepfake", verdict'.alert
      PROVE  /\ Covered(evidence) + Coverage(Count(evidence), evidence.registered) >= Percent(320)
             /\ Overcounted(evidence)
  BY <1>3, <1>5, SimilarityRange
<1> QED  BY <1>4, <1>5

LEMMA IntactStep ==
    ASSUME evidence \in Evidence, Next,
           BySegments', Count(evidence) > 1, Matched(evidence) > 1,
           \A i \in 1..Segs : Cardinality(evidence.hits[i]) <= 1
    PROVE  verdict'.temporal = Percent(100) <=> SameSpacing(evidence)
<1>1. ~Exact /\ ~Fuzzy
  BY VerdictStep DEF BySegments, Given, Exact, Fuzzy, Judge
<1>2. PICK f \in Firsts(evidence) :
             evidence \in Found /\ verdict'.temporal = Temporal(evidence, f)
  BY <1>1, VerdictStep, SegmentsJudge
<1> QED  BY <1>2, FullIffSameSpacing

-----------------------------------------------------------------------------
(* The theorems                                                            *)

\* A verdict surer than that of VerifyExact on the original takes matches counted
\* twice, a single creator and a publisher who is not verified, whatever was
\* found, boosted, flagged or halved, for any numbers of it.
THEOREM SurerTakesOvercounting == Spec => []SurerOnlyIfOvercounted
<1>1. Init => evidence \in Evidence /\ SurerOnlyIfOvercounted
  BY DEF Init, SurerOnlyIfOvercounted
<1>2. evidence \in Evidence /\ SurerOnlyIfOvercounted /\ [Next]_vars
        => (evidence \in Evidence /\ SurerOnlyIfOvercounted)'
  <2> SUFFICES ASSUME evidence \in Evidence, SurerOnlyIfOvercounted, [Next]_vars
               PROVE  evidence' \in Evidence /\ SurerOnlyIfOvercounted'
    OBVIOUS
  <2>1. CASE Next
    <3>1. evidence' = evidence
      BY <2>1, VerdictStep
    <3>2. /\ verdict'.confidence >= 0
          /\ verdict'.confidence > Percent(IF evidence.trust.flagged THEN 50 ELSE 100)
                => /\ Overcounted(evidence)
                   /\ evidence.trust.consensus <= 1
                   /\ ~evidence.trust.verified
      BY <2>1, SurerStep
    <3> QED  BY <3>1, <3>2 DEF SurerOnlyIfOvercounted
  <2>2. CASE UNCHANGED vars
    BY <2>2 DEF vars, SurerOnlyIfOvercounted
  <2> QED  BY <2>1, <2>2
<1> QED  BY <1>1, <1>2, PTL DEF Spec

\* A match that VerifySegments takes for a deepfake is of high confidence only if
\* it is a verified publisher's or counted twice, and an audio deepfake alerts its
\* creator only beyond 320 percent, for any evidence.
THEOREM HighDeepfakesAreOvercounted == Spec => []DeepfakeHighOnlyIfOvercounted
<1>1. Init => evidence \in Evidence /\ DeepfakeHighOnlyIfOvercounted
  BY DEF Init, DeepfakeHighOnlyIfOvercounted, Given
<1>2. evidence \in Evidence /\ DeepfakeHighOnlyIfOvercounted /\ [Next]_vars
        => (evidence \in Evidence /\ DeepfakeHighOnlyIfOvercounted)'
  <2> SUFFICES ASSUME evidence \in Evidence, DeepfakeHighOnlyIfOvercounted, [Next]_vars
               PROVE  evidence' \in Evidence /\ DeepfakeHighOnlyIfOvercounted'
    OBVIOUS
  <2>1. CASE Next
    <3>1. evidence' = evidence
      BY <2>1, VerdictStep
    <3> QED  BY <2>1, <3>1, DeepfakeStep DEF DeepfakeHighOnlyIfOvercounted, Given
  <2>2. CASE UNCHANGED vars
    BY <2>2 DEF vars, DeepfakeHighOnlyIfOvercounted, Given
  <2> QED  BY <2>1, <2>2
<1> QED  BY <1>1, <1>2, PTL DEF Spec

\* However many segments match: the temporal integrity is full exactly if the
\* keyframes they match are spaced as they are.
THEOREM FullIntegrityIffSameSpacing == Spec => []IntactIffSameSpacing
<1>1. Init => evidence \in Evidence /\ IntactIffSameSpacing
  BY DEF Init, IntactIffSameSpacing, BySegments, Given
<1>2. evidence \in Evidence /\ IntactIffSameSpacing /\ [Next]_vars
        => (evidence \in Evidence /\ IntactIffSameSpacing)'
  <2> SUFFICES ASSUME evidence \in Evidence, IntactIffSameSpacing, [Next]_vars
               PROVE  evidence' \in Evidence /\ IntactIffSameSpacing'
    OBVIOUS
  <2>1. CASE Next
    <3>1. evidence' = evidence
      BY <2>1, VerdictStep
    <3>2. BySegments' /\ Count(evidence) > 1 /\ Matched(evidence) > 1
            /\ (\A i \in 1..Segs : Cardinality(evidence.hits[i]) <= 1)
          => (verdict'.temporal = Percent(100) <=> SameSpacing(evidence))
      BY <2>1, IntactStep
    <3> QED  BY <3>1, <3>2 DEF IntactIffSameSpacing, SameSpacing
  <2>2. CASE UNCHANGED vars
    BY <2>2 DEF vars, IntactIffSameSpacing, BySegments, Given
  <2> QED  BY <2>1, <2>2
<1> QED  BY <1>1, <1>2, PTL DEF Spec
=============================================================================
