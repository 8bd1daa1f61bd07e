-------------------------------- MODULE Sums --------------------------------
(***************************************************************************)
(* Lemmas about SumFunctionOnSet and SumFunction of the community module   *)
(* Functions, which the models add up items, points, clips and distances   *)
(* with.  They are defined by recursion on sets; the proofs argue from a   *)
(* smallest set for which a claim would fail.                              *)
(***************************************************************************)
EXTENDS Functions, FiniteSetTheorems, TLAPS

\* Among any subsets of a finite set one has no proper subset.
LEMMA SmallestSubset ==
    ASSUME NEW S, IsFiniteSet(S), NEW T \in SUBSET (SUBSET S), T # {}
    PROVE  \E s \in T : \A t \in SUBSET s : t # s => t \notin T
<1>1. FiniteSubsetsOf(S) = SUBSET S
  BY FS_FiniteSubsetsOfFinite
<1>2. IsWellFoundedOn(StrictSubsetOrdering(S), SUBSET S)
  BY <1>1, FS_StrictSubsetOrderingWellFounded
<1>3. PICK s \in T : \A t \in T : ~(<<t, s>> \in StrictSubsetOrdering(S))
  BY <1>2, WFMin
<1>4. ASSUME NEW t \in SUBSET s, t # s, t \in T
      PROVE  FALSE
  BY <1>3, <1>4 DEF StrictSubsetOrdering
<1> QED  BY <1>3, <1>4

-----------------------------------------------------------------------------
(* The recursion equation                                                  *)

Chosen(s) == CHOOSE x \in s : TRUE

\* g gives every subset of S its sum, one element at a time.
AddsUp(f, S, g) ==
    g = [s \in SUBSET S |-> IF s = {} THEN 0 ELSE f[Chosen(s)] + g[s \ {Chosen(s)}]]

LEMMA SumIsChosen ==
    ASSUME NEW f, NEW S
    PROVE  SumFunctionOnSet(f, S) = (CHOOSE g : AddsUp(f, S, g))[S]
  BY DEF SumFunctionOnSet, FoldFunctionOnSet, MapThenFoldSet, AddsUp, Chosen

LEMMA AddsUpIs ==
    ASSUME NEW f, NEW S, NEW g, AddsUp(f, S, g)
    PROVE  \A s \in SUBSET S :
              g[s] = IF s = {} THEN 0 ELSE f[Chosen(s)] + g[s \ {Chosen(s)}]
<1> DEFINE h == [s \in SUBSET S |-> IF s = {} THEN 0 ELSE f[Chosen(s)] + g[s \ {Chosen(s)}]]
<1>1. g = h
  BY DEF AddsUp
<1>2. \A s \in SUBSET S : h[s] = IF s = {} THEN 0 ELSE f[Chosen(s)] + g[s \ {Chosen(s)}]
  OBVIOUS
<1> QED  BY <1>1, <1>2

LEMMA ChosenType == \A s : s # {} => Chosen(s) \in s
  BY DEF Chosen

\* There is only one way of adding up.
LEMMA SumsAgree ==
    ASSUME NEW f, NEW S, IsFiniteSet(S), NEW U, NEW V, U \subseteq S, V \subseteq S,
           NEW g, AddsUp(f, U, g), NEW h, AddsUp(f, V, h)
    PROVE  \A s \in SUBSET (U \cap V) : g[s] = h[s]
<1> DEFINE T == {s \in SUBSET (U \cap V) : g[s] # h[s]}
<1>1. CASE T = {}
  BY <1>1
<1>2. CASE T # {}
  <2>1. PICK s \in T : \A t \in SUBSET s : t # s => t \notin T
    <3>1. T \in SUBSET (SUBSET S)
      OBVIOUS
    <3> HIDE DEF T
    <3> QED  BY <3>1, <1>2, SmallestSubset
  <2>2. s \in SUBSET U /\ s \in SUBSET V
    OBVIOUS
  <2>3. CASE s = {}
    BY <2>2, <2>3, AddsUpIs
  <2>4. CASE s # {}
    <3>0. PICK t : t = s \ {Chosen(s)}
      OBVIOUS
    <3>1. t \in SUBSET s /\ t # s
      BY <3>0, <2>4, ChosenType
    <3>2. g[t] = h[t]
      BY <3>1, <2>1
    <3>3. g[s] = f[Chosen(s)] + g[t]
      BY <2>2, <2>4, <3>0, AddsUpIs
    <3>4. h[s] = f[Chosen(s)] + h[t]
      BY <2>2, <2>4, <3>0, AddsUpIs
    <3> QED  BY <3>2, <3>3, <3>4
  <2> QED  BY <2>3, <2>4
<1> QED  BY <1>1, <1>2

LEMMA SumExists ==
    ASSUME NEW f, NEW S, IsFiniteSet(S)
    PROVE  \E g : AddsUp(f, S, g)
<1> DEFINE T == {s \in SUBSET S : ~\E g : AddsUp(f, s, g)}
           H(t) == CHOOSE g : AddsUp(f, t, g)
<1>1. CASE T = {}
  BY <1>1
<1>2. CASE T # {}
  <2>1. PICK s \in T : \A t \in SUBSET s : t # s => t \notin T
    <3>1. T \in SUBSET (SUBSET S)
      OBVIOUS
    <3> HIDE DEF T
    <3> QED  BY <3>1, <1>2, SmallestSubset
  <2>2. ASSUME NEW t \in SUBSET s, t # s
        PROVE  AddsUp(f, t, H(t))
    <3>1. \E g : AddsUp(f, t, g)
      BY <2>1, <2>2
    <3> QED  BY <3>1
  <2> DEFINE G == [t \in SUBSET s |->
                     IF t = {} THEN 0
                     ELSE f[Chosen(t)] + H(t \ {Chosen(t)})[t \ {Chosen(t)}]]
  <2>3. ASSUME NEW t \in SUBSET s, t # s
        PROVE  G[t] = H(t)[t]
    <3>1. AddsUp(f, t, H(t))
      BY <2>2, <2>3
    <3>2. CASE t = {}
      <4>1. H(t)[t] = 0
        BY <3>1, <3>2, AddsUpIs
      <4> QED  BY <4>1, <3>2
    <3>3. CASE t # {}
      <4>0. PICK u : u = t \ {Chosen(t)}
        OBVIOUS
      <4>1. u \in SUBSET s /\ u # s /\ u \in SUBSET t
        BY <4>0, <3>3, ChosenType
      <4>2. AddsUp(f, u, H(u))
        BY <4>1, <2>2
      <4>3. H(t)[t] = f[Chosen(t)] + H(t)[u]
        <5> HIDE DEF H
        <5> QED  BY <3>1, <3>3, <4>0, AddsUpIs
      <4>4. H(t)[u] = H(u)[u]
        <5>1. t \subseteq S /\ u \subseteq S /\ u \in SUBSET (t \cap u)
          BY <4>1
        <5>2. PICK g : g = H(t) /\ AddsUp(f, t, g)
          BY <3>1
        <5>3. PICK h : h = H(u) /\ AddsUp(f, u, h)
          BY <4>2
        <5> HIDE DEF H, T
        <5>4. g[u] = h[u]
          BY <5>1, <5>2, <5>3, SumsAgree
        <5> QED  BY <5>2, <5>3, <5>4
      <4>5. G[t] = f[Chosen(t)] + H(u)[u]
        BY <4>0, <3>3
      <4> QED  BY <4>3, <4>4, <4>5
    <3> QED  BY <3>2, <3>3
  <2>4. \A t \in SUBSET s : G[t] = IF t = {} THEN 0 ELSE f[Chosen(t)] + G[t \ {Chosen(t)}]
    <3> SUFFICES ASSUME NEW t \in SUBSET s
                 PROVE  G[t] = IF t = {} THEN 0 ELSE f[Chosen(t)] + G[t \ {Chosen(t)}]
      OBVIOUS
    <3>1. CASE t # {}
      <4>0. PICK u : u = t \ {Chosen(t)}
        OBVIOUS
      <4>1. u \in SUBSET s /\ u # s
        BY <4>0, <3>1, ChosenType
      <4>2. G[u] = H(u)[u]
        BY <4>1, <2>3
      <4>3. G[t] = f[Chosen(t)] + H(u)[u]
        BY <4>0, <3>1
      <4> HIDE DEF G, H
      <4> QED  BY <4>0, <4>2, <4>3, <3>1
    <3> QED  BY <3>1
  <2>5. AddsUp(f, s, G)
    <3> DEFINE K == [t \in SUBSET s |-> IF t = {} THEN 0 ELSE f[Chosen(t)] + G[t \ {Chosen(t)}]]
    <3>1. \A t \in SUBSET s : G[t] = K[t]
      <4> HIDE DEF G
      <4> QED  BY <2>4
    <3>2. G = K
      <4>1. /\ G = [t \in SUBSET s |-> G[t]]
            /\ K = [t \in SUBSET s |-> K[t]]
        OBVIOUS
      <4> HIDE DEF G, K
      <4> QED  BY <4>1, <3>1, Zenon
    <3> QED  BY <3>2 DEF AddsUp
  <2> QED  BY <2>1, <2>5
<1> QED  BY <1>1, <1>2

-----------------------------------------------------------------------------
(* Sums                                                                    *)

LEMMA SumUnfold ==
    ASSUME NEW f, NEW S, IsFiniteSet(S)
    PROVE  \A s \in SUBSET S :
              SumFunctionOnSet(f, s) =
                 IF s = {} THEN 0 ELSE f[Chosen(s)] + SumFunctionOnSet(f, s \ {Chosen(s)})
<1> SUFFICES ASSUME NEW s \in SUBSET S
             PROVE  SumFunctionOnSet(f, s) =
                      IF s = {} THEN 0 ELSE f[Chosen(s)] + SumFunctionOnSet(f, s \ {Chosen(s)})
  OBVIOUS
<1>0. IsFiniteSet(s)
  BY FS_Subset
<1>1. PICK g : g = (CHOOSE h : AddsUp(f, s, h)) /\ AddsUp(f, s, g)
  BY <1>0, SumExists
<1>2. SumFunctionOnSet(f, s) = g[s]
  BY <1>1, SumIsChosen
<1>3. CASE s = {}
  BY <1>1, <1>2, <1>3, AddsUpIs
<1>4. CASE s # {}
  <2>0. PICK t : t = s \ {Chosen(s)}
    OBVIOUS
  <2>1. IsFiniteSet(t) /\ t \subseteq s
    BY <1>0, <2>0, FS_Subset
  <2>2. PICK h : h = (CHOOSE k : AddsUp(f, t, k)) /\ AddsUp(f, t, h)
    BY <2>1, SumExists
  <2>3. SumFunctionOnSet(f, t) = h[t]
    BY <2>2, SumIsChosen
  <2>4. g[t] = h[t]
    BY <1>0, <1>1, <2>1, <2>2, SumsAgree
  <2>5. g[s] = f[Chosen(s)] + g[t]
    BY <1>1, <1>4, <2>0, AddsUpIs
  <2> QED  BY <1>2, <1>4, <2>0, <2>3, <2>4, <2>5
<1> QED  BY <1>3, <1>4

\* Nothing adds up to 0.
LEMMA SumOfNone == ASSUME NEW f PROVE SumFunctionOnSet(f, {}) = 0
  BY FS_EmptySet, SumUnfold

\* The sum of numbers is one, whichever of them is taken first.
LEMMA SumType ==
    ASSUME NEW S, IsFiniteSet(S), NEW f, \A x \in S : f[x] \in Int
    PROVE  SumFunctionOnSet(f, S) \in Int
<1> DEFINE T == {s \in SUBSET S : SumFunctionOnSet(f, s) \notin Int}
<1>1. CASE T = {}
  BY <1>1
<1>2. CASE T # {}
  <2>1. PICK s \in T : \A t \in SUBSET s : t # s => t \notin T
    <3>1. T \in SUBSET (SUBSET S)
      OBVIOUS
    <3> HIDE DEF T
    <3> QED  BY <3>1, <1>2, SmallestSubset
  <2>2. CASE s = {}
    BY <2>1, <2>2, SumOfNone
  <2>3. CASE s # {}
    <3>0. PICK t : t = s \ {Chosen(s)}
      OBVIOUS
    <3>1. t \in SUBSET s /\ t # s /\ Chosen(s) \in S
      BY <3>0, <2>1, <2>3, ChosenType
    <3>2. SumFunctionOnSet(f, t) \in Int
      BY <3>1, <2>1
    <3>3. SumFunctionOnSet(f, s) = f[Chosen(s)] + SumFunctionOnSet(f, t)
      BY <2>1, <2>3, <3>0, SumUnfold
    <3> QED  BY <2>1, <3>1, <3>2, <3>3
  <2> QED  BY <2>2, <2>3
<1> QED  BY <1>1, <1>2

LEMMA SumWithout ==
    ASSUME NEW S, IsFiniteSet(S), NEW f, \A x \in S : f[x] \in Int, NEW x \in S
    PROVE  SumFunctionOnSet(f, S) = f[x] + SumFunctionOnSet(f, S \ {x})
<1> DEFINE T == {s \in SUBSET S :
                   ~\A y \in s : SumFunctionOnSet(f, s) = f[y] + SumFunctionOnSet(f, s \ {y})}
<1>1. CASE T = {}
  BY <1>1
<1>2. CASE T # {}
  <2>1. PICK s \in T : \A t \in SUBSET s : t # s => t \notin T
    <3>1. T \in SUBSET (SUBSET S)
      OBVIOUS
    <3> HIDE DEF T
    <3> QED  BY <3>1, <1>2, SmallestSubset
  <2>2. PICK y \in s : SumFunctionOnSet(f, s) # f[y] + SumFunctionOnSet(f, s \ {y})
    BY <2>1
  <2>3. s # {} /\ s \in SUBSET S
    BY <2>1, <2>2
  <2>4. PICK c : c = Chosen(s)
    OBVIOUS
  <2>5. c \in s /\ SumFunctionOnSet(f, s) = f[c] + SumFunctionOnSet(f, s \ {c})
    BY <2>3, <2>4, ChosenType, SumUnfold
  <2>6. c # y
    BY <2>2, <2>5
  <2>7. SumFunctionOnSet(f, s \ {c}) = f[y] + SumFunctionOnSet(f, (s \ {c}) \ {y})
    <3>1. s \ {c} \in SUBSET s /\ s \ {c} # s /\ y \in s \ {c} /\ s \ {c} \in SUBSET S
      BY <2>3, <2>5, <2>6
    <3> QED  BY <3>1, <2>1
  <2>8. SumFunctionOnSet(f, s \ {y}) = f[c] + SumFunctionOnSet(f, (s \ {c}) \ {y})
    <3>1. s \ {y} \in SUBSET s /\ s \ {y} # s /\ c \in s \ {y} /\ s \ {y} \in SUBSET S
      BY <2>3, <2>5, <2>6
    <3>2. (s \ {y}) \ {c} = (s \ {c}) \ {y}
      OBVIOUS
    <3> QED  BY <3>1, <3>2, <2>1
  <2>9. SumFunctionOnSet(f, (s \ {c}) \ {y}) \in Int
    <3>1. (s \ {c}) \ {y} \subseteq S
      BY <2>3
    <3>2. IsFiniteSet((s \ {c}) \ {y}) /\ \A z \in (s \ {c}) \ {y} : f[z] \in Int
      BY <3>1, FS_Subset
    <3> QED  BY <3>2, SumType
  <2> QED  BY <2>2, <2>3, <2>5, <2>7, <2>8, <2>9
<1> QED  BY <1>1, <1>2

\* Only the values of the function on the set count.
LEMMA SumSame ==
    ASSUME NEW S, IsFiniteSet(S), NEW f, NEW g, \A x \in S : f[x] = g[x]
    PROVE  SumFunctionOnSet(f, S) = SumFunctionOnSet(g, S)
<1> DEFINE T == {s \in SUBSET S : SumFunctionOnSet(f, s) # SumFunctionOnSet(g, s)}
<1>1. CASE T = {}
  BY <1>1
<1>2. CASE T # {}
  <2>1. PICK s \in T : \A t \in SUBSET s : t # s => t \notin T
    <3>1. T \in SUBSET (SUBSET S)
      OBVIOUS
    <3> HIDE DEF T
    <3> QED  BY <3>1, <1>2, SmallestSubset
  <2>2. CASE s = {}
    BY <2>1, <2>2, SumOfNone
  <2>3. CASE s # {}
    <3>0. PICK c : c = Chosen(s)
      OBVIOUS
    <3>1. PICK t : t = s \ {c}
      OBVIOUS
    <3>2. c \in s /\ t \in SUBSET s /\ t # s /\ s \in SUBSET S /\ f[c] = g[c]
      BY <3>0, <3>1, <2>1, <2>3, ChosenType
    <3>3. SumFunctionOnSet(f, t) = SumFunctionOnSet(g, t)
      BY <3>2, <2>1
    <3>4. /\ SumFunctionOnSet(f, s) = f[c] + SumFunctionOnSet(f, t)
          /\ SumFunctionOnSet(g, s) = g[c] + SumFunctionOnSet(g, t)
      BY <3>0, <3>1, <3>2, <2>3, SumUnfold
    <3> QED  BY <2>1, <3>2, <3>3, <3>4
  <2> QED  BY <2>2, <2>3
<1> QED  BY <1>1, <1>2

\* Smaller terms, smaller sum.
LEMMA SumAtMost ==
    ASSUME NEW S, IsFiniteSet(S), NEW f, NEW g,
           \A x \in S : f[x] \in Int /\ g[x] \in Int /\ f[x] <= g[x]
    PROVE  SumFunctionOnSet(f, S) <= SumFunctionOnSet(g, S)
<1> DEFINE T == {s \in SUBSET S : ~(SumFunctionOnSet(f, s) <= SumFunctionOnSet(g, s))}
<1>1. CASE T = {}
  BY <1>1
<1>2. CASE T # {}
  <2>1. PICK s \in T : \A t \in SUBSET s : t # s => t \notin T
    <3>1. T \in SUBSET (SUBSET S)
      OBVIOUS
    <3> HIDE DEF T
    <3> QED  BY <3>1, <1>2, SmallestSubset
  <2>2. CASE s = {}
    BY <2>1, <2>2, SumOfNone
  <2>3. CASE s # {}
    <3>0. PICK c : c = Chosen(s)
      OBVIOUS
    <3>1. PICK t : t = s \ {c}
      OBVIOUS
    <3>2. c \in s /\ t \in SUBSET s /\ t # s /\ s \in SUBSET S /\ c \in S
      BY <3>0, <3>1, <2>1, <2>3, ChosenType
    <3>3. SumFunctionOnSet(f, t) <= SumFunctionOnSet(g, t)
      BY <3>2, <2>1
    <3>4. /\ SumFunctionOnSet(f, s) = f[c] + SumFunctionOnSet(f, t)
          /\ SumFunctionOnSet(g, s) = g[c] + SumFunctionOnSet(g, t)
      BY <3>0, <3>1, <3>2, <2>3, SumUnfold
    <3>5. IsFiniteSet(t) /\ t \subseteq S
      BY <3>2, FS_Subset
    <3>6. SumFunctionOnSet(f, t) \in Int /\ SumFunctionOnSet(g, t) \in Int
      BY <3>5, SumType
    <3> QED  BY <2>1, <3>2, <3>3, <3>4, <3>6
  <2> QED  BY <2>2, <2>3
<1> QED  BY <1>1, <1>2

\* Terms that are all 0 add up to 0.
LEMMA SumOfZeros ==
    ASSUME NEW S, IsFiniteSet(S), NEW f, \A x \in S : f[x] = 0
    PROVE  SumFunctionOnSet(f, S) = 0
<1> DEFINE T == {s \in SUBSET S : SumFunctionOnSet(f, s) # 0}
<1>1. CASE T = {}
  BY <1>1
<1>2. CASE T # {}
  <2>1. PICK s \in T : \A t \in SUBSET s : t # s => t \notin T
    <3>1. T \in SUBSET (SUBSET S)
      OBVIOUS
    <3> HIDE DEF T
    <3> QED  BY <3>1, <1>2, SmallestSubset
  <2>2. s # {}
    BY <2>1, SumOfNone
  <2>3. PICK t : t = s \ {Chosen(s)}
    OBVIOUS
  <2>4. Chosen(s) \in S /\ t \in SUBSET s /\ t # s
    BY <2>1, <2>2, <2>3, ChosenType
  <2>5. SumFunctionOnSet(f, s) = f[Chosen(s)] + SumFunctionOnSet(f, t)
    BY <2>1, <2>2, <2>3, SumUnfold
  <2> QED  BY <2>1, <2>4, <2>5
<1> QED  BY <1>1, <1>2

\* The sum of natural numbers is one.
LEMMA SumNat ==
    ASSUME NEW S, IsFiniteSet(S), NEW f, \A x \in S : f[x] \in Nat
    PROVE  SumFunctionOnSet(f, S) \in Nat
<1> DEFINE z == [x \in S |-> 0]
<1>1. SumFunctionOnSet(f, S) \in Int
  BY SumType
<1>2. \A x \in S : z[x] = 0
  OBVIOUS
<1> HIDE DEF z
<1>3. SumFunctionOnSet(z, S) = 0
  BY <1>2, SumOfZeros
<1>4. \A x \in S : z[x] \in Int /\ f[x] \in Int /\ z[x] <= f[x]
  BY <1>2
<1>5. SumFunctionOnSet(z, S) <= SumFunctionOnSet(f, S)
  BY <1>4, SumAtMost
<1> QED  BY <1>1, <1>3, <1>5

\* The sum over two parts.
LEMMA SumSplit ==
    ASSUME NEW A, IsFiniteSet(A), NEW B, IsFiniteSet(B), A \cap B = {},
           NEW f, \A x \in A \cup B : f[x] \in Int
    PROVE  SumFunctionOnSet(f, A \cup B) = SumFunctionOnSet(f, A) + SumFunctionOnSet(f, B)
<1> DEFINE T == {s \in SUBSET A :
                   SumFunctionOnSet(f, s \cup B) # SumFunctionOnSet(f, s) + SumFunctionOnSet(f, B)}
<1>b. SumFunctionOnSet(f, B) \in Int
  BY SumType
<1>1. CASE T = {}
  BY <1>1
<1>2. CASE T # {}
  <2>1. PICK s \in T : \A t \in SUBSET s : t # s => t \notin T
    <3>1. T \in SUBSET (SUBSET A)
      OBVIOUS
    <3> HIDE DEF T
    <3> QED  BY <3>1, <1>2, SmallestSubset
  <2>2. CASE s = {}
    <3>1. s \cup B = B
      BY <2>2
    <3> QED  BY <2>1, <2>2, <3>1, <1>b, SumOfNone
  <2>3. CASE s # {}
    <3>0. PICK c : c \in s
      BY <2>3
    <3>1. PICK t : t = s \ {c}
      OBVIOUS
    <3>2. /\ t \in SUBSET s /\ t # s /\ s \subseteq A
          /\ c \in s \cup B /\ (s \cup B) \ {c} = t \cup B
      BY <3>0, <3>1, <2>1
    <3>3. IsFiniteSet(s) /\ IsFiniteSet(t) /\ IsFiniteSet(s \cup B)
      BY <3>2, FS_Subset, FS_Union
    <3>4. SumFunctionOnSet(f, t \cup B) = SumFunctionOnSet(f, t) + SumFunctionOnSet(f, B)
      BY <3>2, <2>1
    <3>5. \A x \in s \cup B : f[x] \in Int
      BY <3>2
    <3>6. SumFunctionOnSet(f, s) = f[c] + SumFunctionOnSet(f, t)
      BY <3>0, <3>1, <3>2, <3>3, SumWithout
    <3>7. SumFunctionOnSet(f, s \cup B) = f[c] + SumFunctionOnSet(f, t \cup B)
      BY <3>2, <3>3, <3>5, SumWithout
    <3>8. SumFunctionOnSet(f, t) \in Int
      BY <3>2, <3>3, SumType
    <3>9. f[c] \in Int
      BY <3>2, <3>5
    <3>10. SumFunctionOnSet(f, s \cup B) = SumFunctionOnSet(f, s) + SumFunctionOnSet(f, B)
      BY <3>4, <3>6, <3>7, <3>8, <3>9, <1>b
    <3> QED  BY <2>1, <3>10
  <2> QED  BY <2>2, <2>3
<1> QED  BY <1>1, <1>2

\* A smaller set of natural numbers has a smaller sum.
LEMMA SumOfPart ==
    ASSUME NEW S, IsFiniteSet(S), NEW s \in SUBSET S, NEW f, \A x \in S : f[x] \in Nat
    PROVE  SumFunctionOnSet(f, s) <= SumFunctionOnSet(f, S)
<1>1. IsFiniteSet(s) /\ IsFiniteSet(S \ s) /\ s \cup (S \ s) = S /\ s \cap (S \ s) = {}
  BY FS_Subset, FS_Difference
<1>2. SumFunctionOnSet(f, s) \in Nat /\ SumFunctionOnSet(f, S \ s) \in Nat
  BY <1>1, SumNat
<1>3. \A x \in s \cup (S \ s) : f[x] \in Int
  OBVIOUS
<1>4. SumFunctionOnSet(f, s \cup (S \ s)) = SumFunctionOnSet(f, s) + SumFunctionOnSet(f, S \ s)
  BY <1>1, <1>3, SumSplit
<1>5. SumFunctionOnSet(f, S) = SumFunctionOnSet(f, s) + SumFunctionOnSet(f, S \ s)
  BY <1>1, <1>4
<1> QED  BY <1>2, <1>5

\* Counting is adding ones.
LEMMA SumOfOnes ==
    ASSUME NEW S, IsFiniteSet(S), NEW f, \A x \in S : f[x] = 1
    PROVE  SumFunctionOnSet(f, S) = Cardinality(S)
<1> DEFINE T == {s \in SUBSET S : SumFunctionOnSet(f, s) # Cardinality(s)}
<1>1. CASE T = {}
  BY <1>1
<1>2. CASE T # {}
  <2>1. PICK s \in T : \A t \in SUBSET s : t # s => t \notin T
    <3>1. T \in SUBSET (SUBSET S)
      OBVIOUS
    <3> HIDE DEF T
    <3> QED  BY <3>1, <1>2, SmallestSubset
  <2>2. s # {}
    BY <2>1, SumOfNone, FS_EmptySet
  <2>3. PICK t : t = s \ {Chosen(s)}
    OBVIOUS
  <2>4. Chosen(s) \in s /\ Chosen(s) \in S /\ t \in SUBSET s /\ t # s /\ IsFiniteSet(s)
    BY <2>1, <2>2, <2>3, ChosenType, FS_Subset
  <2>5. SumFunctionOnSet(f, s) = f[Chosen(s)] + SumFunctionOnSet(f, t)
    BY <2>1, <2>2, <2>3, SumUnfold
  <2>6. Cardinality(t) = Cardinality(s) - 1 /\ Cardinality(s) \in Nat
    BY <2>3, <2>4, FS_RemoveElement, FS_CardinalityType
  <2>7. SumFunctionOnSet(f, t) = Cardinality(t)
    BY <2>1, <2>4
  <2> QED  BY <2>1, <2>4, <2>5, <2>6, <2>7
<1> QED  BY <1>1, <1>2

\* A common factor.
LEMMA SumScaled ==
    ASSUME NEW S, IsFiniteSet(S), NEW f, NEW k \in Int, \A x \in S : f[x] \in Int,
           NEW g, \A x \in S : g[x] = f[x] * k
    PROVE  SumFunctionOnSet(g, S) = SumFunctionOnSet(f, S) * k
<1> DEFINE T == {s \in SUBSET S : SumFunctionOnSet(g, s) # SumFunctionOnSet(f, s) * k}
<1>1. CASE T = {}
  BY <1>1
<1>2. CASE T # {}
  <2>1. PICK s \in T : \A t \in SUBSET s : t # s => t \notin T
    <3>1. T \in SUBSET (SUBSET S)
      OBVIOUS
    <3> HIDE DEF T
    <3> QED  BY <3>1, <1>2, SmallestSubset
  <2>2. s # {}
    <3>1. 0 * k = 0
      OBVIOUS
    <3> QED  BY <2>1, <3>1, SumOfNone
  <2>3. PICK c : c = Chosen(s)
    OBVIOUS
  <2>4. PICK t : t = s \ {c}
    OBVIOUS
  <2>5. c \in S /\ t \in SUBSET s /\ t # s /\ t \subseteq S /\ IsFiniteSet(t)
    BY <2>1, <2>2, <2>3, <2>4, ChosenType, FS_Subset
  <2>6. /\ SumFunctionOnSet(g, s) = g[c] + SumFunctionOnSet(g, t)
        /\ SumFunctionOnSet(f, s) = f[c] + SumFunctionOnSet(f, t)
    BY <2>1, <2>2, <2>3, <2>4, SumUnfold
  <2>7. SumFunctionOnSet(g, t) = SumFunctionOnSet(f, t) * k
    BY <2>1, <2>5
  <2>8. SumFunctionOnSet(f, t) \in Int
    BY <2>5, SumType
  <2>9. \A a, b \in Int : (a + b) * k = a * k + b * k
    OBVIOUS
  <2> QED  BY <2>1, <2>5, <2>6, <2>7, <2>8, <2>9
<1> QED  BY <1>1, <1>2

\* Adding up class by class: owner says to which class an element belongs, part
\* is the sum of each class.
LEMMA SumByClass ==
    ASSUME NEW S, IsFiniteSet(S), NEW f, \A x \in S : f[x] \in Int,
           NEW owner, NEW D, IsFiniteSet(D), NEW part,
           \A c \in D : part[c] = SumFunctionOnSet(f, {x \in S : owner[x] = c})
    PROVE  SumFunctionOnSet(part, D) = SumFunctionOnSet(f, {x \in S : owner[x] \in D})
<1> DEFINE Of(d) == {x \in S : owner[x] \in d}
           T == {d \in SUBSET D : SumFunctionOnSet(part, d) # SumFunctionOnSet(f, Of(d))}
<1>1. CASE T = {}
  BY <1>1
<1>2. CASE T # {}
  <2>1. PICK d \in T : \A t \in SUBSET d : t # d => t \notin T
    <3>1. T \in SUBSET (SUBSET D)
      OBVIOUS
    <3> HIDE DEF T
    <3> QED  BY <3>1, <1>2, SmallestSubset
  <2>2. CASE d = {}
    <3>1. Of(d) = {}
      BY <2>2
    <3> QED  BY <2>1, <2>2, <3>1, SumOfNone
  <2>3. CASE d # {}
    <3>1. PICK c : c = Chosen(d)
      OBVIOUS
    <3>2. PICK t : t = d \ {c}
      OBVIOUS
    <3>3. c \in d /\ c \in D /\ t \in SUBSET d /\ t # d /\ d \in SUBSET D
      BY <2>1, <2>3, <3>1, <3>2, ChosenType
    <3>4. SumFunctionOnSet(part, d) = part[c] + SumFunctionOnSet(part, t)
      BY <3>1, <3>2, <3>3, <2>3, SumUnfold
    <3>5. SumFunctionOnSet(part, t) = SumFunctionOnSet(f, Of(t))
      BY <2>1, <3>3
    <3> DEFINE E == {x \in S : owner[x] = c}
    <3>6. Of(d) = E \cup Of(t) /\ E \cap Of(t) = {} /\ E \subseteq S /\ Of(t) \subseteq S
      BY <3>2, <3>3
    <3>7. part[c] = SumFunctionOnSet(f, E)
      BY <3>3
    <3> HIDE DEF E, Of
    <3>8. IsFiniteSet(E) /\ IsFiniteSet(Of(t)) /\ \A x \in E \cup Of(t) : f[x] \in Int
      BY <3>6, FS_Subset
    <3>9. SumFunctionOnSet(f, Of(d)) = SumFunctionOnSet(f, E) + SumFunctionOnSet(f, Of(t))
      BY <3>6, <3>8, SumSplit
    <3> QED  BY <2>1, <3>4, <3>5, <3>7, <3>9
  <2> QED  BY <2>2, <2>3
<1> QED  BY <1>1, <1>2

\* The same with names for the classes, which is easier to cite.
Class(S, owner, c) == {x \in S : owner[x] = c}
Classes(S, owner, D) == {x \in S : owner[x] \in D}

LEMMA SumByLabel ==
    ASSUME NEW S, IsFiniteSet(S), NEW f, \A x \in S : f[x] \in Int,
           NEW owner, NEW D, IsFiniteSet(D), NEW part,
           \A c \in D : part[c] = SumFunctionOnSet(f, Class(S, owner, c))
    PROVE  SumFunctionOnSet(part, D) = SumFunctionOnSet(f, Classes(S, owner, D))
<1>1. \A c \in D : part[c] = SumFunctionOnSet(f, {x \in S : owner[x] = c})
  BY DEF Class
<1>2. SumFunctionOnSet(part, D) = SumFunctionOnSet(f, {x \in S : owner[x] \in D})
  BY <1>1, SumByClass
<1> QED  BY <1>2 DEF Classes

\* One term is changed.
LEMMA SumExcept ==
    ASSUME NEW S, IsFiniteSet(S), NEW f, NEW g, NEW x \in S,
           \A y \in S : f[y] \in Int /\ g[y] \in Int,
           \A y \in S : y # x => g[y] = f[y]
    PROVE  SumFunctionOnSet(g, S) = SumFunctionOnSet(f, S) - f[x] + g[x]
<1>1. IsFiniteSet(S \ {x})
  BY FS_Difference
<1>2. SumFunctionOnSet(f, S \ {x}) = SumFunctionOnSet(g, S \ {x})
  <2>1. \A y \in S \ {x} : f[y] = g[y]
    OBVIOUS
  <2> QED  BY <2>1, <1>1, SumSame
<1>3. SumFunctionOnSet(f, S \ {x}) \in Int
  BY <1>1, SumType
<1>4. /\ SumFunctionOnSet(f, S) = f[x] + SumFunctionOnSet(f, S \ {x})
      /\ SumFunctionOnSet(g, S) = g[x] + SumFunctionOnSet(g, S \ {x})
  BY SumWithout
<1> QED  BY <1>2, <1>3, <1>4

\* If no natural number is left, the sum says so.
LEMMA SumIsZero ==
    ASSUME NEW S, IsFiniteSet(S), NEW f, \A x \in S : f[x] \in Nat,
           SumFunctionOnSet(f, S) = 0
    PROVE  \A x \in S : f[x] = 0
<1> SUFFICES ASSUME NEW x \in S PROVE f[x] = 0
  OBVIOUS
<1>1. SumFunctionOnSet(f, S \ {x}) \in Nat
  BY SumNat, FS_Difference
<1>2. SumFunctionOnSet(f, S) = f[x] + SumFunctionOnSet(f, S \ {x})
  BY SumWithout
<1> QED  BY <1>1, <1>2

-----------------------------------------------------------------------------
(* The first and the last of some numbers                                  *)

LEMMA Greatest ==
    ASSUME NEW K \in SUBSET Nat, IsFiniteSet(K), K # {}
    PROVE  \E i \in K : \A j \in K : j <= i
<1> DEFINE T == {s \in SUBSET K : s # {} /\ ~\E i \in s : \A j \in s : j <= i}
<1>1. CASE T = {}
  BY <1>1
<1>2. CASE T # {}
  <2>1. PICK s \in T : \A t \in SUBSET s : t # s => t \notin T
    <3>1. T \in SUBSET (SUBSET K)
      OBVIOUS
    <3> HIDE DEF T
    <3> QED  BY <3>1, <1>2, SmallestSubset
  <2>2. PICK x \in s : TRUE
    BY <2>1
  <2>3. CASE s \ {x} = {}
    BY <2>1, <2>3
  <2>4. CASE s \ {x} # {}
    <3>1. PICK y \in s \ {x} : \A j \in s \ {x} : j <= y
      BY <2>1, <2>2, <2>4
    <3>2. x \in Nat /\ y \in Nat /\ s \subseteq Nat
      BY <2>1
    <3>3. CASE x <= y
      BY <2>1, <3>1, <3>2, <3>3
    <3>4. CASE y < x
      <4>1. \A j \in s : j <= x
        BY <3>1, <3>2, <3>4
      <4> QED  BY <2>1, <2>2, <4>1
    <3> QED  BY <3>2, <3>3, <3>4
  <2> QED  BY <2>3, <2>4
<1> QED  BY <1>1, <1>2

LEMMA Smallest ==
    ASSUME NEW K \in SUBSET Nat, K # {}
    PROVE  \E i \in K : \A j \in K : i <= j
<1>1. PICK i \in K : \A j \in K : ~(<<j, i>> \in OpToRel(<, Nat))
  BY NatLessThanWellFounded, WFMin
<1>2. ASSUME NEW j \in K PROVE i <= j
  <2>1. j < i => <<j, i>> \in OpToRel(<, Nat)
    BY DEF OpToRel
  <2>2. i \in Nat /\ j \in Nat
    OBVIOUS
  <2>3. ~(j < i)
    BY <1>1, <2>1
  <2> QED  BY <2>2, <2>3
<1> QED  BY <1>2
=============================================================================
