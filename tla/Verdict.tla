------------------------------ MODULE Verdict ------------------------------
(***************************************************************************)
(* The verdict of VerifyExact, VerifyFuzzy and VerifySegments              *)
(* (internal/content) on one candidate: similarity, temporal integrity,    *)
(* confidence, tier, deepfake and alert, computed from what Qdrant and the *)
(* registry return.  The floats of the code are numbers here: a percentage *)
(* is counted in units of 1/Unit percent, and a Unit that every count of   *)
(* segments or points divides often enough makes all quotients exact.      *)
(*                                                                         *)
(* A search returns points close enough to a segment; a point stands for   *)
(* one registered keyframe, and only its offset counts.                    *)
(***************************************************************************)
EXTENDS Integers, FiniteSets, FiniteSetsExt, Functions

CONSTANTS
    Segs,        \* segments uploaded
    Faces,       \* face vectors uploaded
    Offsets,     \* timestamp offsets of the candidate's registered keyframes
    Near,        \* points of one content close to a segment or a face: 5 at most
    SemCounts,   \* possible numbers of semantic matches
    Consensus,   \* possible numbers of creators behind the candidate
    Unit         \* parts of a percent: 720 for counts of 4 at most

ASSUME SizeAssumption ==
    /\ Segs \in Nat \ {0}
    /\ Faces \in Nat
    /\ Offsets \subseteq Nat /\ IsFiniteSet(Offsets)
    /\ Near \in 1..5
    /\ SemCounts \subseteq Nat
    /\ Consensus \subseteq Nat
    /\ Unit \in Nat \ {0}

Percent(p) == p * Unit

VARIABLES evidence, verdict

vars == <<evidence, verdict>>

Trust == [consensus : Consensus, verified : BOOLEAN, flagged : BOOLEAN]

\* Manhattan distances of vectors of +1 and -1 that VerifyFuzzy accepts.
Distances == {2 * n : n \in 0..11}

\* hits: the points close to each segment; audio: the upload has an audio
\* vector that matches, has one that does not, or has none; registered: the
\* answer of CountSegments, 0 if it fails.
Evidence ==
    [by : {"exact"}, trust : Trust]
    \cup [by : {"fuzzy"}, distance : Distances, trust : Trust]
    \cup [by : {"segments"},
          hits : [1..Segs -> {H \in SUBSET Offsets : Cardinality(H) <= Near}],
          semantic : SemCounts,
          faces : 0..(Near * Faces),
          audio : {"none", "match", "mismatch"},
          registered : {0, Cardinality(Offsets)},
          trust : Trust]

NoVerdict == [kind |-> "none"]

Init ==
    /\ evidence \in Evidence
    /\ verdict = NoVerdict

-----------------------------------------------------------------------------
(* Confidence                                                              *)

Least(a, b) == IF a < b THEN a ELSE b
Most(a, b)  == IF a < b THEN b ELSE a

\* Each further creator adds 5 percent, 15 at most; only then is 100 a cap.
Boost(score, t) ==
    IF t.consensus > 1
    THEN Least(Percent(100),
               score + Least(Percent(15), (t.consensus - 1) * Percent(5)))
    ELSE score

\* Mutant: the publisher's standing is looked up after the flags.
PublisherLast(score, t) ==
    IF t.verified THEN Percent(100)
    ELSE IF t.flagged THEN Most(0, score - Percent(50)) ELSE score

\* A verified publisher's content counts in full; a flag by a verified
\* publisher takes 50 percent off.
Publisher(score, t) ==
    LET own == IF t.verified THEN Percent(100) ELSE score
    IN  IF t.flagged THEN Most(0, own - Percent(50)) ELSE own

Tier(score) == IF score < Percent(50) THEN "Low"
               ELSE IF score < Percent(80) THEN "Medium" ELSE "High"

\* alert: a DERIVATIVE_DETECTED webhook goes to the creator, who gave an address.
Judge(kind, similarity, temporal, score, alert) ==
    verdict' = [kind |-> kind, similarity |-> similarity, temporal |-> temporal,
                confidence |-> score, tier |-> Tier(score), alert |-> alert]

Exact ==
    /\ verdict = NoVerdict
    /\ evidence.by = "exact"
    /\ Judge("exact", Percent(100), 0, Publisher(Percent(100), evidence.trust), FALSE)
    /\ UNCHANGED evidence

Fuzzy ==
    /\ verdict = NoVerdict
    /\ evidence.by = "fuzzy"
    /\ LET similarity == ((64 - evidence.distance) * Percent(100)) \div 64
       IN  Judge("visual", similarity, 0,
                 Publisher(Boost(similarity, evidence.trust), evidence.trust), FALSE)
    /\ UNCHANGED evidence

-----------------------------------------------------------------------------
(* VerifySegments on one candidate                                         *)

Matched(e) == SumFunction([i \in 1..Segs |-> Cardinality(e.hits[i])])

Coverage(count, of) == IF of = 0 THEN 0 ELSE (count * Percent(100)) \div of

\* What makes the candidate a match, in the order the code tries.
Kind(e) ==
    IF Coverage(Matched(e), Segs) >= Percent(5)
    THEN IF e.audio = "mismatch" THEN "audio deepfake" ELSE "visual"
    ELSE IF Coverage(e.faces, Faces) >= Percent(10) THEN "face"
    ELSE IF Coverage(e.semantic, Segs) >= Percent(10) THEN "semantic"
    ELSE "none"

\* Mutant: a semantic match is not taken for a deepfake.
DeepfakeByFace(k) == k \in {"audio deepfake", "face"}

Deepfake(k) == k \in {"audio deepfake", "face", "semantic"}

\* finalMatchedSegments and finalCoveragePct.
Count(e) == CASE Kind(e) \in {"visual", "audio deepfake"} -> Matched(e)
              [] Kind(e) = "face" -> e.faces
              [] OTHER -> e.semantic

Covered(e) == Coverage(Count(e), IF Kind(e) = "face" THEN Faces ELSE Segs)

Similarity(e) ==
    LET both == (Covered(e) + Coverage(Count(e), e.registered)) \div 2
    IN  IF Kind(e) = "audio deepfake" THEN both \div 2 ELSE both

\* The offset taken for each segment that has one: that of its first point.
Firsts(e) == LET I == {i \in 1..Segs : e.hits[i] # {}}
             IN  {f \in [I -> Offsets] : \A i \in I : f[i] \in e.hits[i]}

Gap(a, b) == IF a < b THEN b - a ELSE a - b

\* Mutant: the shift between the two sequences is not taken out.
DriftUnshifted(f) ==
    SumFunction([i \in DOMAIN f |-> Gap(f[i], i)])

\* How far the matched offsets are from the segments' own numbers, shifted so
\* that the first ones agree.
Drift(f) ==
    LET first == Min(DOMAIN f)
    IN  SumFunction([i \in DOMAIN f |-> Gap(f[i], i + (f[first] - first))])

\* 0 also means: fewer than two segments to compare.
Temporal(e, f) ==
    LET n == Cardinality(DOMAIN f)
    IN  IF Count(e) > 1 /\ n > 1
        THEN Most(0, (Percent(100) * (n * n - Drift(f))) \div (n * n))
        ELSE 0

Score(e, temporal) ==
    LET blend == IF temporal > 0 THEN (7 * Similarity(e) + 3 * temporal) \div 10
                 ELSE Similarity(e)
    IN  IF Deepfake(Kind(e)) THEN blend \div 2 ELSE blend

Segments ==
    /\ verdict = NoVerdict
    /\ evidence.by = "segments"
    /\ Kind(evidence) # "none"
    /\ \E f \in Firsts(evidence) :
         LET temporal == Temporal(evidence, f)
             boosted == Boost(Score(evidence, temporal), evidence.trust)
         IN  Judge(Kind(evidence), Similarity(evidence), temporal,
                   Publisher(boosted, evidence.trust), Similarity(evidence) >= Percent(80))
    /\ UNCHANGED evidence

Next == Exact \/ Fuzzy \/ Segments

Spec == Init /\ [][Next]_vars

-----------------------------------------------------------------------------
(* Properties                                                              *)

Given(kinds) == verdict # NoVerdict /\ verdict.kind \in kinds

BySegments == Given({"visual", "audio deepfake", "face", "semantic"}) /\ evidence.by = "segments"

\* More matches than segments or faces uploaded, or than points registered: what
\* several keyframes close to one segment lead to, as each of them is counted.
Overcounted(e) ==
    /\ e.by = "segments"
    /\ \/ Covered(e) > Percent(100)
       \/ e.registered # 0 /\ Count(e) > e.registered

\* VerifyFuzzy and VerifySegments are surer of a content than VerifyExact is of
\* the original (50 percent once a verified publisher has flagged it) only when
\* matches were counted twice, and then neither of a verified publisher's content
\* nor of one with several creators, whose boost is capped at 100.
SurerOnlyIfOvercounted ==
    verdict # NoVerdict
    => /\ verdict.confidence >= 0
       /\ verdict.confidence > Percent(IF evidence.trust.flagged THEN 50 ELSE 100)
            => /\ Overcounted(evidence)
               /\ evidence.trust.consensus <= 1
               /\ ~evidence.trust.verified

\* A deepfake (VerifySegments) is of high confidence only if its publisher is
\* verified or its matches were counted twice.  An audio deepfake alerts its
\* creator only if, with its similarity halved before the threshold of 80 percent
\* is applied to it, the two shares it is the mean of still make 320 percent:
\* not without overcounting, whatever matched.
DeepfakeHighOnlyIfOvercounted ==
    Given({"audio deepfake", "face", "semantic"})
    => /\ verdict.tier = "High" => evidence.trust.verified \/ Overcounted(evidence)
       /\ verdict.kind = "audio deepfake" /\ verdict.alert
            => /\ Covered(evidence) + Coverage(Count(evidence), evidence.registered) >= Percent(320)
               /\ Overcounted(evidence)

\* The temporal integrity is full exactly when the matched keyframes of the
\* original lie as far apart as the matching segments; of a face or an image
\* that matched alone, nothing is compared.
IntactIffSameSpacing ==
    /\ BySegments
    /\ Count(evidence) > 1
    /\ Matched(evidence) > 1
    /\ \A i \in 1..Segs : Cardinality(evidence.hits[i]) <= 1
    => (verdict.temporal = Percent(100)
         <=> \A i, j \in 1..Segs : i < j =>
                \A a \in evidence.hits[i], b \in evidence.hits[j] : b - a = j - i)
=============================================================================
