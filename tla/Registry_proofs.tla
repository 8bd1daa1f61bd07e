--------------------------- MODULE Registry_proofs ---------------------------
(***************************************************************************)
(* Proofs about Registry, for any contents, similarities, declared parents *)
(* and any number of workers and requests: Postgres is written first, so   *)
(* that nothing names a content it does not hold, and a parent that was    *)
(* found by a check is stored before its derivative; what the lineage, the *)
(* record cache and the points of a content owe to that; and which like    *)
(* contents can miss each other.                                           *)
(***************************************************************************)
EXTENDS Registry, Sums, FiniteSetTheorems, TLAPS

LEMMA NoRowApart == NoRow \notin Row /\ \A r \in Row : r # NoRow
  BY NoRowAssumption

LEMMA NoHashApart == NoHash \notin Hash
  BY ContentAssumption

\* What Top returns was found, or is nothing.
LEMMA TopType ==
    ASSUME NEW h \in Hash, NEW S \in SUBSET Hash, NEW b \in BOOLEAN, NEW m \in Top(h, S, b)
    PROVE  m = NoMatch \/ (m \in Match /\ m.top \in S)
  BY DEF Top

LEMMA MatchType ==
    /\ \A m \in Match : m.top \in Hash /\ m.close \in BOOLEAN /\ m # NoMatch
    /\ NoMatch.top = NoHash /\ ~NoMatch.close
    /\ \A h \in Hash : Exact(h) \in Match /\ Exact(h).top = h /\ Exact(h).close
  BY NoHashApart DEF Match, NoMatch, Exact

\* VerifyFuzzy finds like contents, some of them if a look-up fails.
LEMMA FuzzyType ==
    ASSUME NEW w \in Workers, CheckImage(w) \/ CheckFails(w)
    PROVE  \E S \in SUBSET Like(job[w].hash, SignatureTypes) :
              /\ \E m \in Top(job[w].hash, S, FALSE) : Adopt(w, m, "postgres")
              /\ ReadThrough(S)
  BY DEF CheckImage, CheckFails, FuzzyFound

\* So does VerifySegments, unless it finds the content itself.
LEMMA FoundWithoutRedis ==
    ASSUME NEW w \in Workers, CheckWithoutRedis(w)
    PROVE  \/ /\ pg[job[w].hash] # NoRow
              /\ Adopt(w, Exact(job[w].hash), "postgres")
           \/ \E t \in {SignatureTypes, {PointType(TypeOf(job[w]))}}, b \in BOOLEAN :
                 \E S \in SUBSET Like(job[w].hash, t) :
                    \E m \in Top(job[w].hash, S, b) : Adopt(w, m, "postgres")
<1> DEFINE h == job[w].hash
           t == PointType(TypeOf(job[w]))
<1>1. CASE \E S \in FuzzyFound(h) : \E m \in Top(h, S, FALSE) : Adopt(w, m, "postgres")
  BY <1>1 DEF FuzzyFound
<1>2. CASE \E S \in SegmentsFound(h, t, Blurred(h, t)) :
              \E m \in Top(h, S, Blurred(h, t)) : Adopt(w, m, "postgres")
  <2>1. Blurred(h, t) \in BOOLEAN
    BY DEF Blurred, Crowded
  <2>2. SegmentsFound(h, t, Blurred(h, t)) \subseteq SUBSET Like(h, {t})
    BY DEF SegmentsFound
  <2> HIDE DEF h, t
  <2>3. \E b \in BOOLEAN : \E S \in SUBSET Like(h, {t}) :
           \E m \in Top(h, S, b) : Adopt(w, m, "postgres")
    BY <1>2, <2>1, <2>2
  <2> QED  BY <2>3 DEF h, t
<1> QED  BY <1>1, <1>2 DEF CheckWithoutRedis

LEMMA ReadThroughType ==
    ASSUME TypeOK, NEW C, ReadThrough(C)
    PROVE  cache' \in [Hash -> Row \cup {NoRow}]
  BY DEF TypeOK, ReadThrough

LEMMA FaultType == ASSUME TypeOK, Fault \/ UNCHANGED faults PROVE faults' \in 0..MaxFaults
  BY ProcessAssumption DEF TypeOK, Fault

LEMMA SegmentsType ==
    ASSUME TypeOK, NEW h \in Hash, NEW t, NEW m, NEW fresh, Segments(h, t, m, fresh)
    PROVE  cache' \in [Hash -> Row \cup {NoRow}] /\ faults' \in 0..MaxFaults
<1>1. faults' \in 0..MaxFaults
  BY FaultType DEF Segments
<1>2. CASE UNCHANGED cache
  BY <1>1, <1>2 DEF TypeOK
<1>3. CASE \E C : ReadThrough(C)
  BY <1>1, <1>3, ReadThroughType
<1> QED  BY <1>2, <1>3 DEF Segments

\* A job in progress, from its place in the loop.
LEMMA BusyJob ==
    ASSUME TypeOK, NEW p \in Procs, job[p].at # "idle"
    PROVE  job[p] \in Job
  BY DEF TypeOK, IdleJob

LEMMA SetType ==
    ASSUME TypeOK, NEW p \in Procs, NEW j \in {IdleJob} \cup Job, Set(p, j)
    PROVE  job' \in [Procs -> {IdleJob} \cup Job]
  BY DEF TypeOK, Set

LEMMA StepType ==
    ASSUME TypeOK, NEW p \in Procs, NEW from, NEW to \in {"cache", "vectors", "semantic"},
           from # "idle", Step(p, from, to)
    PROVE  job' \in [Procs -> {IdleJob} \cup Job]
<1>1. job[p] \in Job
  BY BusyJob DEF Step
<1>2. [job[p] EXCEPT !.at = to] \in Job
  BY <1>1 DEF Job
<1> QED  BY <1>2, SetType DEF Step

LEMMA AdoptType ==
    ASSUME TypeOK, NEW w \in Procs, job[w].at # "idle", NEW m \in Match \cup {NoMatch},
           Adopt(w, m, "postgres")
    PROVE  /\ job' \in [Procs -> {IdleJob} \cup Job]
           /\ job'[w].at = "postgres" /\ job'[w].hash = job[w].hash
           /\ job'[w].parent \in {m.top, Declared[job[w].hash], NoHash}
           /\ m.close => job'[w].parent = m.top
           /\ \A p \in Procs \ {w} : job'[p] = job[p]
<1>1. job[w] \in Job
  BY BusyJob
<1>2. Declared[job[w].hash] \in Hash \cup {NoHash} /\ m.top \in Hash \cup {NoHash}
  BY <1>1, ContentAssumption, MatchType DEF Job
<1>3. PICK parent : parent = IF m.close THEN m.top
                             ELSE IF job[w].full THEN Declared[job[w].hash] ELSE NoHash
  OBVIOUS
<1>4. Set(w, [job[w] EXCEPT !.at = "postgres", !.match = NoMatch, !.parent = parent])
  BY <1>3 DEF Adopt
<1>5. parent \in {m.top, Declared[job[w].hash], NoHash} /\ (m.close => parent = m.top)
  BY <1>3
<1>6. PICK new : new = [job[w] EXCEPT !.at = "postgres", !.match = NoMatch, !.parent = parent]
  OBVIOUS
<1>7. /\ new \in Job
      /\ new.at = "postgres" /\ new.hash = job[w].hash /\ new.parent = parent
  BY <1>1, <1>2, <1>5, <1>6 DEF Job
<1> QED  BY <1>4, <1>5, <1>6, <1>7, SetType DEF Set, TypeOK

LEMMA PointTypes == \A m : PointType(m) \in {"keyframe", "text", "image"}
  BY DEF PointType

LEMMA AddPointsType ==
    ASSUME TypeOK, NEW h \in Hash, NEW t \in IndexTypes, AddPoints(h, t)
    PROVE  /\ index' \in [Hash -> [IndexTypes -> Nat]]
           /\ \A g \in Hash, u \in IndexTypes : index'[g][u] > 0 => index[g][u] > 0 \/ g = h
<1>1. index[h] \in [IndexTypes -> Nat]
  BY DEF TypeOK
<1>2. [index[h] EXCEPT ![t] = index[h][t] + 1] \in [IndexTypes -> Nat]
  BY <1>1
<1>3. index' = [index EXCEPT ![h] = [index[h] EXCEPT ![t] = index[h][t] + 1]]
  BY DEF AddPoints
<1> QED  BY <1>2, <1>3 DEF TypeOK

LEMMA TypeStep == TypeOK /\ [Next]_vars => TypeOK'
<1> SUFFICES ASSUME TypeOK, [Next]_vars PROVE TypeOK'
  OBVIOUS
<1> USE DEF Procs
<1>1. ASSUME NEW w \in Workers, NEW h \in Hash, Begin(w, h) PROVE TypeOK'
  <2>1. PICK full \in BOOLEAN :
           /\ Set(w, [IdleJob EXCEPT !.at = "check", !.hash = h, !.full = full])
           /\ Fault \/ UNCHANGED faults
    BY <1>1 DEF Begin
  <2>2. [IdleJob EXCEPT !.at = "check", !.hash = h, !.full = full] \in Job
    BY DEF IdleJob, Job
  <2>3. job' \in [Procs -> {IdleJob} \cup Job]
    BY <2>1, <2>2, SetType
  <2>4. overlap' \subseteq SUBSET Hash
    <3>1. \A v \in Workers : job[v].at # "idle" => job[v].hash \in Hash
      BY BusyJob DEF Job
    <3> QED  BY <1>1, <3>1 DEF Begin, TypeOK
  <2>5. delivered' \in [Hash -> Nat]
    BY <1>1 DEF Begin, TypeOK
  <2> QED  BY <1>1, <2>1, <2>3, <2>4, <2>5, FaultType DEF Begin, stores, TypeOK
<1>2. ASSUME NEW w \in Workers, NoCheck(w) PROVE TypeOK'
  BY <1>2, AdoptType DEF NoCheck, stores, TypeOK
<1>3. ASSUME NEW w \in Workers, CheckImage(w) \/ CheckFails(w) PROVE TypeOK'
  <2>1. job[w].hash \in Hash /\ job[w].at # "idle"
    BY <1>3, BusyJob DEF CheckImage, CheckFails, Job
  <2>2. PICK S \in SUBSET Hash : /\ \E m \in Top(job[w].hash, S, FALSE) : Adopt(w, m, "postgres")
                               /\ ReadThrough(S)
    BY <1>3, FuzzyType DEF Like
  <2>3. PICK m \in Top(job[w].hash, S, FALSE) : Adopt(w, m, "postgres")
    BY <2>2
  <2>4. m \in Match \cup {NoMatch}
    BY <2>1, <2>2, <2>3, TopType
  <2>5. faults' \in 0..MaxFaults
    BY <1>3, FaultType DEF CheckImage, CheckFails
  <2>6. job' \in [Procs -> {IdleJob} \cup Job]
    BY <2>1, <2>3, <2>4, AdoptType
  <2>7. cache' \in [Hash -> Row \cup {NoRow}]
    BY <2>2, ReadThroughType
  <2> QED  BY <1>3, <2>5, <2>6, <2>7 DEF CheckImage, CheckFails, TypeOK
<1>4. ASSUME NEW w \in Workers, CheckSegments(w) PROVE TypeOK'
  <2>1. job[w] \in Job
    BY <1>4, BusyJob DEF CheckSegments
  <2>2. PICK m \in Match \cup {NoMatch}, fresh \in BOOLEAN :
           /\ Segments(job[w].hash, PointType(TypeOf(job[w])), m, fresh)
           /\ IF fresh THEN Set(w, [job[w] EXCEPT !.at = "remember", !.match = m])
              ELSE Adopt(w, m, "postgres")
    BY <1>4 DEF CheckSegments
  <2>3. job' \in [Procs -> {IdleJob} \cup Job]
    <3>1. [job[w] EXCEPT !.at = "remember", !.match = m] \in Job
      BY <2>1 DEF Job
    <3> QED  BY <1>4, <2>2, <3>1, SetType, AdoptType DEF CheckSegments
  <2>4. cache' \in [Hash -> Row \cup {NoRow}] /\ faults' \in 0..MaxFaults
    BY <2>1, <2>2, SegmentsType DEF Job
  <2>5. recalled' \subseteq Hash /\ blurred' \subseteq Hash
    BY <1>4, <2>1 DEF CheckSegments, Blur, TypeOK, Job
  <2> QED  BY <1>4, <2>3, <2>4, <2>5 DEF CheckSegments, TypeOK
<1>5. ASSUME NEW w \in Workers, CheckWithoutRedis(w) PROVE TypeOK'
  <2>1. job[w].hash \in Hash /\ job[w].at # "idle"
    BY <1>5, BusyJob DEF CheckWithoutRedis, Job
  <2>2. \E m \in Match \cup {NoMatch} : Adopt(w, m, "postgres")
    <3>1. CASE Adopt(w, Exact(job[w].hash), "postgres")
      BY <2>1, <3>1, MatchType
    <3>2. CASE \E S \in SUBSET Hash, b \in BOOLEAN :
                  \E m \in Top(job[w].hash, S, b) : Adopt(w, m, "postgres")
      BY <2>1, <3>2, TopType
    <3> QED  BY <1>5, <3>1, <3>2, FoundWithoutRedis DEF Like
  <2>3. job' \in [Procs -> {IdleJob} \cup Job]
    BY <2>1, <2>2, AdoptType
  <2>4. blurred' \subseteq Hash
    BY <1>5, <2>1 DEF CheckWithoutRedis, Blur, TypeOK
  <2>5. faults' \in 0..MaxFaults
    BY <1>5, FaultType DEF CheckWithoutRedis
  <2> QED  BY <1>5, <2>3, <2>4, <2>5 DEF CheckWithoutRedis, stores, TypeOK
<1>6. ASSUME NEW p \in Procs, SaveSegmentCache(p) PROVE TypeOK'
  <2>1. job[p] \in Job
    BY <1>6, BusyJob DEF SaveSegmentCache
  <2>2. job' \in [Procs -> {IdleJob} \cup Job]
    BY <1>6, <2>1, SetType, AdoptType DEF SaveSegmentCache, End, Job
  <2>3. segCache' \in [Hash -> Match \cup {NoMatch}]
    BY <1>6, <2>1 DEF SaveSegmentCache, TypeOK, Job
  <2> QED  BY <1>6, <2>2, <2>3, FaultType DEF SaveSegmentCache, TypeOK
<1>7. ASSUME NEW w \in Workers, SavePostgres(w) \/ SaveCache(w) PROVE TypeOK'
  <2>1. job[w] \in Job
    BY <1>7, BusyJob DEF SavePostgres, SaveCache, Step
  <2>2. Record(w) \in Row
    BY <2>1 DEF Record, Row, Job
  <2>3. job' \in [Procs -> {IdleJob} \cup Job]
    BY <1>7, StepType DEF SavePostgres, SaveCache
  <2>4. /\ pg' \in [Hash -> Row \cup {NoRow}]
        /\ cache' \in [Hash -> Row \cup {NoRow}]
    BY <1>7, <2>1, <2>2 DEF SavePostgres, SaveCache, Insert, TypeOK
  <2> QED  BY <1>7, <2>3, <2>4, FaultType DEF SavePostgres, SaveCache, TypeOK
<1>8. ASSUME NEW w \in Workers, SaveVectors(w) \/ SaveSemanticVectors(w) \/ SaveTextVectors(w)
      PROVE  TypeOK'
  <2>1. job[w] \in Job
    BY <1>8, BusyJob DEF SaveVectors, SaveSemanticVectors, SaveTextVectors, Step
  <2>2. job' \in [Procs -> {IdleJob} \cup Job]
    BY <1>8, StepType, SetType DEF SaveVectors, SaveSemanticVectors, SaveTextVectors, End
  <2>3. index' \in [Hash -> [IndexTypes -> Nat]]
    <3>1. /\ job[w].hash \in Hash
          /\ {"semantic", "text"} \cup {IndexedAs(job[w])} \subseteq IndexTypes
      BY <2>1, PointTypes DEF Job, IndexedAs, IndexTypes, SignatureTypes
    <3> QED
      BY <1>8, <3>1, AddPointsType DEF SaveVectors, SaveSemanticVectors, SaveTextVectors, TypeOK
  <2>4. done' \subseteq Hash
    BY <1>8, <2>1 DEF SaveVectors, SaveSemanticVectors, SaveTextVectors, TypeOK, Job
  <2> QED
    BY <1>8, <2>2, <2>3, <2>4, FaultType
       DEF SaveVectors, SaveSemanticVectors, SaveTextVectors, TypeOK
<1>9. ASSUME NEW w \in Workers, RegisterFails(w) PROVE TypeOK'
  BY <1>9, SetType, FaultType DEF RegisterFails, End, stores, TypeOK
<1>10. ASSUME NEW r \in Clients, NEW h \in Hash, LookUp(r, h) PROVE TypeOK'
  <2>1. [IdleJob EXCEPT !.at = "fill", !.hash = h] \in Job
    BY DEF IdleJob, Job
  <2> QED  BY <1>10, <2>1, SetType, FaultType DEF LookUp, stores, TypeOK
<1>11. ASSUME NEW r \in Clients, FillCache(r) PROVE TypeOK'
  <2>1. job[r].hash \in Hash
    BY <1>11, BusyJob DEF FillCache, Job
  <2>2. cache' \in [Hash -> Row \cup {NoRow}]
    BY <1>11, <2>1 DEF FillCache, TypeOK
  <2> QED  BY <1>11, <2>2, SetType, FaultType DEF FillCache, End, TypeOK
<1>12. ASSUME NEW r \in Clients, NEW h \in Hash, QuerySegments(r, h) PROVE TypeOK'
  <2>1. PICK m \in Match \cup {NoMatch}, fresh \in BOOLEAN :
           /\ Segments(h, PointType(MediaType[h]), m, fresh)
           /\ IF fresh
              THEN Set(r, [IdleJob EXCEPT !.at = "remember", !.hash = h, !.match = m])
              ELSE UNCHANGED job
    BY <1>12 DEF QuerySegments
  <2>2. [IdleJob EXCEPT !.at = "remember", !.hash = h, !.match = m] \in Job
    BY DEF IdleJob, Job
  <2>3. job' \in [Procs -> {IdleJob} \cup Job]
    BY <2>1, <2>2, SetType DEF TypeOK
  <2> QED  BY <1>12, <2>1, <2>3, SegmentsType DEF QuerySegments, TypeOK
<1>13. ASSUME NEW h \in Hash, Expire(h) PROVE TypeOK'
  BY <1>13 DEF Expire, TypeOK
<1>14. CASE Crash
  BY <1>14, FaultType DEF Crash, stores, TypeOK
<1>15. CASE UNCHANGED vars
  BY <1>15 DEF vars, TypeOK
<1> QED
  BY <1>1, <1>2, <1>3, <1>4, <1>5, <1>6, <1>7, <1>8, <1>9, <1>10, <1>11, <1>12, <1>13, <1>14, <1>15
     DEF Next, RegisterStep, RequestStep

\* The three stores and the calls in progress keep their types.
THEOREM TypeCorrect == Spec => []TypeOK
<1>1. Init => TypeOK
  BY ProcessAssumption DEF Init, TypeOK
<1> QED  BY <1>1, TypeStep, PTL DEF Spec
-----------------------------------------------------------------------------
(* Nothing names a content that Postgres does not hold                     *)

Named(g) == pg[g] # NoRow

\* What a call in progress is about to write names contents that are stored, but
\* for a parent that the metadata declare.
Backed(j) ==
    /\ j.at \in {"cache", "vectors", "semantic", "fill"} => Named(j.hash)
    /\ j.at = "remember" => j.match = NoMatch \/ Named(j.match.top)
    /\ j.at = "postgres" => j.parent \in {NoHash, Declared[j.hash]} \/ Named(j.parent)

Held == \A p \in Procs : Backed(job[p])

\* Rows are written once, and with a parent that is declared or stored.
LEMMA RowsStay ==
    ASSUME TypeOK, Held, [Next]_vars
    PROVE  /\ \A h \in Hash : Named(h) => pg'[h] = pg[h]
           /\ \A h \in Hash : pg'[h] # pg[h] => \/ pg'[h].parent \in {NoHash, Declared[h]}
                                               \/ Named(pg'[h].parent)
<1>1. CASE \E w \in Workers : SavePostgres(w)
  <2>1. PICK w \in Workers : SavePostgres(w)
    BY <1>1
  <2>2. job[w] \in Job /\ w \in Procs
    BY <2>1, BusyJob DEF SavePostgres, Step, Procs
  <2>3. \A h \in Hash \ {job[w].hash} : pg'[h] = pg[h]
    BY <2>1, <2>2 DEF SavePostgres, Insert, TypeOK
  <2>4. pg'[job[w].hash] = IF Named(job[w].hash) THEN pg[job[w].hash] ELSE Record(w)
    BY <2>1, <2>2 DEF SavePostgres, Insert, TypeOK, Named, Job
  <2>5. Record(w).parent = job[w].parent
    BY DEF Record
  <2>6. job[w].parent \in {NoHash, Declared[job[w].hash]} \/ Named(job[w].parent)
    BY <2>1, <2>2 DEF Held, Backed, SavePostgres, Step
  <2> QED  BY <2>3, <2>4, <2>5, <2>6
<1>2. CASE UNCHANGED pg
  BY <1>2 DEF Named
<1> QED
  BY <1>1, <1>2 DEF Next, RegisterStep, RequestStep, vars, stores, NoCheck, CheckImage,
     CheckSegments, CheckWithoutRedis, CheckFails, SaveSegmentCache, SaveCache, SaveVectors,
     SaveSemanticVectors, SaveTextVectors, RegisterFails, Begin, LookUp, FillCache,
     QuerySegments, Expire, Crash

\* The match of a check is stored.
LEMMA FoundIsNamed ==
    ASSUME TypeOK, RowFirst, NEW h \in Hash, NEW types \in SUBSET IndexTypes,
           NEW S \in SUBSET Like(h, types), NEW b \in BOOLEAN, NEW m \in Top(h, S, b)
    PROVE  m = NoMatch \/ (m \in Match /\ Named(m.top))
<1>1. Like(h, types) \subseteq {c \in Hash : Named(c)}
  BY DEF Like, RowFirst, Named
<1>2. S \in SUBSET Hash
  BY <1>1
<1>3. m = NoMatch \/ (m \in Match /\ m.top \in S)
  BY <1>2, TopType
<1> QED  BY <1>1, <1>3

\* VerifyExact copies rows that are there.
LEMMA ReadThroughNames ==
    ASSUME TypeOK, RowFirst, NEW C, ReadThrough(C), UNCHANGED pg
    PROVE  \A h \in Hash : cache'[h] # NoRow => Named(h)
  BY DEF TypeOK, RowFirst, ReadThrough, Named

LEMMA SegmentsNames ==
    ASSUME TypeOK, RowFirst, NEW h \in Hash, NEW t \in IndexTypes, NEW m, NEW fresh,
           Segments(h, t, m, fresh), UNCHANGED pg
    PROVE  /\ m = NoMatch \/ Named(m.top)
           /\ \A g \in Hash : cache'[g] # NoRow => Named(g)
<1>1. CASE segCache[h] # NoMatch
  BY <1>1 DEF Segments, RowFirst, Named
<1>2. CASE m = Exact(h) /\ pg[h] # NoRow /\ ReadThrough({h})
  BY <1>2, ReadThroughNames, MatchType DEF Named
<1>3. CASE \E b \in BOOLEAN : \E S \in SegmentsFound(h, t, b) :
              m \in Top(h, S, b) /\ ReadThrough(S)
  <2>1. PICK b \in BOOLEAN, S \in SUBSET Like(h, {t}) : m \in Top(h, S, b) /\ ReadThrough(S)
    BY <1>3 DEF SegmentsFound
  <2>2. {t} \in SUBSET IndexTypes
    OBVIOUS
  <2> QED  BY <2>1, <2>2, FoundIsNamed, ReadThroughNames
<1> QED  BY <1>1, <1>2, <1>3 DEF Segments

\* A call keeps its backing while others write.
LEMMA BackedStays ==
    ASSUME TypeOK, Held, [Next]_vars
    PROVE  \A j \in {IdleJob} \cup Job : Backed(j) => Backed(j)'
<1>1. \A h \in Hash : Named(h) => Named(h)'
  BY RowsStay DEF Named
<1>2. \A j \in {IdleJob} \cup Job : j.hash \in Hash \/ j.at = "idle"
  BY DEF Job, IdleJob
<1>3. \A j \in {IdleJob} \cup Job : j.parent \in Hash \cup {NoHash}
  BY DEF Job, IdleJob
<1>4. \A j \in {IdleJob} \cup Job : j.match = NoMatch \/ j.match.top \in Hash
  BY MatchType DEF Job, IdleJob
<1> QED  BY <1>1, <1>2, <1>3, <1>4 DEF Backed

\* It is enough to look at the call that is made.
LEMMA HeldStep ==
    ASSUME TypeOK, Held, [Next]_vars, NEW p \in Procs, NEW j \in {IdleJob} \cup Job,
           job' = [job EXCEPT ![p] = j],
           Backed(j) \/ Backed(j)'
    PROVE  Held'
<1>1. Backed(j)'
  BY BackedStays
<1>2. \A q \in Procs \ {p} : Backed(job[q])'
  BY BackedStays DEF Held, TypeOK
<1>3. job'[p] = j
  BY DEF TypeOK
<1> QED  BY <1>1, <1>2, <1>3 DEF Held

\* The call that adopts a match or a declared parent.
LEMMA AdoptHeld ==
    ASSUME TypeOK, Held, [Next]_vars, NEW w \in Workers, job[w].at # "idle",
           NEW m \in Match \cup {NoMatch}, m = NoMatch \/ Named(m.top),
           Adopt(w, m, "postgres")
    PROVE  Held'
<1>1. /\ job'[w].at = "postgres" /\ job'[w].hash = job[w].hash
      /\ job'[w].parent \in {m.top, Declared[job[w].hash], NoHash}
      /\ job' \in [Procs -> {IdleJob} \cup Job]
      /\ \A p \in Procs \ {w} : job'[p] = job[p]
  BY AdoptType DEF Procs
<1>2. \A j \in {IdleJob} \cup Job : j = job'[w] => Backed(j)
  BY <1>1, MatchType DEF Backed
<1>3. job' = [job EXCEPT ![w] = job'[w]]
  BY <1>1 DEF TypeOK
<1>4. \A j \in {IdleJob} \cup Job : j = job'[w] => Held'
  BY <1>2, <1>3, HeldStep DEF Procs
<1> QED  BY <1>1, <1>4 DEF Procs

LEMMA IdleBacked == Backed(IdleJob)
  BY DEF Backed, IdleJob

LEMMA HeldNext == TypeOK /\ RowFirst /\ Held /\ [Next]_vars => Held'
<1> SUFFICES ASSUME TypeOK, RowFirst, Held, [Next]_vars PROVE Held'
  OBVIOUS
<1> USE DEF Procs
<1>1. ASSUME NEW w \in Workers, NEW h \in Hash, Begin(w, h) PROVE Held'
  <2>1. PICK full \in BOOLEAN :
           Set(w, [IdleJob EXCEPT !.at = "check", !.hash = h, !.full = full])
    BY <1>1 DEF Begin
  <2> DEFINE j == [IdleJob EXCEPT !.at = "check", !.hash = h, !.full = full]
  <2>2. j \in Job /\ Backed(j)
    BY DEF IdleJob, Job, Backed
  <2> HIDE DEF j
  <2> QED  BY <2>1, <2>2, HeldStep DEF Set, j
<1>2. ASSUME NEW w \in Workers, NoCheck(w) PROVE Held'
  BY <1>2, AdoptHeld DEF NoCheck
<1>3. ASSUME NEW w \in Workers, CheckImage(w) \/ CheckFails(w) PROVE Held'
  <2>1. job[w].hash \in Hash /\ job[w].at # "idle"
    BY <1>3, BusyJob DEF CheckImage, CheckFails, Job
  <2>2. SignatureTypes \in SUBSET IndexTypes
    BY DEF IndexTypes
  <2>3. PICK S \in SUBSET Like(job[w].hash, SignatureTypes) :
           \E m \in Top(job[w].hash, S, FALSE) : Adopt(w, m, "postgres")
    BY <1>3, FuzzyType
  <2>4. PICK m \in Top(job[w].hash, S, FALSE) : Adopt(w, m, "postgres")
    BY <2>3
  <2>5. m = NoMatch \/ (m \in Match /\ Named(m.top))
    BY <2>1, <2>2, <2>3, <2>4, FoundIsNamed
  <2> QED  BY <2>1, <2>4, <2>5, AdoptHeld
<1>4. ASSUME NEW w \in Workers, CheckSegments(w) PROVE Held'
  <2>1. job[w] \in Job
    BY <1>4, BusyJob DEF CheckSegments
  <2>2. PICK m \in Match \cup {NoMatch}, fresh \in BOOLEAN :
           /\ Segments(job[w].hash, PointType(TypeOf(job[w])), m, fresh)
           /\ IF fresh THEN Set(w, [job[w] EXCEPT !.at = "remember", !.match = m])
              ELSE Adopt(w, m, "postgres")
    BY <1>4 DEF CheckSegments
  <2>3. PointType(TypeOf(job[w])) \in IndexTypes
    BY PointTypes DEF IndexTypes, SignatureTypes
  <2>4. m = NoMatch \/ Named(m.top)
    BY <1>4, <2>1, <2>2, <2>3, SegmentsNames DEF CheckSegments, Job
  <2>5. CASE fresh
    <3> DEFINE j == [job[w] EXCEPT !.at = "remember", !.match = m]
    <3>1. j \in Job /\ Backed(j)
      BY <2>1, <2>4 DEF Job, Backed
    <3>2. job' = [job EXCEPT ![w] = j]
      BY <2>2, <2>5 DEF Set
    <3> HIDE DEF j
    <3> QED  BY <3>1, <3>2, HeldStep
  <2>6. CASE ~fresh
    BY <1>4, <2>2, <2>4, <2>6, AdoptHeld DEF CheckSegments
  <2> QED  BY <2>5, <2>6
<1>5. ASSUME NEW w \in Workers, CheckWithoutRedis(w) PROVE Held'
  <2>1. job[w].hash \in Hash /\ job[w].at # "idle"
    BY <1>5, BusyJob DEF CheckWithoutRedis, Job
  <2>2. {SignatureTypes, {PointType(TypeOf(job[w]))}} \subseteq SUBSET IndexTypes
    BY PointTypes DEF IndexTypes, SignatureTypes
  <2>3. \E m \in Match \cup {NoMatch} : /\ m = NoMatch \/ Named(m.top)
                                       /\ Adopt(w, m, "postgres")
    <3>1. CASE Named(job[w].hash) /\ Adopt(w, Exact(job[w].hash), "postgres")
      BY <2>1, <3>1, MatchType
    <3>2. ASSUME NEW types \in SUBSET IndexTypes, NEW b \in BOOLEAN,
                 NEW S \in SUBSET Like(job[w].hash, types),
                 NEW m \in Top(job[w].hash, S, b), Adopt(w, m, "postgres")
          PROVE  \E n \in Match \cup {NoMatch} : /\ n = NoMatch \/ Named(n.top)
                                                /\ Adopt(w, n, "postgres")
      BY <2>1, <3>2, FoundIsNamed
    <3> QED  BY <1>5, <2>2, <3>1, <3>2, FoundWithoutRedis DEF Named
  <2> QED  BY <2>1, <2>3, AdoptHeld
<1>6. ASSUME NEW p \in Procs, SaveSegmentCache(p) PROVE Held'
  <2>1. job[p] \in Job /\ Backed(job[p])
    BY <1>6, BusyJob DEF SaveSegmentCache, Held
  <2>2. job[p].match = NoMatch \/ Named(job[p].match.top)
    BY <1>6, <2>1 DEF Backed, SaveSegmentCache
  <2>3. CASE p \in Workers
    BY <1>6, <2>1, <2>2, <2>3, AdoptHeld DEF SaveSegmentCache, Job
  <2>4. CASE p \notin Workers
    BY <1>6, <2>4, IdleBacked, HeldStep DEF SaveSegmentCache, End, Set
  <2> QED  BY <2>3, <2>4
<1>7. ASSUME NEW w \in Workers, SavePostgres(w) \/ SaveCache(w) \/ SaveVectors(w) PROVE Held'
  <2>1. job[w] \in Job /\ Backed(job[w])
    BY <1>7, BusyJob DEF SavePostgres, SaveCache, SaveVectors, Step, Held
  <2>2. PICK to \in {"cache", "vectors", "semantic"} :
           job' = [job EXCEPT ![w] = [job[w] EXCEPT !.at = to]]
    BY <1>7 DEF SavePostgres, SaveCache, SaveVectors, Step, Set
  <2> DEFINE j == [job[w] EXCEPT !.at = to]
  <2>3. j \in Job /\ j.hash = job[w].hash /\ j.at = to
    BY <2>1 DEF Job
  <2>4. Named(job[w].hash) \/ pg'[job[w].hash] # NoRow
    <3>1. Record(w) \in Row
      BY <2>1 DEF Record, Row, Job
    <3>2. CASE SavePostgres(w)
      BY <2>1, <3>1, <3>2, NoRowApart DEF SavePostgres, Insert, TypeOK, Job
    <3>3. CASE SaveCache(w) \/ SaveVectors(w)
      BY <2>1, <3>3 DEF SaveCache, SaveVectors, Step, Backed
    <3> QED  BY <1>7, <3>2, <3>3
  <2>5. job' = [job EXCEPT ![w] = j]
    BY <2>2
  <2> HIDE DEF j
  <2>6. \A k \in Job : k = j => Backed(k) \/ Backed(k)'
    BY <2>3, <2>4 DEF Backed, Named
  <2>7. \A k \in Job : k = j => Held'
    BY <2>5, <2>6, HeldStep
  <2> QED  BY <2>3, <2>7
<1>9. ASSUME NEW w \in Workers,
             SaveSemanticVectors(w) \/ SaveTextVectors(w) \/ RegisterFails(w)
      PROVE  Held'
  BY <1>9, IdleBacked, HeldStep
     DEF SaveSemanticVectors, SaveTextVectors, RegisterFails, End, Set
<1>10. ASSUME NEW r \in Clients, NEW h \in Hash, LookUp(r, h) PROVE Held'
  <2> DEFINE j == [IdleJob EXCEPT !.at = "fill", !.hash = h]
  <2>1. j \in Job /\ Backed(j)
    BY <1>10 DEF IdleJob, Job, Backed, LookUp, Named
  <2>2. job' = [job EXCEPT ![r] = j]
    BY <1>10 DEF LookUp, Set
  <2> HIDE DEF j
  <2> QED  BY <2>1, <2>2, HeldStep
<1>11. ASSUME NEW r \in Clients, FillCache(r) PROVE Held'
  BY <1>11, IdleBacked, HeldStep DEF FillCache, End, Set
<1>12. ASSUME NEW r \in Clients, NEW h \in Hash, QuerySegments(r, h) PROVE Held'
  <2>1. PICK m \in Match \cup {NoMatch}, fresh \in BOOLEAN :
           /\ Segments(h, PointType(MediaType[h]), m, fresh)
           /\ IF fresh
              THEN Set(r, [IdleJob EXCEPT !.at = "remember", !.hash = h, !.match = m])
              ELSE UNCHANGED job
    BY <1>12 DEF QuerySegments
  <2>2. PointType(MediaType[h]) \in IndexTypes
    BY PointTypes DEF IndexTypes, SignatureTypes
  <2>3. m = NoMatch \/ Named(m.top)
    BY <1>12, <2>1, <2>2, SegmentsNames DEF QuerySegments
  <2> DEFINE j == [IdleJob EXCEPT !.at = "remember", !.hash = h, !.match = m]
  <2>4. j \in Job /\ Backed(j)
    BY <2>3 DEF IdleJob, Job, Backed
  <2>5. CASE fresh
    <3>1. job' = [job EXCEPT ![r] = j]
      BY <2>1, <2>5 DEF Set
    <3> HIDE DEF j
    <3> QED  BY <2>4, <3>1, HeldStep
  <2>6. CASE ~fresh
    BY <2>1, <2>6, BackedStays DEF Held, TypeOK
  <2> QED  BY <2>5, <2>6
<1>13. CASE UNCHANGED job
  BY <1>13, BackedStays DEF Held, TypeOK
<1>14. CASE Crash
  BY <1>14, IdleBacked, BackedStays DEF Crash, Held
<1> QED
  BY <1>1, <1>2, <1>3, <1>4, <1>5, <1>6, <1>7, <1>9, <1>10, <1>11, <1>12, <1>13, <1>14
     DEF Next, RegisterStep, RequestStep, Expire, vars
LEMMA RowFirstStep == TypeOK /\ RowFirst /\ Held /\ [Next]_vars => RowFirst'
<1> SUFFICES ASSUME TypeOK, RowFirst, Held, [Next]_vars PROVE RowFirst'
  OBVIOUS
<1> USE DEF Procs
<1>1. \A h \in Hash : Named(h) => Named(h)'
  BY RowsStay DEF Named
<1>2. CASE UNCHANGED <<cache, segCache, index, done>>
  BY <1>1, <1>2, MatchType DEF RowFirst, TypeOK, Named
<1>3. ASSUME NEW w \in Workers, CheckImage(w) \/ CheckFails(w) PROVE RowFirst'
  <2>1. \A h \in Hash : cache'[h] # NoRow => Named(h)
    BY <1>3, FuzzyType, ReadThroughNames DEF CheckImage, CheckFails
  <2> QED  BY <1>1, <1>3, <2>1 DEF CheckImage, CheckFails, RowFirst, TypeOK, Named, Match
<1>4. ASSUME NEW w \in Workers, CheckSegments(w) PROVE RowFirst'
  <2>1. job[w] \in Job
    BY <1>4, BusyJob DEF CheckSegments
  <2>2. PointType(TypeOf(job[w])) \in IndexTypes
    BY PointTypes DEF IndexTypes, SignatureTypes
  <2>3. \A h \in Hash : cache'[h] # NoRow => Named(h)
    BY <1>4, <2>1, <2>2, SegmentsNames DEF CheckSegments, Job
  <2> QED  BY <1>1, <1>4, <2>3 DEF CheckSegments, RowFirst, TypeOK, Named, Match
<1>5. ASSUME NEW r \in Clients, NEW h \in Hash, QuerySegments(r, h) PROVE RowFirst'
  <2>1. PointType(MediaType[h]) \in IndexTypes
    BY PointTypes DEF IndexTypes, SignatureTypes
  <2>2. \A g \in Hash : cache'[g] # NoRow => Named(g)
    BY <1>5, <2>1, SegmentsNames DEF QuerySegments
  <2> QED  BY <1>1, <1>5, <2>2 DEF QuerySegments, RowFirst, TypeOK, Named, Match
<1>6. ASSUME NEW p \in Procs, SaveSegmentCache(p) PROVE RowFirst'
  <2>1. job[p] \in Job /\ Backed(job[p])
    BY <1>6, BusyJob DEF SaveSegmentCache, Held
  <2>2. job[p].match = NoMatch \/ Named(job[p].match.top)
    BY <1>6, <2>1 DEF Backed, SaveSegmentCache
  <2>3. \A h \in Hash : segCache'[h] \in {segCache[h], job[p].match}
    BY <1>6 DEF SaveSegmentCache, TypeOK
  <2>4. \A h \in Hash : segCache'[h] = NoMatch \/ Named(segCache'[h].top)
    BY <2>2, <2>3 DEF RowFirst, Named
  <2>5. \A h \in Hash : segCache'[h] = NoMatch \/ segCache'[h].top \in Hash
    BY <2>1, <2>3, MatchType DEF TypeOK, Job
  <2> QED  BY <1>1, <1>6, <2>4, <2>5 DEF SaveSegmentCache, RowFirst, TypeOK, Named
<1>7. ASSUME NEW w \in Workers, SaveCache(w) PROVE RowFirst'
  <2>1. job[w] \in Job /\ Named(job[w].hash)
    BY <1>7, BusyJob DEF SaveCache, Step, Held, Backed
  <2> QED  BY <1>1, <1>7, <2>1 DEF SaveCache, RowFirst, TypeOK, Named, Match, Job
<1>8. ASSUME NEW w \in Workers, SaveVectors(w) \/ SaveSemanticVectors(w) \/ SaveTextVectors(w)
      PROVE  RowFirst'
  <2>1. job[w] \in Job /\ Named(job[w].hash)
    BY <1>8, BusyJob DEF SaveVectors, SaveSemanticVectors, SaveTextVectors, Step, Held, Backed
  <2>2. {"semantic", "text"} \cup {IndexedAs(job[w])} \subseteq IndexTypes
    BY PointTypes DEF IndexedAs, IndexTypes, SignatureTypes
  <2>3. \A g \in Hash, u \in IndexTypes : index'[g][u] > 0 => Named(g)
    BY <1>8, <2>1, <2>2, AddPointsType
       DEF SaveVectors, SaveSemanticVectors, SaveTextVectors, RowFirst, Named, Job
  <2>4. \A g \in done' : Named(g)
    BY <1>8, <2>1 DEF SaveVectors, SaveSemanticVectors, SaveTextVectors, RowFirst, Named
  <2>5. done' \subseteq Hash
    BY TypeStep DEF TypeOK
  <2> QED
    BY <1>1, <1>8, <2>3, <2>4, <2>5
       DEF SaveVectors, SaveSemanticVectors, SaveTextVectors, RowFirst, TypeOK, Named, Match
<1>9. ASSUME NEW r \in Clients, FillCache(r) PROVE RowFirst'
  <2>1. job[r] \in Job /\ Named(job[r].hash)
    BY <1>9, BusyJob DEF FillCache, Held, Backed
  <2> QED  BY <1>1, <1>9, <2>1 DEF FillCache, RowFirst, TypeOK, Named, Match, Job
<1>10. ASSUME NEW h \in Hash, Expire(h) PROVE RowFirst'
  BY <1>1, <1>10 DEF Expire, RowFirst, TypeOK, Named, Match
<1> QED
  BY <1>2, <1>3, <1>4, <1>5, <1>6, <1>7, <1>8, <1>9, <1>10
     DEF Next, RegisterStep, RequestStep, vars, stores, NoCheck, CheckWithoutRedis,
         SavePostgres, RegisterFails, Begin, LookUp, Crash

LEMMA InitNames == Init => TypeOK /\ RowFirst /\ Held
<1> SUFFICES ASSUME Init PROVE TypeOK /\ RowFirst /\ Held
  OBVIOUS
<1>1. TypeOK
  BY ProcessAssumption DEF Init, TypeOK
<1>2. RowFirst
  BY DEF Init, RowFirst
<1>3. Held
  BY IdleBacked DEF Init, Held
<1> QED  BY <1>1, <1>2, <1>3

LEMMA NamesCorrect == Spec => [](TypeOK /\ RowFirst /\ Held)
  BY InitNames, TypeStep, RowFirstStep, HeldNext, PTL DEF Spec

\* Neither a cache, nor a point, nor an answer that is remembered, nor a
\* Register that has succeeded names a content that Postgres does not hold.
THEOREM RowIsFirst == Spec => []RowFirst
  BY NamesCorrect, PTL

\* A row is inserted once, and with a parent that is stored or declared.
THEOREM ParentIsStoredFirst == Spec => ParentStoredFirst
<1>1. TypeOK /\ Held /\ [Next]_vars =>
         [\A h \in Hash : pg'[h] # pg[h] =>
             /\ pg[h] = NoRow
             /\ \/ pg'[h].parent \in {NoHash, Declared[h]}
                \/ pg[pg'[h].parent] # NoRow]_vars
  BY RowsStay DEF Named
<1> QED  BY <1>1, NamesCorrect, PTL DEF Spec, ParentStoredFirst

-----------------------------------------------------------------------------
(* The lineage                                                             *)

\* The parent of a row is declared or stored, now or since the row was written.
ParentsKnown ==
    \A h \in Hash : Named(h) => pg[h].parent \in {NoHash, Declared[h]} \/ Named(pg[h].parent)

LEMMA ParentsKnownStep == TypeOK /\ Held /\ ParentsKnown /\ [Next]_vars => ParentsKnown'
<1> SUFFICES ASSUME TypeOK, Held, ParentsKnown, [Next]_vars,
                    NEW h \in Hash, Named(h)'
             PROVE  (pg[h].parent \in {NoHash, Declared[h]} \/ Named(pg[h].parent))'
  BY DEF ParentsKnown
<1>1. pg'[h].parent \in Hash \cup {NoHash}
  BY TypeStep, NoRowApart DEF TypeOK, Row, Named
<1>2. pg'[h].parent \in {NoHash, Declared[h]} \/ Named(pg'[h].parent)
  BY RowsStay DEF ParentsKnown, Named
<1>3. \A g \in Hash : Named(g) => Named(g)'
  BY RowsStay DEF Named
<1> QED  BY <1>1, <1>2, <1>3, ContentAssumption DEF Named

\* A closed set of rows with no declared parent would have been closed before
\* the step: what a check found was stored, so that a row the step writes
\* points out of itself, to an older one.
LEMMA CycleStep ==
    TypeOK /\ Held /\ ParentsKnown /\ CycleOnlyIfDeclared /\ [Next]_vars => CycleOnlyIfDeclared'
<1> SUFFICES ASSUME TypeOK, Held, ParentsKnown, CycleOnlyIfDeclared, [Next]_vars,
                    NEW S \in SUBSET Stored', S # {}, \A h \in S : pg'[h].parent \in S,
                    \A h \in S : pg'[h].parent # Declared[h]
             PROVE  FALSE
  BY DEF CycleOnlyIfDeclared
<1>1. S \subseteq Hash /\ NoHash \notin S
  BY ContentAssumption DEF Stored
<1> DEFINE Old == {h \in S : Named(h)}
<1>2. \A h \in S : pg'[h].parent \in Old
  <2> TAKE h \in S
  <2>1. pg'[h].parent \notin {NoHash, Declared[h]} /\ pg'[h].parent \in S
    BY <1>1
  <2>2. CASE pg'[h] = pg[h]
    <3>1. Named(h)
      BY <1>1, <2>2 DEF Stored, Named
    <3> QED  BY <1>1, <2>1, <2>2, <3>1 DEF ParentsKnown
  <2>3. CASE pg'[h] # pg[h]
    BY <1>1, <2>1, <2>3, RowsStay
  <2> QED  BY <2>2, <2>3
<1>3. Old # {} /\ Old \subseteq Stored
  BY <1>1, <1>2 DEF Stored, Named
<1>4. \A h \in Old : pg'[h] = pg[h]
  BY <1>1, RowsStay
<1>5. \A h \in Old : pg[h].parent \in Old /\ pg[h].parent # Declared[h]
  BY <1>2, <1>4
<1> HIDE DEF Old
<1> QED  BY <1>3, <1>5 DEF CycleOnlyIfDeclared

\* A cycle of the stored lineage goes through a declared parent.
THEOREM CyclesAreDeclared == Spec => []CycleOnlyIfDeclared
<1>1. Init => ParentsKnown /\ CycleOnlyIfDeclared
  BY DEF Init, ParentsKnown, CycleOnlyIfDeclared, Stored, Named
<1> QED  BY <1>1, NamesCorrect, ParentsKnownStep, CycleStep, PTL DEF Spec

-----------------------------------------------------------------------------
(* The record cache                                                        *)

Early == {"check", "remember", "postgres"}

On(w, h) == job[w].at # "idle" /\ job[w].hash = h

\* Nothing has come of h yet.
Untouched(h) == pg[h] = NoRow /\ \A w \in Workers : ~On(w, h)

\* One worker at most is busy with h; there is no row before it has written it,
\* and the row is its record when it comes to the cache.
Single(h) ==
    /\ \A v, w \in Workers : On(v, h) /\ On(w, h) => v = w
    /\ \A w \in Workers :
         /\ On(w, h) /\ job[w].at \in Early => pg[h] = NoRow
         /\ On(w, h) /\ job[w].at = "cache" => pg[h] = Record(w)

Coherent ==
    /\ CacheCoherent
    /\ \A h \in Hash : delivered[h] = 0 => Untouched(h)
    /\ \A h \in Hash : delivered[h] = 1 => Single(h)

\* A worker whose job was j and is k has not gone back, nor on to the cache.
Continues(j, k) ==
    \/ k = IdleJob
    \/ /\ j.at # "idle" /\ k.hash = j.hash
       /\ k.at \in Early => j.at \in Early
       /\ k.at = "cache" => k = j

LEMMA QuietStep ==
    ASSUME TypeOK, Coherent, UNCHANGED <<pg, delivered>>,
           \A w \in Workers : Continues(job[w], job'[w]),
           \A h \in Hash : delivered[h] <= 1 => cache'[h] \in {cache[h], pg[h]}
    PROVE  Coherent'
<1>1. CacheCoherent'
  BY DEF Coherent, CacheCoherent
<1>2. \A w \in Workers, h \in Hash : On(w, h)' => On(w, h)
  BY DEF On, Continues, IdleJob
<1>3. \A h \in Hash : Untouched(h) => Untouched(h)'
  BY <1>2 DEF Untouched
<1>4. ASSUME NEW h \in Hash, Single(h)
      PROVE  Single(h)'
  <2>1. ASSUME NEW w \in Workers, On(w, h)', (job[w].at \in Early)'
        PROVE  pg'[h] = NoRow
    BY <2>1, <1>2, <1>4 DEF Single, On, Continues, IdleJob
  <2>2. ASSUME NEW w \in Workers, On(w, h)', (job[w].at = "cache")'
        PROVE  pg'[h] = Record(w)'
    BY <2>2, <1>2, <1>4 DEF Single, On, Continues, IdleJob, Record
  <2> QED  BY <1>2, <1>4, <2>1, <2>2 DEF Single
<1> QED  BY <1>1, <1>3, <1>4 DEF Coherent

\* It is enough to look at the worker that takes the step.
LEMMA OneContinues ==
    ASSUME TypeOK, NEW p \in Procs, NEW j, job' = [job EXCEPT ![p] = j],
           p \notin Workers \/ Continues(job[p], j)
    PROVE  \A w \in Workers : Continues(job[w], job'[w])
<1>1. \A w \in Workers : job[w].at # "idle" \/ job[w] = IdleJob
  BY DEF TypeOK, Procs, Job
<1>2. \A w \in Workers \ {p} : Continues(job[w], job'[w])
  BY <1>1 DEF Continues, TypeOK, Procs
<1>3. job'[p] = j
  BY DEF TypeOK
<1> QED  BY <1>2, <1>3

LEMMA AdoptContinues ==
    ASSUME TypeOK, NEW w \in Workers, job[w].at \in Early, NEW m, Adopt(w, m, "postgres")
    PROVE  \A v \in Workers : Continues(job[v], job'[v])
<1>1. job[w] \in Job
  BY BusyJob DEF Early, Procs
<1>2. PICK parent : parent = IF m.close THEN m.top
                             ELSE IF job[w].full THEN Declared[job[w].hash] ELSE NoHash
  OBVIOUS
<1> DEFINE k == [job[w] EXCEPT !.at = "postgres", !.match = NoMatch, !.parent = parent]
<1>3. Continues(job[w], k)
  BY <1>1 DEF Continues, Early, Job
<1>4. job' = [job EXCEPT ![w] = k]
  BY <1>2 DEF Adopt, Set
<1> HIDE DEF k
<1> QED  BY <1>3, <1>4, OneContinues DEF Procs

\* VerifyExact copies rows.
LEMMA ReadThroughRows ==
    ASSUME TypeOK, NEW C, ReadThrough(C)
    PROVE  \A h \in Hash : cache'[h] \in {cache[h], pg[h]}
  BY DEF ReadThrough, TypeOK

LEMMA SegmentsRows ==
    ASSUME TypeOK, NEW h, NEW t, NEW m, NEW fresh, Segments(h, t, m, fresh)
    PROVE  \A g \in Hash : cache'[g] \in {cache[g], pg[g]}
  BY ReadThroughRows DEF Segments

LEMMA CoherentStep == TypeOK /\ Coherent /\ [Next]_vars => Coherent'
<1> SUFFICES ASSUME TypeOK, Coherent, [Next]_vars PROVE Coherent'
  OBVIOUS
<1> USE DEF Procs
<1>1. ASSUME NEW w \in Workers, NEW h \in Hash, Begin(w, h) PROVE Coherent'
  <2>1. PICK full \in BOOLEAN :
           Set(w, [IdleJob EXCEPT !.at = "check", !.hash = h, !.full = full])
    BY <1>1 DEF Begin
  <2>2. /\ job'[w].at = "check" /\ job'[w].hash = h
        /\ \A v \in Workers \ {w} : job'[v] = job[v]
    BY <2>1 DEF Set, TypeOK
  <2>3. /\ delivered'[h] = delivered[h] + 1 /\ delivered[h] \in Nat
        /\ \A g \in Hash \ {h} : delivered'[g] = delivered[g]
        /\ UNCHANGED <<pg, cache>>
    BY <1>1 DEF Begin, TypeOK, stores
  <2>4. CacheCoherent'
    BY <2>3 DEF Coherent, CacheCoherent
  <2>5. \A g \in Hash \ {h}, v \in Workers : On(v, g)' => On(v, g) /\ v # w
    BY <2>2 DEF On
  <2>6. \A g \in Hash \ {h} : Untouched(g) => Untouched(g)'
    BY <2>3, <2>5 DEF Untouched
  <2>7. \A g \in Hash \ {h} : Single(g) => Single(g)'
    BY <2>2, <2>3, <2>5 DEF Single, Record
  <2>8. delivered'[h] = 1 => Single(h)'
    <3>1. SUFFICES ASSUME delivered'[h] = 1 PROVE Single(h)'
      OBVIOUS
    <3>2. Untouched(h)
      BY <3>1, <2>3 DEF Coherent
    <3>3. \A v \in Workers : On(v, h)' => v = w
      BY <2>2, <3>2 DEF Untouched, On
    <3> QED  BY <2>2, <2>3, <3>2, <3>3 DEF Single, Untouched
  <2>9. delivered'[h] # 0
    BY <2>3
  <2> QED  BY <2>3, <2>4, <2>6, <2>7, <2>8, <2>9 DEF Coherent
<1>2. ASSUME NEW w \in Workers, SavePostgres(w) PROVE Coherent'
  <2> DEFINE h == job[w].hash
  <2>1. job[w] \in Job /\ On(w, h) /\ h \in Hash /\ job[w].at = "postgres"
    BY <1>2, BusyJob DEF SavePostgres, Step, Job, On
  <2>2. /\ job' = [job EXCEPT ![w].at = "cache"]
        /\ pg' = [pg EXCEPT ![h] = IF @ = NoRow THEN Record(w) ELSE @]
        /\ UNCHANGED <<cache, delivered>>
    BY <1>2 DEF SavePostgres, Step, Set, Insert
  <2>3. /\ job'[w].hash = h /\ job'[w].at = "cache" /\ Record(w)' = Record(w)
        /\ \A v \in Workers \ {w} : job'[v] = job[v] /\ Record(v)' = Record(v)
    BY <2>1, <2>2 DEF TypeOK, Job, Record
  <2>4. /\ \A g \in Hash \ {h} : pg'[g] = pg[g]
        /\ pg'[h] = IF pg[h] = NoRow THEN Record(w) ELSE pg[h]
    BY <2>1, <2>2 DEF TypeOK
  <2> HIDE DEF h
  <2>5. \A v \in Workers, g \in Hash : On(v, g)' <=> On(v, g)
    BY <2>1, <2>3 DEF On
  <2>6. ASSUME NEW g \in Hash, delivered[g] = 0
        PROVE  Untouched(g)'
    <3>1. Untouched(g)
      BY <2>6 DEF Coherent
    <3>2. g # h
      BY <2>1, <3>1 DEF Untouched
    <3> QED  BY <3>1, <3>2, <2>4, <2>5 DEF Untouched
  <2>7. ASSUME NEW g \in Hash, delivered[g] = 1
        PROVE  Single(g)'
    <3>1. Single(g)
      BY <2>7 DEF Coherent
    <3>2. CASE g # h
      <4>1. \A v \in Workers : On(v, g) => v # w
        BY <2>1, <3>2 DEF On
      <4> QED  BY <3>1, <3>2, <4>1, <2>3, <2>4, <2>5 DEF Single
    <3>3. CASE g = h
      <4>1. \A v \in Workers : On(v, g)' => v = w
        BY <2>1, <2>5, <3>1, <3>3 DEF Single
      <4>2. pg[h] = NoRow
        BY <2>1, <3>1, <3>3 DEF Single, Early
      <4> QED  BY <4>1, <4>2, <2>3, <2>4, <3>3 DEF Single, Early
    <3> QED  BY <3>2, <3>3
  <2>8. CacheCoherent'
    <3>1. SUFFICES ASSUME NEW g \in Hash, delivered[g] <= 1
                   PROVE  cache[g] \in {NoRow, pg'[g]}
      BY <2>2 DEF CacheCoherent
    <3>2. cache[g] \in {NoRow, pg[g]}
      BY <3>1 DEF Coherent, CacheCoherent
    <3> QED  BY <3>2, <2>4
  <2> QED  BY <2>2, <2>6, <2>7, <2>8 DEF Coherent
<1>3. ASSUME NEW w \in Workers, SaveCache(w) PROVE Coherent'
  <2>1. job[w] \in Job /\ job[w].at = "cache" /\ On(w, job[w].hash)
    BY <1>3, BusyJob DEF SaveCache, Step, On
  <2>2. ASSUME NEW h \in Hash, delivered[h] <= 1
        PROVE  cache'[h] \in {cache[h], pg[h]}
    <3>1. CASE h # job[w].hash
      BY <1>3, <2>1, <3>1 DEF SaveCache, TypeOK, Job
    <3>2. CASE h = job[w].hash
      <4>1. delivered[h] = 1
        <5>1. delivered[h] \in Nat
          BY DEF TypeOK
        <5>2. delivered[h] # 0
          BY <2>1, <3>2 DEF Coherent, Untouched
        <5> QED  BY <2>2, <5>1, <5>2
      <4>2. pg[h] = Record(w)
        BY <2>1, <3>2, <4>1 DEF Coherent, Single
      <4> QED  BY <1>3, <3>2, <4>2 DEF SaveCache, TypeOK
    <3> QED  BY <3>1, <3>2
  <2> DEFINE k == [job[w] EXCEPT !.at = "vectors"]
  <2>3. job' = [job EXCEPT ![w] = k] /\ UNCHANGED <<pg, delivered>>
    BY <1>3 DEF SaveCache, Step, Set
  <2>4. Continues(job[w], k)
    BY <2>1 DEF Continues, Job, Early
  <2> HIDE DEF k
  <2> QED  BY <2>2, <2>3, <2>4, OneContinues, QuietStep
<1>4. ASSUME NEW w \in Workers, NoCheck(w) \/ CheckFails(w) \/ CheckWithoutRedis(w) \/ CheckImage(w)
      PROVE  Coherent'
  <2>1. job[w].at \in Early
    BY <1>4 DEF NoCheck, CheckFails, CheckWithoutRedis, CheckImage, Early
  <2>2. \A v \in Workers : Continues(job[v], job'[v])
    BY <1>4, <2>1, AdoptContinues DEF NoCheck, CheckFails, CheckWithoutRedis, CheckImage
  <2>3. \A h \in Hash : cache'[h] \in {cache[h], pg[h]}
    BY <1>4, ReadThroughRows DEF NoCheck, CheckFails, CheckWithoutRedis, CheckImage, stores
  <2>4. UNCHANGED <<pg, delivered>>
    BY <1>4 DEF NoCheck, CheckFails, CheckWithoutRedis, CheckImage, stores
  <2> QED  BY <2>2, <2>3, <2>4, QuietStep
<1>5. ASSUME NEW w \in Workers, CheckSegments(w) PROVE Coherent'
  <2>1. job[w].at = "check" /\ job[w] \in Job
    BY <1>5, BusyJob DEF CheckSegments
  <2>2. PICK m \in Match \cup {NoMatch}, fresh \in BOOLEAN :
           /\ Segments(job[w].hash, PointType(TypeOf(job[w])), m, fresh)
           /\ IF fresh THEN Set(w, [job[w] EXCEPT !.at = "remember", !.match = m])
              ELSE Adopt(w, m, "postgres")
    BY <1>5 DEF CheckSegments
  <2>3. \A h \in Hash : cache'[h] \in {cache[h], pg[h]}
    BY <2>2, SegmentsRows
  <2>4. CASE fresh
    <3> DEFINE k == [job[w] EXCEPT !.at = "remember", !.match = m]
    <3>1. job' = [job EXCEPT ![w] = k]
      BY <2>2, <2>4 DEF Set
    <3>2. Continues(job[w], k)
      BY <2>1 DEF Continues, Job, Early
    <3> HIDE DEF k
    <3>3. \A v \in Workers : Continues(job[v], job'[v])
      BY <3>1, <3>2, OneContinues
    <3> QED  BY <1>5, <2>3, <3>3, QuietStep DEF CheckSegments
  <2>5. CASE ~fresh
    <3>1. \A v \in Workers : Continues(job[v], job'[v])
      BY <2>1, <2>2, <2>5, AdoptContinues DEF Early
    <3> QED  BY <1>5, <2>3, <3>1, QuietStep DEF CheckSegments
  <2> QED  BY <2>4, <2>5
<1>6. ASSUME NEW p \in Procs, SaveSegmentCache(p) PROVE Coherent'
  <2>1. \A v \in Workers : Continues(job[v], job'[v])
    <3>1. CASE p \in Workers
      BY <1>6, <3>1, AdoptContinues DEF SaveSegmentCache, Early
    <3>2. CASE p \notin Workers
      BY <1>6, <3>2, OneContinues DEF SaveSegmentCache, End, Set
    <3> QED  BY <3>1, <3>2
  <2> QED  BY <1>6, <2>1, QuietStep DEF SaveSegmentCache
<1>7. ASSUME NEW w \in Workers, SaveVectors(w) PROVE Coherent'
  <2>1. job[w].at = "vectors" /\ job[w] \in Job
    BY <1>7, BusyJob DEF SaveVectors, Step
  <2> DEFINE k == [job[w] EXCEPT !.at = "semantic"]
  <2>2. job' = [job EXCEPT ![w] = k] /\ UNCHANGED <<pg, cache, delivered>>
    BY <1>7 DEF SaveVectors, Step, Set
  <2>3. Continues(job[w], k)
    BY <2>1 DEF Continues, Job, Early
  <2> HIDE DEF k
  <2> QED  BY <2>2, <2>3, OneContinues, QuietStep
<1>8. ASSUME NEW w \in Workers,
             SaveSemanticVectors(w) \/ SaveTextVectors(w) \/ RegisterFails(w)
      PROVE  Coherent'
  <2>1. job' = [job EXCEPT ![w] = IdleJob] /\ UNCHANGED <<pg, cache, delivered>>
    BY <1>8 DEF SaveSemanticVectors, SaveTextVectors, RegisterFails, End, Set, stores
  <2>2. \A v \in Workers : Continues(job[v], job'[v])
    BY <2>1, OneContinues DEF Continues
  <2> QED  BY <2>1, <2>2, QuietStep
<1>9. ASSUME NEW r \in Clients, NEW h \in Hash, LookUp(r, h) PROVE Coherent'
  <2>1. r \notin Workers
    BY ProcessAssumption
  <2>2. \A v \in Workers : Continues(job[v], job'[v])
    BY <1>9, <2>1, OneContinues DEF LookUp, Set
  <2> QED  BY <1>9, <2>2, QuietStep DEF LookUp, stores
<1>10. ASSUME NEW r \in Clients, FillCache(r) PROVE Coherent'
  <2>1. r \notin Workers
    BY ProcessAssumption
  <2>2. \A v \in Workers : Continues(job[v], job'[v])
    BY <1>10, <2>1, OneContinues DEF FillCache, End, Set
  <2>3. \A h \in Hash : cache'[h] \in {cache[h], pg[h]}
    BY <1>10 DEF FillCache, TypeOK
  <2> QED  BY <1>10, <2>2, <2>3, QuietStep DEF FillCache
<1>11. ASSUME NEW r \in Clients, NEW h \in Hash, QuerySegments(r, h) PROVE Coherent'
  <2>1. r \notin Workers
    BY ProcessAssumption
  <2>2. \A v \in Workers : job'[v] = job[v]
    BY <1>11, <2>1 DEF QuerySegments, Set, TypeOK
  <2>3. \A v \in Workers : Continues(job[v], job'[v])
    BY <2>2 DEF Continues, TypeOK, Job
  <2>4. \A g \in Hash : cache'[g] \in {cache[g], pg[g]}
    BY <1>11, SegmentsRows DEF QuerySegments
  <2> QED  BY <1>11, <2>3, <2>4, QuietStep DEF QuerySegments
<1>12. CASE UNCHANGED <<pg, cache, delivered, job>>
  <2>1. \A v \in Workers : Continues(job[v], job'[v])
    BY <1>12 DEF Continues, TypeOK, Job
  <2> QED  BY <1>12, <2>1, QuietStep
<1>13. CASE Crash
  <2>1. \A v \in Workers : Continues(job[v], job'[v])
    BY <1>13 DEF Continues, Crash
  <2> QED  BY <1>13, <2>1, QuietStep DEF Crash, stores
<1> QED
  BY <1>1, <1>2, <1>3, <1>4, <1>5, <1>6, <1>7, <1>8, <1>9, <1>10, <1>11, <1>12, <1>13
     DEF Next, RegisterStep, RequestStep, Expire, vars

LEMMA CoherentInit == Init => Coherent
<1> SUFFICES ASSUME Init PROVE Coherent
  OBVIOUS
<1>1. \A w \in Workers : job[w].at = "idle"
  BY DEF Init, Procs, IdleJob
<1> QED  BY <1>1 DEF Init, Coherent, CacheCoherent, Untouched, Single, On

\* The record cache agrees with Postgres as long as an event came once.
THEOREM CacheIsCoherent == Spec => []CacheCoherent
<1>1. TypeOK /\ Coherent => CacheCoherent
  BY DEF Coherent
<1> QED  BY <1>1, TypeCorrect, CoherentInit, CoherentStep, PTL DEF Spec

-----------------------------------------------------------------------------
(* The points of a content                                                 *)

\* The workers that may still add a point of type t to h: the semantic one is
\* the last.
Pending(h, t) ==
    {w \in Workers : On(w, h) /\ (job[w].at = "semantic" => t = "semantic")}

\* Every point is paid for by a delivery, and so is every one that may come.
Budget ==
    \A h \in Hash, t \in IndexTypes :
        index[h][t] + Cardinality(Pending(h, t)) <= delivered[h]

\* h has points of the type VerifySegments searches, unless it is a video whose
\* metadata have no keyframes, which is indexed as an image.
Placed(h) ==
    (MediaType[h] = "video" /\ h \notin Split) \/ index[h][PointType(MediaType[h])] > 0

\* As long as nothing has failed every event came once, with its metadata, and
\* its points are there when the worker is past them.
Orderly ==
    faults = MaxFaults =>
        /\ \A h \in Hash : delivered[h] <= 1
        /\ \A w \in Workers : job[w].at # "idle" => job[w].full
        /\ \A w \in Workers : job[w].at = "semantic" => Placed(job[w].hash)
        /\ \A h \in done : Placed(h)

\* A worker whose job was j and is k has not come to another content, has not
\* passed SaveVectors nor gone back before it, and has given up on a fault only.
Proceeds(j, k) ==
    \/ k = IdleJob /\ (j = IdleJob \/ Fault)
    \/ /\ j.at # "idle" /\ k.hash = j.hash /\ k.full = j.full
       /\ k.at = "semantic" <=> j.at = "semantic"

\* Nothing was indexed or delivered, and the workers have only proceeded.
NothingIndexed ==
    /\ UNCHANGED <<index, delivered, done>>
    /\ \A w \in Workers : Proceeds(job[w], job'[w])

LEMMA OneProceeds ==
    ASSUME TypeOK, NEW p \in Procs, NEW j, job' = [job EXCEPT ![p] = j],
           p \notin Workers \/ Proceeds(job[p], j)
    PROVE  \A w \in Workers : Proceeds(job[w], job'[w])
<1>1. \A w \in Workers : job[w].at # "idle" \/ job[w] = IdleJob
  BY DEF TypeOK, Procs, Job
<1>2. \A w \in Workers \ {p} : Proceeds(job[w], job'[w])
  BY <1>1 DEF Proceeds, TypeOK, Procs
<1>3. job'[p] = j
  BY DEF TypeOK
<1> QED  BY <1>2, <1>3

LEMMA AdoptProceeds ==
    ASSUME TypeOK, NEW w \in Workers, job[w].at \in Early, NEW m, Adopt(w, m, "postgres")
    PROVE  \A v \in Workers : Proceeds(job[v], job'[v])
<1>1. job[w] \in Job
  BY BusyJob DEF Early, Procs
<1>2. PICK parent : parent = IF m.close THEN m.top
                             ELSE IF job[w].full THEN Declared[job[w].hash] ELSE NoHash
  OBVIOUS
<1> DEFINE k == [job[w] EXCEPT !.at = "postgres", !.match = NoMatch, !.parent = parent]
<1>3. Proceeds(job[w], k)
  BY <1>1 DEF Proceeds, Early, Job
<1>4. job' = [job EXCEPT ![w] = k]
  BY <1>2 DEF Adopt, Set
<1> HIDE DEF k
<1> QED  BY <1>3, <1>4, OneProceeds DEF Procs

\* What a step may do to the points: begin a delivery, write, or nothing.
LEMMA WhatIsIndexed ==
    ASSUME TypeOK, [Next]_vars
    PROVE  \/ \E w \in Workers, h \in Hash : Begin(w, h)
           \/ \E w \in Workers : SaveVectors(w) \/ SaveSemanticVectors(w) \/ SaveTextVectors(w)
           \/ NothingIndexed
<1> USE DEF Procs
<1>1. ASSUME NEW w \in Workers, NoCheck(w) \/ CheckFails(w) \/ CheckWithoutRedis(w) \/ CheckImage(w)
      PROVE  NothingIndexed
  BY <1>1, AdoptProceeds
     DEF NoCheck, CheckFails, CheckWithoutRedis, CheckImage, Early, stores, NothingIndexed
<1>2. ASSUME NEW w \in Workers, CheckSegments(w) PROVE NothingIndexed
  <2>1. job[w].at = "check" /\ job[w] \in Job
    BY <1>2, BusyJob DEF CheckSegments
  <2>2. PICK m \in Match \cup {NoMatch}, fresh \in BOOLEAN :
           IF fresh THEN Set(w, [job[w] EXCEPT !.at = "remember", !.match = m])
           ELSE Adopt(w, m, "postgres")
    BY <1>2 DEF CheckSegments
  <2>3. \A v \in Workers : Proceeds(job[v], job'[v])
    <3> DEFINE k == [job[w] EXCEPT !.at = "remember", !.match = m]
    <3>1. CASE fresh
      <4>1. job' = [job EXCEPT ![w] = k]
        BY <2>2, <3>1 DEF Set
      <4>2. Proceeds(job[w], k)
        BY <2>1 DEF Proceeds, Job
      <4> HIDE DEF k
      <4> QED  BY <4>1, <4>2, OneProceeds
    <3>2. CASE ~fresh
      BY <2>1, <2>2, <3>2, AdoptProceeds DEF Early
    <3> QED  BY <3>1, <3>2
  <2> QED  BY <1>2, <2>3 DEF CheckSegments, NothingIndexed
<1>3. ASSUME NEW p \in Procs, SaveSegmentCache(p) PROVE NothingIndexed
  <2>1. CASE p \in Workers
    BY <1>3, <2>1, AdoptProceeds DEF SaveSegmentCache, Early, NothingIndexed
  <2>2. CASE p \notin Workers
    BY <1>3, <2>2, OneProceeds DEF SaveSegmentCache, End, Set, NothingIndexed
  <2> QED  BY <2>1, <2>2
<1>4. ASSUME NEW w \in Workers, SavePostgres(w) \/ SaveCache(w) PROVE NothingIndexed
  <2>1. PICK to \in {"cache", "vectors"} :
           job' = [job EXCEPT ![w] = [job[w] EXCEPT !.at = to]]
    BY <1>4 DEF SavePostgres, SaveCache, Step, Set
  <2>2. job[w] \in Job /\ job[w].at \in {"postgres", "cache"}
    BY <1>4, BusyJob DEF SavePostgres, SaveCache, Step
  <2> DEFINE k == [job[w] EXCEPT !.at = to]
  <2>3. job' = [job EXCEPT ![w] = k]
    BY <2>1
  <2>4. Proceeds(job[w], k)
    BY <2>2 DEF Proceeds, Job
  <2> HIDE DEF k
  <2>5. \A v \in Workers : Proceeds(job[v], job'[v])
    BY <2>3, <2>4, OneProceeds
  <2> QED  BY <1>4, <2>5 DEF SavePostgres, SaveCache, NothingIndexed
<1>5. ASSUME NEW w \in Workers, RegisterFails(w) PROVE NothingIndexed
  <2>1. \A v \in Workers : Proceeds(job[v], job'[v])
    BY <1>5, OneProceeds DEF RegisterFails, End, Set, Proceeds
  <2> QED  BY <1>5, <2>1 DEF RegisterFails, stores, NothingIndexed
<1>6. ASSUME NEW r \in Clients, FillCache(r) \/ \E h \in Hash : LookUp(r, h)
      PROVE  NothingIndexed
  <2>1. \A v \in Workers : Proceeds(job[v], job'[v])
    BY <1>6, OneProceeds, ProcessAssumption DEF LookUp, FillCache, End, Set
  <2> QED  BY <1>6, <2>1 DEF LookUp, FillCache, stores, NothingIndexed
<1>7. CASE UNCHANGED <<job, index, delivered, done>>
  BY <1>7 DEF TypeOK, Job, Proceeds, NothingIndexed
<1>8. ASSUME NEW r \in Clients, NEW h \in Hash, QuerySegments(r, h) PROVE NothingIndexed
  <2>1. r \notin Workers
    BY ProcessAssumption
  <2>2. \A v \in Workers : job'[v] = job[v]
    BY <1>8, <2>1 DEF QuerySegments, Set, TypeOK
  <2>3. \A v \in Workers : Proceeds(job[v], job'[v])
    BY <2>2 DEF Proceeds, TypeOK, Job
  <2> QED  BY <1>8, <2>3 DEF QuerySegments, NothingIndexed
<1>9. CASE Crash
  BY <1>9 DEF Proceeds, Crash, stores, NothingIndexed
<1> QED
  BY <1>1, <1>2, <1>3, <1>4, <1>5, <1>6, <1>7, <1>8, <1>9
     DEF Next, RegisterStep, RequestStep, Expire, vars

LEMMA AddPointsCount ==
    ASSUME TypeOK, NEW h \in Hash, NEW t \in IndexTypes, AddPoints(h, t)
    PROVE  /\ index'[h][t] = index[h][t] + 1
           /\ \A g \in Hash, u \in IndexTypes :
                 g # h \/ u # t => index'[g][u] = index[g][u]
<1>1. index[h] \in [IndexTypes -> Nat]
  BY DEF TypeOK
<1>2. index' = [index EXCEPT ![h] = [index[h] EXCEPT ![t] = index[h][t] + 1]]
  BY DEF AddPoints
<1>3. index'[h] = [index[h] EXCEPT ![t] = index[h][t] + 1]
  BY <1>2 DEF TypeOK
<1> QED  BY <1>1, <1>2, <1>3 DEF TypeOK

\* The step that adds points, or only logs that it could not.
Indexing(w, h, t) ==
    /\ w \in Pending(h, t) /\ w \notin Pending(h, t)'
    /\ \/ AddPoints(h, t)
       \/ UNCHANGED index
    /\ UNCHANGED delivered
    /\ \A v \in Workers \ {w} : job'[v] = job[v]
    /\ job'[w] \in {IdleJob, [job[w] EXCEPT !.at = "semantic"]}

LEMMA IndexingStep ==
    ASSUME TypeOK, NEW w \in Workers,
           SaveVectors(w) \/ SaveSemanticVectors(w) \/ SaveTextVectors(w)
    PROVE  \E h \in Hash, t \in IndexTypes : Indexing(w, h, t)
<1> USE DEF Procs
<1>1. job[w] \in Job
  BY BusyJob DEF SaveVectors, SaveSemanticVectors, SaveTextVectors, Step
<1>2. PICK h \in Hash : h = job[w].hash
  BY <1>1 DEF Job
<1>3. PICK u \in IndexTypes : u = IndexedAs(job[w]) /\ u # "semantic"
  BY PointTypes DEF IndexedAs, IndexTypes, SignatureTypes
<1>4. On(w, h)
  BY <1>2, BusyJob DEF SaveVectors, SaveSemanticVectors, SaveTextVectors, Step, On
<1>5. CASE SaveVectors(w)
  <2>1. /\ job[w].at = "vectors"
        /\ job' = [job EXCEPT ![w] = [job[w] EXCEPT !.at = "semantic"]]
    BY <1>5 DEF SaveVectors, Step, Set
  <2>2. /\ job'[w] = [job[w] EXCEPT !.at = "semantic"]
        /\ \A v \in Workers \ {w} : job'[v] = job[v]
    BY <2>1 DEF TypeOK
  <2>3. job'[w].at = "semantic"
    BY <1>1, <2>2 DEF Job
  <2>4. w \in Pending(h, u) /\ w \notin Pending(h, u)'
    BY <1>3, <1>4, <2>1, <2>3 DEF Pending, On
  <2>5. Indexing(w, h, u)
    BY <1>2, <1>3, <1>5, <2>2, <2>4 DEF SaveVectors, Indexing
  <2> QED  BY <2>5
<1>6. CASE SaveSemanticVectors(w) \/ SaveTextVectors(w)
  <2>1. /\ job'[w] = IdleJob
        /\ \A v \in Workers \ {w} : job'[v] = job[v]
    BY <1>6 DEF SaveSemanticVectors, SaveTextVectors, End, Set, TypeOK
  <2>2. \A t : w \notin Pending(h, t)'
    BY <2>1 DEF Pending, On, IdleJob
  <2>3. PICK t \in {"semantic", "text"} :
           t = IF SaveSemanticVectors(w) THEN "semantic" ELSE "text"
    OBVIOUS
  <2>4. t \in IndexTypes
    BY DEF IndexTypes
  <2>5. w \in Pending(h, t)
    BY <1>4, <1>6, <2>3 DEF Pending, SaveTextVectors
  <2>6. Indexing(w, h, t)
    BY <1>2, <1>6, <2>1, <2>2, <2>3, <2>5 DEF SaveSemanticVectors, SaveTextVectors, Indexing
  <2> QED  BY <2>4, <2>6
<1> QED  BY <1>5, <1>6

\* How many workers are pending after a step that no new one has joined, that
\* one has left, or that one has joined.
LEMMA Counts ==
    ASSUME NEW P, IsFiniteSet(P), NEW Q
    PROVE  /\ Cardinality(P) \in Nat
           /\ Q \subseteq P => IsFiniteSet(Q) /\ Cardinality(Q) \in Nat
                               /\ Cardinality(Q) <= Cardinality(P)
           /\ \A w \in P : Q \subseteq P \ {w} => Cardinality(Q) + 1 <= Cardinality(P)
           /\ \A w : Q \subseteq P \cup {w} => Cardinality(Q) \in Nat
                                             /\ Cardinality(Q) <= Cardinality(P) + 1
<1>1. Cardinality(P) \in Nat
  BY FS_CardinalityType
<1>2. Q \subseteq P => IsFiniteSet(Q) /\ Cardinality(Q) \in Nat /\ Cardinality(Q) <= Cardinality(P)
  BY FS_Subset, FS_CardinalityType
<1>3. ASSUME NEW w \in P, Q \subseteq P \ {w}
      PROVE  Cardinality(Q) + 1 <= Cardinality(P)
  <2>1. IsFiniteSet(P \ {w}) /\ Cardinality(P \ {w}) = Cardinality(P) - 1
    BY FS_RemoveElement
  <2>2. Cardinality(Q) <= Cardinality(P \ {w}) /\ Cardinality(Q) \in Nat
    BY <1>3, <2>1, FS_Subset, FS_CardinalityType
  <2> QED  BY <1>1, <2>1, <2>2
<1>4. ASSUME NEW w, Q \subseteq P \cup {w}
      PROVE  Cardinality(Q) \in Nat /\ Cardinality(Q) <= Cardinality(P) + 1
  <2>1. IsFiniteSet(P \cup {w}) /\ Cardinality(P \cup {w}) <= Cardinality(P) + 1
    BY <1>1, FS_AddElement
  <2>2. /\ Cardinality(Q) <= Cardinality(P \cup {w}) /\ Cardinality(Q) \in Nat
        /\ Cardinality(P \cup {w}) \in Nat
    BY <1>4, <2>1, FS_Subset, FS_CardinalityType
  <2> QED  BY <1>1, <2>1, <2>2
<1> QED  BY <1>1, <1>2, <1>3, <1>4

LEMMA BudgetStep == TypeOK /\ Budget /\ [Next]_vars => Budget'
<1> SUFFICES ASSUME TypeOK, Budget, [Next]_vars, NEW h \in Hash, NEW t \in IndexTypes
             PROVE  index'[h][t] + Cardinality(Pending(h, t)') <= delivered'[h]
  BY DEF Budget
<1> DEFINE P == Pending(h, t)
           Q == Pending(h, t)'
<1>1. IsFiniteSet(P)
  <2>1. P \subseteq Workers
    BY DEF Pending
  <2> QED  BY <2>1, ProcessAssumption, FS_Subset
<1>2. index[h][t] + Cardinality(P) <= delivered[h]
  BY DEF Budget
<1>3. index[h][t] \in Nat /\ delivered[h] \in Nat
  BY DEF TypeOK
<1>4. ASSUME NEW w \in Workers, NEW g \in Hash, Begin(w, g)
      PROVE  index'[h][t] + Cardinality(Q) <= delivered'[h]
  <2>1. PICK full \in BOOLEAN :
           Set(w, [IdleJob EXCEPT !.at = "check", !.hash = g, !.full = full])
    BY <1>4 DEF Begin
  <2>2. job'[w].hash = g /\ \A v \in Workers \ {w} : job'[v] = job[v]
    BY <2>1 DEF Set, TypeOK, Procs
  <2>3. index' = index /\ delivered'[h] = IF g = h THEN delivered[h] + 1 ELSE delivered[h]
    BY <1>4 DEF Begin, stores, TypeOK
  <2>4. Q \subseteq IF g = h THEN P \cup {w} ELSE P
    BY <2>2 DEF Pending, On
  <2> HIDE DEF P, Q
  <2>5. Cardinality(P) \in Nat
    BY <1>1, Counts
  <2>6. CASE g = h
    <3>1. Cardinality(Q) <= Cardinality(P) + 1 /\ Cardinality(Q) \in Nat
      BY <1>1, <2>4, <2>6, Counts
    <3> QED  BY <1>2, <1>3, <2>3, <2>5, <2>6, <3>1
  <2>7. CASE g # h
    <3>1. Cardinality(Q) <= Cardinality(P) /\ Cardinality(Q) \in Nat
      BY <1>1, <2>4, <2>7, Counts
    <3> QED  BY <1>2, <1>3, <2>3, <2>5, <2>7, <3>1
  <2> QED  BY <2>6, <2>7
<1>5. ASSUME NEW w \in Workers,
             SaveVectors(w) \/ SaveSemanticVectors(w) \/ SaveTextVectors(w)
      PROVE  index'[h][t] + Cardinality(Q) <= delivered'[h]
  <2>1. PICK g \in Hash, u \in IndexTypes : Indexing(w, g, u)
    BY <1>5, IndexingStep
  <2>2. job[w] \in Job
    BY <2>1, BusyJob DEF Indexing, Pending, On, Procs
  <2>3. Q \subseteq P
    BY <2>1, <2>2 DEF Indexing, Pending, On, IdleJob, Job
  <2>4. g = h /\ u = t => w \in P /\ Q \subseteq P \ {w}
    BY <2>1, <2>3 DEF Indexing
  <2>5. index'[h][t] = index[h][t] \/ (g = h /\ u = t /\ index'[h][t] = index[h][t] + 1)
    BY <2>1, AddPointsCount DEF Indexing
  <2>6. delivered'[h] = delivered[h]
    BY <2>1 DEF Indexing
  <2> HIDE DEF P, Q
  <2>7. Cardinality(Q) \in Nat /\ Cardinality(P) \in Nat
    BY <1>1, <2>3, Counts
  <2>8. CASE index'[h][t] = index[h][t]
    BY <1>1, <1>2, <1>3, <2>3, <2>6, <2>7, <2>8, Counts
  <2>9. CASE g = h /\ u = t /\ index'[h][t] = index[h][t] + 1
    BY <1>1, <1>2, <1>3, <2>4, <2>6, <2>7, <2>9, Counts
  <2> QED  BY <2>5, <2>8, <2>9
<1>6. ASSUME NothingIndexed
      PROVE  index'[h][t] + Cardinality(Q) <= delivered'[h]
  <2>1. Q \subseteq P /\ index'[h][t] = index[h][t] /\ delivered'[h] = delivered[h]
    BY <1>6 DEF NothingIndexed, Proceeds, Pending, On, IdleJob
  <2> HIDE DEF P, Q
  <2>2. Cardinality(Q) <= Cardinality(P) /\ Cardinality(Q) \in Nat /\ Cardinality(P) \in Nat
    BY <1>1, <2>1, Counts
  <2> QED  BY <1>2, <1>3, <2>1, <2>2
<1> QED  BY <1>4, <1>5, <1>6, WhatIsIndexed

\* The bound on faults only falls, so that a step from which none is missing is
\* not a fault.
LEMMA NoFaultYet ==
    ASSUME TypeOK, [Next]_vars, faults' = MaxFaults
    PROVE  faults = MaxFaults /\ ~Fault
<1>1. Fault \/ UNCHANGED faults
  <2>1. \A h, t, m, fresh : Segments(h, t, m, fresh) => Fault \/ UNCHANGED faults
    BY DEF Segments
  <2>2. ASSUME NEW w \in Workers, RegisterStep(w) \/ \E h \in Hash : Begin(w, h)
        PROVE  Fault \/ UNCHANGED faults
    <3>1. CASE CheckSegments(w)
      BY <2>1, <3>1 DEF CheckSegments
    <3>2. CASE \E h \in Hash : Begin(w, h)
      BY <3>2 DEF Begin
    <3> QED
      BY <2>2, <3>1, <3>2
         DEF RegisterStep, NoCheck, CheckImage, CheckWithoutRedis, CheckFails, SaveSegmentCache,
             SavePostgres, SaveCache, SaveVectors, SaveSemanticVectors, SaveTextVectors,
             RegisterFails
  <2>3. ASSUME NEW r \in Clients, NEW h \in Hash, LookUp(r, h) \/ QuerySegments(r, h)
        PROVE  Fault \/ UNCHANGED faults
    BY <2>1, <2>3 DEF LookUp, QuerySegments
  <2>4. ASSUME NEW r \in Clients, RequestStep(r) PROVE Fault \/ UNCHANGED faults
    BY <2>4 DEF RequestStep, FillCache, SaveSegmentCache
  <2> QED  BY <2>2, <2>3, <2>4 DEF Next, Expire, Crash, vars
<1>2. faults \in 0..MaxFaults /\ MaxFaults \in Nat
  BY ProcessAssumption DEF TypeOK
<1> QED  BY <1>1, <1>2 DEF Fault

\* A delivery whose metadata are known is indexed where they say.
LEMMA IndexedThere ==
    ASSUME TypeOK, NEW h \in Hash, NEW w \in Workers, job[w] \in Job, job[w].full, job[w].hash = h,
           AddPoints(h, IndexedAs(job[w]))
    PROVE  Placed(h)'
<1>1. TypeOf(job[w]) = MediaType[h]
  BY DEF TypeOf
<1>2. CASE MediaType[h] = "video" /\ h \notin Split
  BY <1>2 DEF Placed
<1>3. CASE ~(MediaType[h] = "video" /\ h \notin Split)
  <2>1. PICK t : t = PointType(MediaType[h]) /\ t \in IndexTypes
    BY PointTypes DEF IndexTypes, SignatureTypes
  <2>2. AddPoints(h, t)
    BY <1>1, <1>3, <2>1 DEF IndexedAs
  <2>3. index'[h][t] = index[h][t] + 1 /\ index[h][t] \in Nat
    BY <2>1, <2>2, AddPointsCount DEF TypeOK
  <2> QED  BY <2>1, <2>3 DEF Placed
<1> QED  BY <1>2, <1>3

\* Points are never removed.
LEMMA PlacedStays ==
    ASSUME TypeOK, [Next]_vars, NEW h \in Hash, Placed(h)
    PROVE  Placed(h)'
<1>1. PICK t : t = PointType(MediaType[h]) /\ t \in IndexTypes
  BY PointTypes DEF IndexTypes, SignatureTypes
<1>2. index'[h][t] >= index[h][t] /\ index[h][t] \in Nat /\ index'[h][t] \in Nat
  <2>1. index[h][t] \in Nat
    BY <1>1 DEF TypeOK
  <2>2. ASSUME NEW w \in Workers, NEW g \in Hash, NEW u \in IndexTypes, Indexing(w, g, u)
        PROVE  index'[h][t] \in {index[h][t], index[h][t] + 1}
    BY <1>1, <2>2, AddPointsCount DEF Indexing
  <2>3. CASE UNCHANGED index
    BY <2>1, <2>3
  <2>4. ASSUME NEW w \in Workers, NEW g \in Hash, Begin(w, g)
        PROVE  UNCHANGED index
    BY <2>4 DEF Begin, stores
  <2> QED
    BY <2>1, <2>2, <2>3, <2>4, WhatIsIndexed, IndexingStep DEF NothingIndexed
<1> QED  BY <1>1, <1>2 DEF Placed

LEMMA OrderlyStep == TypeOK /\ Orderly /\ [Next]_vars => Orderly'
<1> SUFFICES ASSUME TypeOK, Orderly, [Next]_vars, faults' = MaxFaults
             PROVE  /\ \A h \in Hash : delivered'[h] <= 1
                    /\ \A w \in Workers : job'[w].at # "idle" => job'[w].full
                    /\ \A w \in Workers : (job[w].at = "semantic" => Placed(job[w].hash))'
                    /\ \A h \in done' : Placed(h)'
  BY DEF Orderly
<1> USE DEF Procs
<1>1. /\ \A h \in Hash : delivered[h] <= 1 /\ delivered[h] \in Nat
      /\ \A w \in Workers : job[w].at # "idle" => job[w].full /\ job[w] \in Job
      /\ \A w \in Workers : job[w].at = "semantic" => Placed(job[w].hash)
      /\ \A h \in done : h \in Hash /\ Placed(h)
      /\ ~Fault
  BY NoFaultYet, BusyJob DEF Orderly, TypeOK
<1>2. \A h \in Hash : Placed(h) => Placed(h)'
  BY PlacedStays
<1>3. ASSUME NEW w \in Workers, NEW g \in Hash, Begin(w, g)
      PROVE  /\ \A h \in Hash : delivered'[h] <= 1
             /\ \A v \in Workers : job'[v].at # "idle" => job'[v].full
             /\ \A v \in Workers : job'[v].at = "semantic" => v # w /\ job'[v] = job[v]
             /\ done' = done
  <2>1. PICK full \in BOOLEAN :
           /\ full /\ delivered[g] = 0
           /\ Set(w, [IdleJob EXCEPT !.at = "check", !.hash = g, !.full = full])
    BY <1>1, <1>3 DEF Begin
  <2>2. job'[w].full /\ job'[w].at = "check" /\ \A v \in Workers \ {w} : job'[v] = job[v]
    BY <2>1 DEF Set, TypeOK
  <2>3. \A h \in Hash : delivered'[h] = IF h = g THEN delivered[g] + 1 ELSE delivered[h]
    BY <1>3 DEF Begin, TypeOK
  <2> QED  BY <1>1, <1>3, <2>1, <2>2, <2>3 DEF Begin
<1>4. ASSUME NEW w \in Workers, SaveVectors(w)
      PROVE  /\ delivered' = delivered /\ done' = done
             /\ \A v \in Workers \ {w} : job'[v] = job[v]
             /\ job'[w].full /\ job'[w].hash \in Hash /\ Placed(job[w].hash)'
  <2>1. job[w].at = "vectors" /\ job' = [job EXCEPT ![w] = [job[w] EXCEPT !.at = "semantic"]]
    BY <1>4 DEF SaveVectors, Step, Set
  <2>2. job[w] \in Job /\ job[w].full
    BY <1>1, <2>1
  <2>3. PICK h \in Hash : h = job[w].hash
    BY <2>2 DEF Job
  <2>4. job'[w] = [job[w] EXCEPT !.at = "semantic"] /\ \A v \in Workers \ {w} : job'[v] = job[v]
    BY <2>1 DEF TypeOK
  <2>5. job'[w].full /\ job'[w].hash = h
    BY <2>2, <2>3, <2>4 DEF Job
  <2>6. Placed(h)'
    BY <1>4, <2>2, <2>3, IndexedThere DEF SaveVectors
  <2> QED  BY <1>4, <2>3, <2>4, <2>5, <2>6 DEF SaveVectors
<1>5. ASSUME NEW w \in Workers, SaveSemanticVectors(w) \/ SaveTextVectors(w)
      PROVE  /\ delivered' = delivered
             /\ \A v \in Workers \ {w} : job'[v] = job[v]
             /\ job'[w].at = "idle"
             /\ \A h \in done' : Placed(h)'
  <2>1. job'[w] = IdleJob /\ \A v \in Workers \ {w} : job'[v] = job[v]
    BY <1>5 DEF SaveSemanticVectors, SaveTextVectors, End, Set, TypeOK
  <2>2. job[w] \in Job /\ job[w].full
    BY <1>1, <1>5 DEF SaveSemanticVectors, SaveTextVectors
  <2>3. PICK h \in Hash : h = job[w].hash
    BY <2>2 DEF Job
  <2>4. Placed(h)'
    <3>1. CASE SaveSemanticVectors(w)
      BY <1>1, <1>2, <2>3, <3>1 DEF SaveSemanticVectors
    <3>2. CASE SaveTextVectors(w)
      <4>1. MediaType[h] = "text" /\ AddPoints(h, "text")
        BY <1>1, <2>2, <2>3, <3>2 DEF SaveTextVectors, TypeOf
      <4>2. IndexedAs(job[w]) = "text"
        BY <2>2, <2>3, <4>1 DEF IndexedAs, TypeOf, PointType
      <4> QED  BY <2>2, <2>3, <4>1, <4>2, IndexedThere
    <3> QED  BY <1>5, <3>1, <3>2
  <2>5. done' = done \cup {h} /\ delivered' = delivered
    BY <1>5, <2>3 DEF SaveSemanticVectors, SaveTextVectors
  <2> QED  BY <1>1, <1>2, <2>1, <2>4, <2>5 DEF IdleJob
<1>6. ASSUME NothingIndexed
      PROVE  /\ delivered' = delivered /\ done' = done
             /\ \A w \in Workers : job'[w].at # "idle" => job'[w].full
             /\ \A w \in Workers : job'[w].at = "semantic" =>
                   job[w].at = "semantic" /\ job'[w].hash = job[w].hash
  BY <1>1, <1>6 DEF NothingIndexed, Proceeds, IdleJob
<1>7. \A h \in Hash : delivered'[h] <= 1
  BY <1>1, <1>3, <1>4, <1>5, <1>6, WhatIsIndexed
<1>8. \A w \in Workers : job'[w].at # "idle" => job'[w].full
  BY <1>1, <1>3, <1>4, <1>5, <1>6, WhatIsIndexed
<1>9. \A w \in Workers : (job[w].at = "semantic" => Placed(job[w].hash))'
  <2> SUFFICES ASSUME NEW w \in Workers, NEW h, h = job'[w].hash, job'[w].at = "semantic"
               PROVE  Placed(h)'
    OBVIOUS
  <2>1. CASE SaveVectors(w)
    BY <1>4, <2>1
  <2>2. CASE ~SaveVectors(w)
    <3>1. job[w].at = "semantic" /\ job[w].hash = h
      BY <1>3, <1>4, <1>5, <1>6, <2>2, WhatIsIndexed
    <3> QED  BY <1>1, <1>2, <3>1 DEF Job
  <2> QED  BY <2>1, <2>2
<1>10. \A h \in done' : Placed(h)'
  BY <1>1, <1>2, <1>3, <1>4, <1>5, <1>6, WhatIsIndexed
<1> QED  BY <1>7, <1>8, <1>9, <1>10

LEMMA OnceInit == Init => Budget /\ Orderly
<1> SUFFICES ASSUME Init PROVE Budget /\ Orderly
  OBVIOUS
<1>1. \A w \in Workers : job[w].at = "idle"
  BY DEF Init, Procs, IdleJob
<1>2. \A h \in Hash, t \in IndexTypes : index[h][t] = 0 /\ Pending(h, t) = {}
  BY <1>1 DEF Init, Pending, On
<1>3. Cardinality({}) = 0
  BY FS_EmptySet
<1>4. \A h \in Hash : delivered[h] = 0 /\ done = {}
  BY DEF Init
<1>5. Budget
  BY <1>2, <1>3, <1>4 DEF Budget
<1> QED  BY <1>1, <1>5, <1>4 DEF Orderly, Init

LEMMA OnceCorrect == Spec => [](TypeOK /\ Budget /\ Orderly)
  BY TypeCorrect, OnceInit, BudgetStep, OrderlyStep, PTL DEF Spec

\* No delivery indexes a content twice under a type, and without a fault a
\* finished content has its points exactly once where VerifySegments searches.
THEOREM IndexedOnce == Spec => []IndexedOncePerDelivery
<1>1. TypeOK /\ Budget /\ Orderly => IndexedOncePerDelivery
  <2> SUFFICES ASSUME TypeOK, Budget, Orderly, NEW h \in Hash
               PROVE  /\ \A t \in IndexTypes : index[h][t] <= delivered[h]
                      /\ faults = MaxFaults /\ h \in done \cap Split
                           => index[h][PointType(MediaType[h])] = 1
    BY DEF IndexedOncePerDelivery
  <2>1. \A t \in IndexTypes : index[h][t] <= delivered[h]
    <3> TAKE t \in IndexTypes
    <3>1. Pending(h, t) \subseteq Workers
      BY DEF Pending
    <3>2. Cardinality(Pending(h, t)) \in Nat
      BY <3>1, ProcessAssumption, FS_Subset, FS_CardinalityType
    <3>3. index[h][t] \in Nat /\ delivered[h] \in Nat
      BY DEF TypeOK
    <3> QED  BY <3>2, <3>3 DEF Budget
  <2>2. ASSUME faults = MaxFaults, h \in done \cap Split
        PROVE  index[h][PointType(MediaType[h])] = 1
    <3>1. PICK t \in IndexTypes : t = PointType(MediaType[h])
      BY PointTypes DEF IndexTypes, SignatureTypes
    <3>2. index[h][t] \in Nat /\ delivered[h] \in Nat
      BY DEF TypeOK
    <3>3. index[h][t] > 0 /\ delivered[h] <= 1
      BY <2>2, <3>1 DEF Orderly, Placed
    <3> QED  BY <2>1, <3>1, <3>2, <3>3
  <2> QED  BY <2>1, <2>2
<1> QED  BY <1>1, OnceCorrect, PTL

-----------------------------------------------------------------------------
(* Twins that miss each other                                              *)

\* Every event that came is being registered, or was.
Begun ==
    faults = MaxFaults =>
        \A h \in Hash : delivered[h] > 0 => h \in done \/ \E w \in Workers : On(w, h)

\* Contents that are registered at the same time are on record.
Recorded ==
    \A v, w \in Workers, g, h \in Hash : On(v, g) /\ On(w, h) /\ g # h => {g, h} \in overlap

Twins(g, h) ==
    /\ g # h /\ MediaType[g] = MediaType[h]
    /\ \A x \in {g, h} :
         MediaType[x] \in (IF x \in Split THEN Segmented \cup {"image"} ELSE {"image"})
    /\ Sim[g, h] >= ParentFloor /\ Sim[h, g] >= ParentFloor

Apart(g, h) == {g, h} \notin overlap /\ {g, h} \cap (recalled \cup blurred) = {}

AtCheck(h) == \E w \in Workers : On(w, h) /\ job[w].at = "check"

\* The row of h has a parent, or will have it.
Linked(h) ==
    \/ Named(h) /\ pg[h].parent # NoHash
    \/ \E w \in Workers :
         /\ On(w, h)
         /\ \/ job[w].at = "postgres" /\ job[w].parent # NoHash
            \/ job[w].at = "remember" /\ job[w].match.close

\* Of two twins whose registrations did not overlap the one that comes second
\* finds the other when it checks.
Sighted ==
    faults = MaxFaults =>
        \A g, h \in Hash :
            Twins(g, h) /\ Apart(g, h) /\ g \in done /\ delivered[h] > 0
            => AtCheck(h) \/ Linked(g) \/ Linked(h)

LEMMA TwinsMirror ==
    \A g, h : /\ Twins(g, h) => Twins(h, g)
              /\ Apart(g, h) => Apart(h, g)
<1>1. \A g, h : {g, h} = {h, g}
  OBVIOUS
<1> QED  BY <1>1 DEF Twins, Apart

\* What is on record stays there.
LEMMA HistoryGrows ==
    ASSUME [Next]_vars
    PROVE  /\ done \subseteq done' /\ overlap \subseteq overlap'
           /\ recalled \subseteq recalled' /\ blurred \subseteq blurred'
<1>1. ASSUME NEW w \in Workers, RegisterStep(w) \/ \E h \in Hash : Begin(w, h)
      PROVE  /\ done \subseteq done' /\ overlap \subseteq overlap'
             /\ recalled \subseteq recalled' /\ blurred \subseteq blurred'
  <2>1. CASE CheckSegments(w)
    BY <2>1 DEF CheckSegments, Blur
  <2>2. CASE \E h \in Hash : Begin(w, h)
    BY <2>2 DEF Begin
  <2>3. CASE CheckWithoutRedis(w)
    BY <2>3 DEF CheckWithoutRedis, Blur
  <2> QED
    BY <1>1, <2>1, <2>2, <2>3
       DEF RegisterStep, NoCheck, CheckImage, CheckFails, SaveSegmentCache,
           SavePostgres, SaveCache, SaveVectors, SaveSemanticVectors, SaveTextVectors,
           RegisterFails
<1>2. ASSUME NEW r \in Clients, RequestStep(r) \/ \E h \in Hash : LookUp(r, h) \/ QuerySegments(r, h)
      PROVE  UNCHANGED <<done, overlap, recalled, blurred>>
  BY <1>2 DEF RequestStep, FillCache, SaveSegmentCache, LookUp, QuerySegments
<1> QED  BY <1>1, <1>2 DEF Next, Expire, Crash, vars

\* Only Begin brings a worker to a content, or delivers.
LEMMA NobodyJoins ==
    ASSUME TypeOK, [Next]_vars, ~ \E w \in Workers, h \in Hash : Begin(w, h)
    PROVE  /\ \A w \in Workers, h \in Hash : On(w, h)' => On(w, h)
           /\ UNCHANGED delivered
<1>1. ASSUME NEW w \in Workers, NEW g \in Hash, NEW t \in IndexTypes, Indexing(w, g, t)
      PROVE  /\ \A v \in Workers, h \in Hash : On(v, h)' => On(v, h)
             /\ UNCHANGED delivered
  <2>1. job[w] \in Job /\ w \in Procs
    BY <1>1, BusyJob DEF Indexing, Pending, On, Procs
  <2>2. job'[w].at # "idle" => job'[w].hash = job[w].hash
    BY <1>1, <2>1 DEF Indexing, IdleJob, Job
  <2> QED  BY <1>1, <2>1, <2>2 DEF Indexing, On, Job
<1>2. CASE NothingIndexed
  BY <1>2 DEF NothingIndexed, Proceeds, On, IdleJob
<1> QED  BY <1>1, <1>2, WhatIsIndexed, IndexingStep

\* What Begin does to the workers.
LEMMA BeginJoins ==
    ASSUME TypeOK, NEW w \in Workers, NEW h \in Hash, Begin(w, h)
    PROVE  /\ job'[w].at = "check" /\ job'[w].hash = h /\ job[w].at = "idle"
           /\ \A v \in Workers \ {w} : job'[v] = job[v]
           /\ \A v \in Workers : job[v].at # "idle" => {h, job[v].hash} \in overlap'
           /\ \A g \in Hash \ {h} : delivered'[g] = delivered[g]
<1>1. PICK full \in BOOLEAN :
         Set(w, [IdleJob EXCEPT !.at = "check", !.hash = h, !.full = full])
  BY DEF Begin
<1>2. /\ job'[w].at = "check" /\ job'[w].hash = h
      /\ \A v \in Workers \ {w} : job'[v] = job[v]
  BY <1>1 DEF Set, TypeOK, Procs
<1>3. \A v \in Workers : job[v].at # "idle" => {h, job[v].hash} \in overlap'
  BY DEF Begin
<1> QED  BY <1>2, <1>3 DEF Begin, TypeOK

LEMMA RecordedStep == TypeOK /\ Recorded /\ [Next]_vars => Recorded'
<1> SUFFICES ASSUME TypeOK, Recorded, [Next]_vars, NEW v \in Workers, NEW w \in Workers,
                    NEW g \in Hash, NEW h \in Hash, On(v, g)', On(w, h)', g # h
             PROVE  {g, h} \in overlap'
  BY DEF Recorded
<1>1. CASE On(v, g) /\ On(w, h)
  BY <1>1, HistoryGrows DEF Recorded
<1>2. ASSUME NEW u \in Workers, NEW x \in Hash, Begin(u, x)
      PROVE  {g, h} \in overlap'
  <2>1. CASE u = v
    <3>1. g = x /\ On(w, h)
      BY <1>2, <2>1, BeginJoins DEF On
    <3> QED  BY <1>2, <3>1, BeginJoins DEF On
  <2>2. CASE u = w
    <3>1. h = x /\ On(v, g)
      BY <1>2, <2>2, BeginJoins DEF On
    <3>2. {h, g} \in overlap'
      BY <1>2, <3>1, BeginJoins DEF On
    <3>3. {h, g} = {g, h}
      OBVIOUS
    <3> QED  BY <3>2, <3>3
  <2>3. CASE u # v /\ u # w
    BY <1>1, <1>2, <2>3, BeginJoins DEF On
  <2> QED  BY <2>1, <2>2, <2>3
<1> QED  BY <1>1, <1>2, NobodyJoins

LEMMA BegunStep == TypeOK /\ Begun /\ [Next]_vars => Begun'
<1> SUFFICES ASSUME TypeOK, Begun, [Next]_vars, faults' = MaxFaults,
                    NEW h \in Hash, delivered'[h] > 0
             PROVE  h \in done' \/ \E w \in Workers : On(w, h)'
  BY DEF Begun
<1>1. faults = MaxFaults /\ ~Fault
  BY NoFaultYet
<1>2. ASSUME NEW w \in Workers, Begin(w, h)
      PROVE  On(w, h)'
  BY <1>2, BeginJoins DEF On
<1>3. CASE delivered[h] = 0
  BY <1>2, <1>3, BeginJoins, NobodyJoins DEF TypeOK
<1>4. CASE h \in done
  BY <1>4, HistoryGrows
<1>5. ASSUME NEW w \in Workers, On(w, h)
      PROVE  h \in done' \/ On(w, h)'
  <2>1. job[w] \in Job
    BY <1>5, BusyJob DEF On, Procs
  <2>2. CASE SaveSemanticVectors(w) \/ SaveTextVectors(w)
    BY <1>5, <2>2 DEF SaveSemanticVectors, SaveTextVectors, On
  <2>3. CASE SaveVectors(w)
    <3>1. job'[w].hash = h /\ job'[w].at = "semantic"
      BY <1>5, <2>1, <2>3 DEF SaveVectors, Step, Set, On, TypeOK, Procs, Job
    <3> QED  BY <3>1 DEF On
  <2>4. ASSUME NEW v \in Workers \ {w},
               SaveVectors(v) \/ SaveSemanticVectors(v) \/ SaveTextVectors(v)
        PROVE  job'[w] = job[w]
    BY <2>4 DEF SaveVectors, SaveSemanticVectors, SaveTextVectors, Step, End, Set, TypeOK, Procs
  <2>5. ASSUME NEW v \in Workers, NEW g \in Hash, Begin(v, g)
        PROVE  job'[w] = job[w]
    BY <1>5, <2>5, BeginJoins DEF On
  <2>6. CASE NothingIndexed
    <3>1. job'[w].hash = h
      BY <1>1, <1>5, <2>6 DEF NothingIndexed, Proceeds, On, IdleJob
    <3>2. job'[w] \in {IdleJob} \cup Job
      BY TypeStep DEF TypeOK, Procs
    <3>3. job'[w].at # "idle"
      BY <3>1, <3>2, NoHashApart DEF IdleJob, Job
    <3> QED  BY <3>1, <3>3 DEF On
  <2> QED  BY <1>5, <2>2, <2>3, <2>4, <2>5, <2>6, WhatIsIndexed DEF On
<1>6. delivered[h] = 0 \/ h \in done \/ \E w \in Workers : On(w, h)
  BY <1>1 DEF Begun, TypeOK
<1> QED  BY <1>3, <1>4, <1>5, <1>6

\* A worker that has a job goes on with it, or stays where it is.
LEMMA WorkerMoves ==
    ASSUME TypeOK, [Next]_vars, ~Fault, NEW w \in Workers, job[w].at # "idle"
    PROVE  job'[w] = job[w] \/ RegisterStep(w)
<1> USE DEF Procs
<1>1. ASSUME NEW v \in Workers \ {w}, RegisterStep(v)
      PROVE  job'[w] = job[w]
  <2>1. \A j : Set(v, j) => job'[w] = job[w]
    BY DEF Set, TypeOK
  <2>2. CASE CheckSegments(v)
    BY <2>1, <2>2 DEF CheckSegments, Adopt
  <2> QED
    BY <1>1, <2>1, <2>2
       DEF RegisterStep, NoCheck, CheckImage, CheckWithoutRedis, CheckFails, SaveSegmentCache,
           SavePostgres, SaveCache, SaveVectors, SaveSemanticVectors, SaveTextVectors,
           RegisterFails, Step, End, Adopt
<1>2. ASSUME NEW v \in Workers, NEW h \in Hash, Begin(v, h)
      PROVE  job'[w] = job[w]
  BY <1>2, BeginJoins
<1>3. ASSUME NEW r \in Clients, RequestStep(r) \/ \E h \in Hash : LookUp(r, h) \/ QuerySegments(r, h)
      PROVE  job'[w] = job[w]
  <2>1. r # w /\ r \notin Workers
    BY ProcessAssumption
  <2>2. \A j : Set(r, j) => job'[w] = job[w]
    BY <2>1 DEF Set, TypeOK
  <2> QED
    BY <1>3, <2>1, <2>2
       DEF RequestStep, FillCache, SaveSegmentCache, LookUp, QuerySegments, End
<1> QED  BY <1>1, <1>2, <1>3 DEF Next, Expire, Crash, vars

\* While nothing has failed the worker on h is the first, and writes its row.
LEMMA FirstToWrite ==
    ASSUME TypeOK, Coherent, Orderly, faults = MaxFaults, NEW w \in Workers, NEW h \in Hash, On(w, h)
    PROVE  /\ delivered[h] > 0
           /\ \A v \in Workers : On(v, h) => v = w
           /\ job[w].at \in Early => pg[h] = NoRow
<1>1. delivered[h] \in Nat /\ delivered[h] <= 1
  BY DEF TypeOK, Orderly
<1>2. delivered[h] # 0
  BY DEF Coherent, Untouched
<1>3. Single(h)
  BY <1>1, <1>2 DEF Coherent
<1> QED  BY <1>1, <1>2, <1>3 DEF Single

\* A match that is close enough is adopted.
LEMMA AdoptedParent ==
    ASSUME TypeOK, NEW w \in Workers, job[w].at # "idle", NEW m \in Match, m.close,
           Adopt(w, m, "postgres")
    PROVE  /\ job'[w].at = "postgres" /\ job'[w].hash = job[w].hash
           /\ job'[w].parent # NoHash
  BY AdoptType, MatchType, NoHashApart DEF Procs

LEMMA LinkedStays ==
    ASSUME TypeOK, Held, Coherent, Orderly, [Next]_vars, faults' = MaxFaults,
           NEW h \in Hash, Linked(h)
    PROVE  Linked(h)'
<1>1. faults = MaxFaults /\ ~Fault
  BY NoFaultYet
<1>2. CASE Named(h) /\ pg[h].parent # NoHash
  <2>1. pg'[h] = pg[h]
    BY <1>2, RowsStay
  <2> QED  BY <1>2, <2>1 DEF Linked, Named
<1>3. ASSUME NEW w \in Workers, On(w, h),
             \/ job[w].at = "postgres" /\ job[w].parent # NoHash
             \/ job[w].at = "remember" /\ job[w].match.close
      PROVE  Linked(h)'
  <2>1. job[w] \in Job /\ job[w].hash = h /\ pg[h] = NoRow
    BY <1>1, <1>3, BusyJob, FirstToWrite DEF On, Procs, Early
  <2>2. CASE job'[w] = job[w]
    BY <1>3, <2>2 DEF Linked, On
  <2>3. CASE RegisterStep(w) /\ job[w].at = "postgres"
    <3>1. SavePostgres(w)
      BY <1>1, <2>3
         DEF RegisterStep, NoCheck, CheckImage, CheckSegments, CheckWithoutRedis, CheckFails,
             SaveSegmentCache, SaveCache, SaveVectors, SaveSemanticVectors, SaveTextVectors,
             RegisterFails, Step
    <3>2. pg'[h] = Record(w)
      BY <2>1, <3>1 DEF SavePostgres, Insert, TypeOK
    <3>3. Record(w) \in Row /\ Record(w).parent # NoHash
      BY <1>3, <2>1, <2>3 DEF Record, Row, Job
    <3> QED  BY <3>2, <3>3, NoRowApart DEF Linked, Named
  <2>4. CASE RegisterStep(w) /\ job[w].at = "remember"
    <3>1. SaveSegmentCache(w)
      BY <1>1, <2>4
         DEF RegisterStep, NoCheck, CheckImage, CheckSegments, CheckWithoutRedis, CheckFails,
             SavePostgres, SaveCache, SaveVectors, SaveSemanticVectors, SaveTextVectors,
             RegisterFails, Step
    <3>2. Adopt(w, job[w].match, "postgres")
      BY <3>1 DEF SaveSegmentCache
    <3>3. job[w].match \in Match /\ job[w].match.close
      BY <1>3, <2>1, <2>4, MatchType DEF Job
    <3>4. /\ job'[w].at = "postgres" /\ job'[w].hash = h
          /\ job'[w].parent # NoHash
      BY <1>3, <2>1, <2>4, <3>2, <3>3, AdoptedParent
    <3> QED  BY <3>4 DEF Linked, On
  <2> QED  BY <1>1, <1>3, <2>2, <2>3, <2>4, WorkerMoves DEF On
<1> QED  BY <1>2, <1>3 DEF Linked

LEMMA Above == \A x, y \in 0..100 : x >= ParentFloor /\ x <= y => y >= ParentFloor
  BY DEF ParentFloor

LEMMA Comparable == \A x, y \in 0..100 : x > y \/ x <= y
  OBVIOUS

\* The most similar content of a set in which there is a similar one is similar.
LEMMA TopIsLike ==
    ASSUME NEW h \in Hash, NEW S \in SUBSET Hash, NEW d \in S, Sim[h, d] >= ParentFloor,
           NEW m \in Top(h, S, FALSE)
    PROVE  m \in Match /\ m.close
<1>1. /\ m \in Match /\ m.top \in S /\ Sim[h, d] <= Sim[h, m.top]
      /\ m.close = (Sim[h, m.top] >= ParentFloor)
  BY DEF Top
<1>2. Sim[h, d] \in 0..100 /\ Sim[h, m.top] \in 0..100
  <2>1. <<h, d>> \in Hash \X Hash /\ <<h, m.top>> \in Hash \X Hash
    BY <1>1
  <2> QED  BY <2>1, ContentAssumption, Zenon
<1>3. Sim[h, m.top] >= ParentFloor
  BY <1>1, <1>2, Above, Zenon
<1> QED  BY <1>1, <1>3

\* A finished twin is among the contents a check finds.
LEMMA TwinIsCandidate ==
    ASSUME TypeOK, NEW g \in Hash, NEW h \in Hash, Twins(g, h), Placed(g), NEW types,
           PointType(MediaType[h]) \in types
    PROVE  g \in Like(h, types)
<1>1. index[g][PointType(MediaType[g])] > 0
  BY DEF Placed, Twins, Segmented
<1>2. Sim[h, g] > 0
  <2>1. <<h, g>> \in Hash \X Hash
    OBVIOUS
  <2>2. PICK x \in 0..100 : x = Sim[h, g]
    BY <2>1, ContentAssumption, Zenon
  <2>3. x >= ParentFloor
    BY <2>2, Zenon DEF Twins
  <2>4. x > 0
    BY <2>3 DEF ParentFloor
  <2> QED  BY <2>2, <2>4, Zenon
<1> QED  BY <1>1, <1>2 DEF Like, Twins

\* VerifyFuzzy finds one that is similar if there is one: it finds a closest.
LEMMA SomeSimilarFound ==
    ASSUME NEW h \in Hash, NEW g \in Like(h, SignatureTypes), Sim[h, g] >= ParentFloor,
           NEW S \in FuzzyFound(h)
    PROVE  S \subseteq Hash /\ \E d \in S : Sim[h, d] >= ParentFloor
<1>1. /\ S \subseteq Hash /\ S # {} /\ g \in Hash
      /\ \A d \in S : Sim[h, g] > Sim[h, d] => g \in S
  BY DEF FuzzyFound, Like
<1>2. CASE g \in S
  BY <1>1, <1>2
<1>3. CASE g \notin S
  <2>1. PICK d \in S : ~ (Sim[h, g] > Sim[h, d])
    BY <1>1, <1>3
  <2>2. Sim[h, g] \in 0..100 /\ Sim[h, d] \in 0..100
    <3>1. <<h, g>> \in Hash \X Hash /\ <<h, d>> \in Hash \X Hash
      BY <1>1
    <3> QED  BY <3>1, ContentAssumption, Zenon
  <2>3. Sim[h, d] >= ParentFloor
    BY <2>1, <2>2, Above, Comparable, Zenon
  <2> QED  BY <1>1, <2>3
<1> QED  BY <1>2, <1>3

\* The check of a content whose twin is finished finds a parent.
LEMMA TwinIsFound ==
    ASSUME TypeOK, Orderly, [Next]_vars, faults' = MaxFaults,
           NEW g \in Hash, NEW h \in Hash, Twins(g, h), g \in done,
           h \notin recalled', h \notin blurred',
           NEW w \in Workers, On(w, h), job[w].at = "check", RegisterStep(w)
    PROVE  Linked(h)'
<1>1. faults = MaxFaults /\ ~Fault
  BY NoFaultYet
<1>2. job[w] \in Job /\ job[w].hash = h /\ job[w].full /\ Placed(g)
  BY <1>1, BusyJob DEF Orderly, On, Procs
<1>3. TypeOf(job[w]) = MediaType[h]
  BY <1>2 DEF TypeOf
<1>4. Sim[h, g] >= ParentFloor
  BY DEF Twins
<1>5. ASSUME NEW m \in Match, m.close, Adopt(w, m, "postgres")
      PROVE  Linked(h)'
  BY <1>2, <1>5, AdoptedParent DEF Linked, On
<1>6. CASE CheckImage(w)
  <2>1. MediaType[h] \in {"image", "video", "text"} /\ TypeOf(job[w]) = "image"
    BY <1>6 DEF CheckImage, CheckOf, Twins, Segmented
  <2>2. PointType(MediaType[h]) \in SignatureTypes
    BY <1>3, <2>1 DEF PointType, SignatureTypes
  <2>3. g \in Like(h, SignatureTypes)
    BY <1>2, <2>2, TwinIsCandidate
  <2>4. PICK S \in FuzzyFound(h) : \E m \in Top(h, S, FALSE) : Adopt(w, m, "postgres")
    BY <1>2, <1>6 DEF CheckImage
  <2>5. PICK m \in Top(h, S, FALSE) : Adopt(w, m, "postgres")
    BY <2>4
  <2>6. S \subseteq Hash /\ \E d \in S : Sim[h, d] >= ParentFloor
    BY <1>4, <2>3, SomeSimilarFound
  <2>7. m \in Match /\ m.close
    BY <2>6, TopIsLike
  <2> QED  BY <1>5, <2>5, <2>7
<1>7. CASE CheckSegments(w)
  <2>1. PICK t : t = PointType(MediaType[h])
    OBVIOUS
  <2>2. segCache[h] = NoMatch /\ ~Blurred(h, t)
    BY <1>2, <1>3, <1>7, <2>1 DEF CheckSegments, Blur
  <2>3. g \in Like(h, {t}) /\ Like(h, {t}) \subseteq Hash
    <3>1. g \in Like(h, {t})
      BY <1>2, <2>1, TwinIsCandidate
    <3> QED  BY <3>1 DEF Like
  <2>4. PICK m \in Match \cup {NoMatch}, fresh \in BOOLEAN :
           /\ Segments(h, t, m, fresh)
           /\ IF fresh THEN Set(w, [job[w] EXCEPT !.at = "remember", !.match = m])
              ELSE Adopt(w, m, "postgres")
    BY <1>2, <1>3, <1>7, <2>1 DEF CheckSegments
  <2>5. \/ m = Exact(h) /\ ~fresh
        \/ m \in Top(h, Like(h, {t}), FALSE) /\ fresh
    <3>1. CASE m = Exact(h) /\ ~fresh
      BY <3>1
    <3>2. CASE \E b \in BOOLEAN :
                  /\ b = Blurred(h, t)
                  /\ \E S \in SegmentsFound(h, t, b) : m \in Top(h, S, b) /\ fresh = (S # {})
      <4>1. PICK S \in SegmentsFound(h, t, FALSE) : m \in Top(h, S, FALSE) /\ fresh = (S # {})
        BY <2>2, <3>2
      <4>2. S = Like(h, {t})
        BY <4>1 DEF SegmentsFound
      <4> QED  BY <2>3, <4>1, <4>2
    <3> QED  BY <1>1, <2>2, <2>4, <3>1, <3>2 DEF Segments
  <2>6. m \in Match /\ m.close
    BY <1>4, <2>3, <2>5, TopIsLike, MatchType
  <2>7. CASE ~fresh
    BY <1>5, <2>4, <2>6, <2>7
  <2>8. CASE fresh
    <3>1. job' = [job EXCEPT ![w] = [job[w] EXCEPT !.at = "remember", !.match = m]]
      BY <2>4, <2>8 DEF Set
    <3>2. job'[w] = [job[w] EXCEPT !.at = "remember", !.match = m]
      BY <3>1 DEF TypeOK, Procs
    <3>3. job'[w].at = "remember" /\ job'[w].hash = h /\ job'[w].match = m
      BY <1>2, <3>2 DEF Job
    <3> QED  BY <2>6, <3>3 DEF Linked, On
  <2> QED  BY <2>7, <2>8
<1>8. ~NoCheck(w)
  <2>1. MediaType[h] = "image" \/ (MediaType[h] \in Segmented /\ h \in Split)
    BY Zenon DEF Twins
  <2> QED  BY <1>2, <1>3, <2>1 DEF NoCheck, CheckOf, Segmented
<1>9. CheckImage(w) \/ CheckSegments(w)
  BY <1>1, <1>8
     DEF RegisterStep, CheckWithoutRedis, CheckFails, SaveSegmentCache, SavePostgres, SaveCache,
         SaveVectors, SaveSemanticVectors, SaveTextVectors, RegisterFails, Step
<1> QED  BY <1>6, <1>7, <1>9

LEMMA SightedStep ==
    /\ TypeOK /\ Held /\ Coherent /\ Orderly
    /\ Begun /\ Recorded /\ Sighted /\ [Next]_vars
    => Sighted'
<1> SUFFICES ASSUME TypeOK, Held, Coherent, Orderly, Begun, Recorded, Sighted, [Next]_vars,
                    faults' = MaxFaults, NEW g \in Hash, NEW h \in Hash,
                    Twins(g, h), Apart(g, h)', g \in done', delivered'[h] > 0
             PROVE  AtCheck(h)' \/ Linked(g)' \/ Linked(h)'
  BY DEF Sighted, Twins
<1>1. faults = MaxFaults /\ ~Fault
  BY NoFaultYet
<1>2. Apart(g, h) /\ h \notin recalled' /\ h \notin blurred'
  BY HistoryGrows DEF Apart
<1>3. \A x \in Hash : Linked(x) => Linked(x)'
  BY LinkedStays
<1>4. delivered[h] \in Nat
  BY DEF TypeOK
<1>5. CASE g \in done /\ delivered[h] > 0
  <2>1. AtCheck(h) \/ Linked(g) \/ Linked(h)
    BY <1>1, <1>2, <1>5 DEF Sighted
  <2>2. ASSUME NEW w \in Workers, On(w, h), job[w].at = "check"
        PROVE  AtCheck(h)' \/ Linked(h)'
    <3>1. CASE job'[w] = job[w]
      BY <2>2, <3>1 DEF AtCheck, On
    <3>2. CASE RegisterStep(w)
      BY <1>2, <1>5, <2>2, <3>2, TwinIsFound
    <3> QED  BY <1>1, <2>2, <3>1, <3>2, WorkerMoves
  <2> QED  BY <1>3, <2>1, <2>2 DEF AtCheck
<1>6. CASE delivered[h] = 0
  <2>1. PICK w \in Workers : Begin(w, h)
    BY <1>6, BeginJoins, NobodyJoins
  <2> QED  BY <2>1, BeginJoins DEF AtCheck, On
<1>7. CASE g \notin done /\ delivered[h] > 0
  <2>1. PICK w \in Workers : SaveSemanticVectors(w) \/ SaveTextVectors(w)
    BY <1>7, WhatIsIndexed DEF NothingIndexed, Begin, SaveVectors
  <2>2. On(w, g) /\ job[w].at \in {"semantic", "vectors"}
    BY <1>7, <2>1 DEF SaveSemanticVectors, SaveTextVectors, On
  <2>3. h \in done
    <3>1. ~ \E v \in Workers : On(v, h)
      BY <1>2, <2>2 DEF Recorded, Apart, Twins
    <3> QED  BY <1>1, <1>7, <3>1 DEF Begun
  <2>4. delivered[g] > 0 /\ \A v \in Workers : On(v, g) => v = w
    BY <1>1, <2>2, FirstToWrite
  <2>5. AtCheck(g) \/ Linked(h) \/ Linked(g)
    BY <1>1, <1>2, <2>3, <2>4, TwinsMirror DEF Sighted
  <2>6. ~AtCheck(g)
    BY <2>2, <2>4 DEF AtCheck
  <2> QED  BY <1>3, <2>5, <2>6
<1> QED  BY <1>4, <1>5, <1>6, <1>7

Meeting == Begun /\ Recorded /\ Sighted

LEMMA MeetingInit == Init => Meeting
<1> SUFFICES ASSUME Init PROVE Meeting
  OBVIOUS
<1>1. \A w \in Workers : job[w].at = "idle"
  BY DEF Init, Procs, IdleJob
<1> QED  BY <1>1 DEF Init, Meeting, Begun, Recorded, Sighted, On

\* Twins are linked, however many contents there are and however few points a
\* query returns, unless they were registered at the same time, or the check of
\* one was answered from the segment cache or could not count every point once.
THEOREM UnlinkedWereConcurrent == Spec => []UnlinkedOnlyIfConcurrent
<1>1. TypeOK /\ RowFirst /\ Coherent /\ Orderly /\ Meeting => UnlinkedOnlyIfConcurrent
  <2> SUFFICES ASSUME TypeOK, RowFirst, Coherent, Orderly, Meeting, faults = MaxFaults,
                      NEW g \in Hash, NEW h \in Hash, Twins(g, h), Apart(g, h),
                      g \in done, h \in done
               PROVE  pg[g].parent # NoHash \/ pg[h].parent # NoHash
    BY DEF UnlinkedOnlyIfConcurrent, Twins, Apart, Checked
  <2>1. \A x \in {g, h} : Named(x)
    BY DEF RowFirst, Named
  <2>2. delivered[h] > 0
    <3>1. delivered[h] # 0 /\ delivered[h] \in Nat
      BY <2>1 DEF Coherent, Untouched, Named, TypeOK
    <3> QED  BY <3>1
  <2>3. AtCheck(h) \/ Linked(g) \/ Linked(h)
    BY <2>2 DEF Meeting, Sighted
  <2>4. \A x \in {g, h}, w \in Workers : On(w, x) => job[w].at \notin Early
    BY <2>1, FirstToWrite DEF Named
  <2> QED  BY <2>3, <2>4 DEF AtCheck, Linked, Early
<1>2. TypeOK /\ Held /\ Coherent /\ Orderly /\ Meeting /\ [Next]_vars => Meeting'
  BY BegunStep, RecordedStep, SightedStep DEF Meeting
<1> QED
  BY <1>1, <1>2, NamesCorrect, OnceCorrect, CoherentInit, CoherentStep, MeetingInit, PTL DEF Spec


-----------------------------------------------------------------------------
(* The recursive queries                                                   *)

\* The rows of a query after each of its first k rounds.
Rounds(First, Join, k, f) ==
    f = [n \in 0..k |-> IF n = 0 THEN First ELSE f[n - 1] \cup Join[f[n - 1]]]

LEMMA RoundsExist ==
    ASSUME NEW First, NEW Join, NEW N \in Nat
    PROVE  \E f : Rounds(First, Join, N, f)
<1> DEFINE K == {k \in Nat : ~\E f : Rounds(First, Join, k, f)}
<1>1. ASSUME K # {} PROVE FALSE
  <2>1. PICK k \in K : \A j \in K : k <= j
    <3>1. K \in SUBSET Nat
      OBVIOUS
    <3> HIDE DEF K
    <3> QED  BY <1>1, <3>1, Smallest
  <2>2. k \in Nat /\ ~\E f : Rounds(First, Join, k, f)
    BY <2>1
  <2>3. CASE k = 0
    <3>1. Rounds(First, Join, 0, [n \in 0..0 |-> First])
      BY DEF Rounds
    <3> QED  BY <2>2, <2>3, <3>1
  <2>4. CASE k # 0
    <3>1. k - 1 \in Nat /\ ~(k <= k - 1)
      BY <2>2, <2>4
    <3>2. k - 1 \notin K
      BY <2>1, <3>1
    <3>3. PICK g : Rounds(First, Join, k - 1, g)
      BY <3>1, <3>2
    <3> DEFINE f == [n \in 0..k |-> IF n < k THEN g[n] ELSE g[k - 1] \cup Join[g[k - 1]]]
    <3>4. \A n \in 0..(k - 1) :
             g[n] = IF n = 0 THEN First ELSE g[n - 1] \cup Join[g[n - 1]]
      BY <3>3 DEF Rounds
    <3>5. \A n \in 0..k :
             f[n] = IF n = 0 THEN First ELSE f[n - 1] \cup Join[f[n - 1]]
      <4> TAKE n \in 0..k
      <4>1. CASE n = k
        <5>1. f[n] = g[k - 1] \cup Join[g[k - 1]]
          BY <2>2, <4>1
        <5>2. n - 1 \in 0..k /\ n - 1 < k
          BY <2>2, <2>4, <4>1
        <5>3. f[n - 1] = g[k - 1]
          BY <4>1, <5>2
        <5> QED  BY <2>4, <4>1, <5>1, <5>3
      <4>2. CASE n # k
        <5>1. n \in 0..(k - 1) /\ n < k
          BY <2>2, <4>2
        <5>2. f[n] = g[n]
          BY <5>1
        <5>3. CASE n = 0
          BY <3>4, <5>1, <5>2, <5>3
        <5>4. CASE n # 0
          <6>1. n - 1 \in 0..k /\ n - 1 < k
            BY <2>2, <5>1, <5>4
          <6>2. f[n - 1] = g[n - 1]
            BY <6>1
          <6> QED  BY <3>4, <5>1, <5>2, <5>4, <6>2
        <5> QED  BY <5>3, <5>4
      <4> QED  BY <4>1, <4>2
    <3>6. f = [n \in 0..k |-> f[n]]
      OBVIOUS
    <3> HIDE DEF f
    <3>7. Rounds(First, Join, k, f)
      BY <3>5, <3>6 DEF Rounds
    <3> QED  BY <2>2, <3>7
  <2> QED  BY <2>3, <2>4
<1>2. N \notin K
  BY <1>1
<1> QED  BY <1>2

\* The rows a query returns are those it starts with, closed under the join,
\* and no others: as many rounds as there are contents are enough.
LEMMA ClosureIsLeast ==
    ASSUME NEW Q \in SUBSET Hash, NEW First \in SUBSET Q,
           NEW Join \in [SUBSET Q -> SUBSET Q]
    PROVE  /\ Closure(First, Join) \in SUBSET Q
           /\ First \subseteq Closure(First, Join)
           /\ Join[Closure(First, Join)] \subseteq Closure(First, Join)
           /\ \A X \in SUBSET Q :
                First \subseteq X /\ (\A S \in SUBSET X : Join[S] \subseteq X)
                  => Closure(First, Join) \subseteq X
<1> DEFINE N == Cardinality(Hash)
<1>1. IsFiniteSet(Hash)
  BY ContentAssumption, Zenon
<1>2. N \in Nat
  BY <1>1, FS_CardinalityType
<1>3. PICK f : Rounds(First, Join, N, f) /\ Closure(First, Join) = f[N]
  <2> DEFINE c == CHOOSE f : Rounds(First, Join, N, f)
  <2>1. Closure(First, Join) = c[N]
    BY DEF Closure, Rounds
  <2> HIDE DEF N
  <2>2. Rounds(First, Join, N, c)
    BY <1>2, RoundsExist
  <2> QED  BY <2>1, <2>2
<1> HIDE DEF N
<1>4. /\ f[0] = First
      /\ \A n \in Nat : n < N => f[n + 1] = f[n] \cup Join[f[n]]
  <2>1. \A n \in 0..N : f[n] = IF n = 0 THEN First ELSE f[n - 1] \cup Join[f[n - 1]]
    BY <1>3 DEF Rounds
  <2>2. f[0] = First
    <3>1. 0 \in 0..N
      BY <1>2
    <3> QED  BY <2>1, <3>1, Zenon
  <2>3. ASSUME NEW n \in Nat, n < N PROVE f[n + 1] = f[n] \cup Join[f[n]]
    <3>1. n + 1 \in 0..N /\ n + 1 # 0 /\ (n + 1) - 1 = n
      BY <1>2, <2>3
    <3> QED  BY <2>1, <3>1
  <2> QED  BY <2>2, <2>3
<1>5. ASSUME NEW X \in SUBSET Q, First \subseteq X, \A S \in SUBSET X : Join[S] \subseteq X
      PROVE  \A n \in 0..N : f[n] \in SUBSET X
  <2> DEFINE K == {n \in 0..N : f[n] \notin SUBSET X}
  <2>1. CASE K = {}
    BY <2>1
  <2>2. CASE K # {}
    <3>1. PICK k \in K : \A j \in K : k <= j
      <4>1. K \in SUBSET Nat
        OBVIOUS
      <4> HIDE DEF K
      <4> QED  BY <2>2, <4>1, Smallest
    <3>2. k # 0
      BY <1>4, <1>5, <3>1
    <3>3. k - 1 \in Nat /\ k - 1 < N /\ k - 1 \in 0..N /\ ~(k <= k - 1) /\ (k - 1) + 1 = k
      BY <1>2, <3>1, <3>2
    <3>4. f[k - 1] \in SUBSET X
      BY <3>1, <3>3
    <3>5. f[k] = f[k - 1] \cup Join[f[k - 1]]
      BY <1>4, <3>3
    <3>6. f[k] \in SUBSET X
      BY <1>5, <3>4, <3>5
    <3> QED  BY <3>1, <3>6
  <2> QED  BY <2>1, <2>2
<1>6. \A n \in 0..N : f[n] \in SUBSET Q
  <2>1. \A S \in SUBSET Q : Join[S] \subseteq Q
    OBVIOUS
  <2> QED  BY <1>5, <2>1
<1>7. \A n \in 0..N : IsFiniteSet(f[n]) /\ Cardinality(f[n]) \in Nat
  <2> TAKE n \in 0..N
  <2>1. f[n] \in SUBSET Hash
    BY <1>6
  <2> QED  BY <1>1, <2>1, FS_Subset, FS_CardinalityType
<1> DEFINE Done(n) == Join[f[n]] \subseteq f[n]
<1>8. \A n \in 0..N : Cardinality(f[n]) >= n \/ Done(n)
  <2> DEFINE K == {n \in 0..N : ~(Cardinality(f[n]) >= n \/ Done(n))}
  <2>1. CASE K = {}
    BY <2>1
  <2>2. CASE K # {}
    <3>1. PICK k \in K : \A j \in K : k <= j
      <4>1. K \in SUBSET Nat
        OBVIOUS
      <4> HIDE DEF K
      <4> QED  BY <2>2, <4>1, Smallest
    <3>2. k \in 0..N /\ ~(Cardinality(f[k]) >= k) /\ ~Done(k)
      BY <3>1
    <3>3. k # 0
      BY <1>7, <3>2
    <3>4. k - 1 \in Nat /\ k - 1 < N /\ k - 1 \in 0..N /\ ~(k <= k - 1) /\ (k - 1) + 1 = k
      BY <1>2, <3>2, <3>3
    <3>5. f[k] = f[k - 1] \cup Join[f[k - 1]]
      BY <1>4, <3>4
    <3>6. Cardinality(f[k - 1]) >= k - 1 \/ Done(k - 1)
      BY <3>1, <3>4
    <3>7. CASE Done(k - 1)
      <4>1. f[k] = f[k - 1]
        BY <3>5, <3>7
      <4> QED  BY <3>2, <3>7, <4>1
    <3>8. CASE ~Done(k - 1)
      <4>1. f[k - 1] \subseteq f[k] /\ f[k - 1] # f[k]
        BY <3>5, <3>8
      <4>2. Cardinality(f[k - 1]) < Cardinality(f[k])
        <5>1. /\ Cardinality(f[k - 1]) <= Cardinality(f[k])
              /\ Cardinality(f[k - 1]) = Cardinality(f[k]) => f[k - 1] = f[k]
          BY <1>7, <3>2, <4>1, FS_Subset
        <5>2. Cardinality(f[k - 1]) \in Nat /\ Cardinality(f[k]) \in Nat
          BY <1>7, <3>2, <3>4
        <5> QED  BY <4>1, <5>1, <5>2
      <4>3. Cardinality(f[k - 1]) \in Nat /\ Cardinality(f[k]) \in Nat
        BY <1>7, <3>2, <3>4
      <4> HIDE DEF Done
      <4> QED  BY <3>2, <3>4, <3>6, <3>8, <4>2, <4>3
    <3> QED  BY <3>7, <3>8
  <2> QED  BY <2>1, <2>2
<1>9. N \in 0..N
  BY <1>2
<1>10. Join[f[N]] \subseteq f[N]
  <2>1. f[N] \in SUBSET Hash /\ f[N] \in SUBSET Q
    BY <1>6, <1>9
  <2>2. CASE Cardinality(f[N]) >= N
    <3>1. /\ Cardinality(f[N]) <= N
          /\ Cardinality(f[N]) = N => f[N] = Hash
      BY <1>1, <2>1, FS_Subset DEF N
    <3>2. f[N] = Hash
      BY <1>2, <1>7, <1>9, <2>2, <3>1
    <3> QED  BY <2>1, <3>2
  <2> QED  BY <1>8, <1>9, <2>2
<1>11. ASSUME NEW n \in 0..N PROVE First \subseteq f[n]
  <2> DEFINE K == {m \in 0..N : ~(First \subseteq f[m])}
  <2>1. CASE K = {}
    BY <2>1
  <2>2. CASE K # {}
    <3>1. PICK k \in K : \A j \in K : k <= j
      <4>1. K \in SUBSET Nat
        OBVIOUS
      <4> HIDE DEF K
      <4> QED  BY <2>2, <4>1, Smallest
    <3>2. k # 0
      BY <1>4, <3>1
    <3>3. k - 1 \in Nat /\ k - 1 < N /\ k - 1 \in 0..N /\ ~(k <= k - 1) /\ (k - 1) + 1 = k
      BY <1>2, <3>1, <3>2
    <3>4. First \subseteq f[k - 1]
      BY <3>1, <3>3
    <3>5. f[k] = f[k - 1] \cup Join[f[k - 1]]
      BY <1>4, <3>3
    <3> QED  BY <3>1, <3>4, <3>5
  <2> QED  BY <2>1, <2>2
<1> QED  BY <1>3, <1>5, <1>6, <1>9, <1>10, <1>11


-----------------------------------------------------------------------------
(* GetLineage                                                              *)

LEMMA JoinsType ==
    ASSUME TypeOK
    PROVE  /\ Stored \in SUBSET Hash /\ NoHash \notin Stored
           /\ [S \in SUBSET Stored |-> ParentsOf(S)] \in [SUBSET Stored -> SUBSET Stored]
           /\ [S \in SUBSET Stored |-> ChildrenOf(S)] \in [SUBSET Stored -> SUBSET Stored]
<1>1. Stored \in SUBSET Hash /\ NoHash \notin Stored
  BY NoHashApart DEF Stored
<1>2. \A S \in SUBSET Stored : ParentsOf(S) \in SUBSET Stored
  BY DEF ParentsOf
<1>3. \A S \in SUBSET Stored : ChildrenOf(S) \in SUBSET Stored
  BY DEF ChildrenOf
<1> QED  BY <1>1, <1>2, <1>3

\* The stored ancestors of h: h, their stored parents, and no others.
LEMMA UpstreamIs ==
    ASSUME TypeOK, NEW h \in Stored
    PROVE  /\ Upstream(h) \in SUBSET Stored /\ h \in Upstream(h)
           /\ \A c \in Upstream(h) : pg[c].parent \in Stored => pg[c].parent \in Upstream(h)
           /\ \A X \in SUBSET Stored :
                h \in X /\ (\A c \in X : pg[c].parent \in Stored => pg[c].parent \in X)
                  => Upstream(h) \subseteq X
<1> DEFINE Join == [S \in SUBSET Stored |-> ParentsOf(S)]
<1>1. Upstream(h) = Closure({h}, Join)
  <2>1. {h} \cap Stored = {h}
    OBVIOUS
  <2> QED  BY <2>1 DEF Upstream
<1>2. Stored \in SUBSET Hash /\ Join \in [SUBSET Stored -> SUBSET Stored]
  BY JoinsType
<1>3. \A S \in SUBSET Stored : Join[S] = ParentsOf(S)
  OBVIOUS
<1>4. PICK Q \in SUBSET Hash : Q = Stored
  BY <1>2
<1>5. PICK J \in [SUBSET Q -> SUBSET Q] : J = Join
  BY <1>2, <1>4
<1> HIDE DEF Join
<1>6. PICK U : U = Upstream(h)
  OBVIOUS
<1>7. /\ U \in SUBSET Q /\ {h} \subseteq U /\ J[U] \subseteq U
      /\ \A X \in SUBSET Q :
           {h} \subseteq X /\ (\A S \in SUBSET X : J[S] \subseteq X) => U \subseteq X
  <2>1. {h} \in SUBSET Q
    BY <1>4
  <2>2. Closure({h}, J) = U
    BY <1>1, <1>5, <1>6
  <2> QED  BY <2>1, <2>2, ClosureIsLeast
<1>8. J[U] = ParentsOf(U)
  BY <1>3, <1>4, <1>5, <1>7
<1>9. \A c \in U : pg[c].parent \in Stored => pg[c].parent \in U
  BY <1>7, <1>8 DEF ParentsOf
<1>10. ASSUME NEW X \in SUBSET Stored, h \in X,
              \A c \in X : pg[c].parent \in Stored => pg[c].parent \in X
       PROVE  U \subseteq X
  <2>1. ASSUME NEW S \in SUBSET X PROVE J[S] \subseteq X
    <3>1. J[S] = ParentsOf(S)
      BY <1>3, <1>4, <1>5
    <3> QED  BY <1>10, <3>1 DEF ParentsOf
  <2> QED  BY <1>4, <1>7, <1>10, <2>1
<1> QED  BY <1>4, <1>6, <1>7, <1>9, <1>10

\* The stored descendants of some rows: the rows, their children, and no others.
LEMMA DownstreamIs ==
    ASSUME TypeOK, NEW R \in SUBSET Stored, NEW D,
           D = Closure(R, [S \in SUBSET Stored |-> ChildrenOf(S)])
    PROVE  /\ D \in SUBSET Stored /\ R \subseteq D
           /\ \A c \in Stored : pg[c].parent \in D => c \in D
           /\ R = {} => D = {}
<1> DEFINE Join == [S \in SUBSET Stored |-> ChildrenOf(S)]
<1>2. Stored \in SUBSET Hash /\ Join \in [SUBSET Stored -> SUBSET Stored]
  BY JoinsType
<1>3. \A S \in SUBSET Stored : Join[S] = ChildrenOf(S)
  OBVIOUS
<1>4. PICK Q \in SUBSET Hash : Q = Stored
  BY <1>2
<1>5. PICK J \in [SUBSET Q -> SUBSET Q] : J = Join
  BY <1>2, <1>4
<1>6. D = Closure(R, J)
  BY <1>5
<1> HIDE DEF Join
<1>7. /\ D \in SUBSET Q /\ R \subseteq D /\ J[D] \subseteq D
      /\ \A X \in SUBSET Q :
           R \subseteq X /\ (\A S \in SUBSET X : J[S] \subseteq X) => D \subseteq X
  <2>1. R \in SUBSET Q
    BY <1>4
  <2>2. PICK C : C = Closure(R, J)
    OBVIOUS
  <2>3. /\ C \in SUBSET Q /\ R \subseteq C /\ J[C] \subseteq C
        /\ \A X \in SUBSET Q :
             R \subseteq X /\ (\A S \in SUBSET X : J[S] \subseteq X) => C \subseteq X
    BY <2>1, <2>2, ClosureIsLeast
  <2>4. D = C
    BY <1>6, <2>2
  <2> QED  BY <2>3, <2>4
<1>8. J[D] = ChildrenOf(D)
  BY <1>3, <1>4, <1>5, <1>7
<1>9. \A c \in Stored : pg[c].parent \in D => c \in D
  BY <1>7, <1>8 DEF ChildrenOf
<1>10. ASSUME R = {} PROVE D = {}
  <2>1. \A S \in SUBSET {} : J[S] \subseteq {}
    <3>1. J[{}] = ChildrenOf({})
      BY <1>3, <1>4, <1>5
    <3>2. ChildrenOf({}) = {}
      BY DEF ChildrenOf
    <3>3. \A S \in SUBSET {} : S = {}
      OBVIOUS
    <3> QED  BY <3>1, <3>2, <3>3
  <2> QED  BY <1>7, <1>10, <2>1
<1> QED  BY <1>4, <1>7, <1>9, <1>10

Roots(h) == {c \in Upstream(h) : pg[c].parent = NoHash}

\* A content with a stored parent has the parent's ancestors, and itself.
LEMMA SameAncestors ==
    ASSUME TypeOK, NEW h \in Stored, pg[h].parent \in Stored
    PROVE  Upstream(h) = {h} \cup Upstream(pg[h].parent)
<1>1. PICK p \in Stored : p = pg[h].parent
  OBVIOUS
<1>2. PICK V : V = Upstream(p)
  OBVIOUS
<1>3. V \in SUBSET Stored /\ p \in V /\ \A c \in V : pg[c].parent \in Stored => pg[c].parent \in V
  BY <1>2, UpstreamIs
<1>4. Upstream(h) \subseteq {h} \cup V
  <2>1. {h} \cup V \in SUBSET Stored
    BY <1>3
  <2>2. \A c \in {h} \cup V : pg[c].parent \in Stored => pg[c].parent \in {h} \cup V
    BY <1>1, <1>3
  <2> QED  BY <2>1, <2>2, UpstreamIs
<1>5. V \subseteq Upstream(h)
  <2>1. Upstream(h) \in SUBSET Stored /\ p \in Upstream(h)
    BY <1>1, UpstreamIs
  <2>2. \A c \in Upstream(h) : pg[c].parent \in Stored => pg[c].parent \in Upstream(h)
    BY UpstreamIs
  <2>3. \A X \in SUBSET Stored :
          p \in X /\ (\A c \in X : pg[c].parent \in Stored => pg[c].parent \in X) => V \subseteq X
    BY <1>2, UpstreamIs
  <2> QED  BY <2>1, <2>2, <2>3
<1>6. h \in Upstream(h)
  BY UpstreamIs
<1>7. Upstream(pg[h].parent) = V
  BY <1>1, <1>2
<1> QED  BY <1>4, <1>5, <1>6, <1>7

\* All ancestors of a content have the same last one: the first query's LIMIT 1
\* has nothing to choose from.
LEMMA OneEnd ==
    ASSUME TypeOK, NEW h \in Stored, NEW c \in Upstream(h), pg[c].parent \notin Stored,
           NEW d \in Upstream(h), pg[d].parent \notin Stored
    PROVE  c = d
<1> DEFINE X == {x \in Upstream(h) : c \in Upstream(x)}
<1>1. Upstream(h) \in SUBSET Stored /\ h \in Upstream(h)
      /\ \A x \in Upstream(h) : pg[x].parent \in Stored => pg[x].parent \in Upstream(h)
  BY UpstreamIs
<1>2. X \in SUBSET Stored /\ h \in X
  BY <1>1
<1>3. ASSUME NEW x \in X, pg[x].parent \in Stored PROVE pg[x].parent \in X
  <2>1. x \in Stored /\ x # c
    BY <1>2, <1>3
  <2>2. Upstream(x) = {x} \cup Upstream(pg[x].parent)
    BY <1>3, <2>1, SameAncestors
  <2> QED  BY <1>1, <1>3, <2>1, <2>2
<1>4. Upstream(h) \subseteq X
  <2> HIDE DEF X
  <2> QED  BY <1>2, <1>3, UpstreamIs
<1>5. c \in Upstream(d)
  BY <1>4
<1>6. Upstream(d) \subseteq {d}
  <2>1. d \in Stored
    BY <1>1
  <2>2. {d} \in SUBSET Stored /\ \A x \in {d} : pg[x].parent \in Stored => pg[x].parent \in {d}
    BY <2>1
  <2> QED  BY <2>1, <2>2, UpstreamIs
<1> QED  BY <1>5, <1>6

LEMMA LineageIs ==
    ASSUME TypeOK, NEW h \in Stored
    PROVE  /\ GetLineage(h) \in SUBSET Stored /\ Roots(h) \subseteq GetLineage(h)
           /\ \A c \in Stored : pg[c].parent \in GetLineage(h) => c \in GetLineage(h)
           /\ Roots(h) = {} => GetLineage(h) = {}
<1>1. PICK R : R = Roots(h)
  OBVIOUS
<1>2. PICK D : D = GetLineage(h)
  OBVIOUS
<1>3. R \in SUBSET Stored
  BY <1>1, UpstreamIs DEF Roots
<1>4. D = Closure(R, [S \in SUBSET Stored |-> ChildrenOf(S)])
  BY <1>1, <1>2 DEF GetLineage, Roots
<1> QED  BY <1>1, <1>2, <1>3, <1>4, DownstreamIs

LEMMA FamilyIsComplete ==
    ASSUME TypeOK, ParentsKnown, NEW h \in Stored, Ends(h)
    PROVE  /\ GetLineage(h) # {} => h \in GetLineage(h)
           /\ pg[h].parent \in Stored => GetLineage(h) = GetLineage(pg[h].parent)
           /\ GetLineage(h) = {} =>
                \E c \in Upstream(h) : pg[c].parent = Declared[c] /\ Declared[c] \notin Stored
<1>1. ASSUME GetLineage(h) # {}, h \notin GetLineage(h) PROVE FALSE
  <2>1. PICK r \in Roots(h) : TRUE
    BY <1>1, LineageIs
  <2>2. PICK D : D = GetLineage(h)
    OBVIOUS
  <2>3. /\ D \in SUBSET Stored /\ r \in D /\ h \notin D
        /\ \A c \in Stored : pg[c].parent \in D => c \in D
    BY <1>1, <2>1, <2>2, LineageIs
  <2> DEFINE X == Stored \ D
  <2>4. X \in SUBSET Stored /\ h \in X
    BY <2>3
  <2>5. \A c \in X : pg[c].parent \in Stored => pg[c].parent \in X
    BY <2>3
  <2>6. Upstream(h) \subseteq X
    <3> HIDE DEF X
    <3> QED  BY <2>4, <2>5, UpstreamIs
  <2>7. r \in Upstream(h)
    BY <2>1 DEF Roots
  <2> QED  BY <2>3, <2>6, <2>7
<1>2. ASSUME pg[h].parent \in Stored PROVE GetLineage(h) = GetLineage(pg[h].parent)
  <2>1. Upstream(h) = {h} \cup Upstream(pg[h].parent)
    BY <1>2, SameAncestors
  <2>2. pg[h].parent # NoHash
    BY <1>2, JoinsType
  <2>3. {c \in Upstream(h) : pg[c].parent = NoHash}
          = {c \in Upstream(pg[h].parent) : pg[c].parent = NoHash}
    BY <2>1, <2>2
  <2> QED  BY <2>3 DEF GetLineage
<1>3. ASSUME GetLineage(h) = {}
      PROVE  \E c \in Upstream(h) : pg[c].parent = Declared[c] /\ Declared[c] \notin Stored
  <2>1. PICK c \in Upstream(h) : pg[c].parent \notin Stored
    BY DEF Ends
  <2>2. c \in Stored
    BY <2>1, UpstreamIs
  <2>3. pg[c].parent # NoHash
    BY <1>3, <2>1, LineageIs DEF Roots
  <2>4. c \in Hash /\ Named(c)
    BY <2>2 DEF Stored, Named
  <2>5. ~Named(pg[c].parent) \/ pg[c].parent \notin Hash
    BY <2>1 DEF Stored, Named
  <2>6. pg[c].parent \in Hash
    BY <2>2, <2>3, NoRowApart DEF TypeOK, Row, Stored
  <2>7. pg[c].parent = Declared[c]
    BY <2>3, <2>4, <2>5, <2>6 DEF ParentsKnown
  <2> QED  BY <2>1, <2>7
<1> QED  BY <1>1, <1>2, <1>3

\* GetLineage gives a content and its parent the same, complete answer, and
\* none at all only for want of a declared parent.
THEOREM FamiliesAreComplete == Spec => []FamilyComplete
<1>1. Init => ParentsKnown
  BY DEF Init, ParentsKnown, Named
<1>2. TypeOK /\ ParentsKnown => FamilyComplete
  BY FamilyIsComplete DEF FamilyComplete
<1> QED  BY <1>1, <1>2, NamesCorrect, ParentsKnownStep, PTL DEF Spec


\* The ancestors of a content end in one content at most, whatever parents are
\* declared: GetLineage's LIMIT 1 never chooses between two roots.
THEOREM LineageHasOneRoot ==
    Spec => [](\A h \in Stored : \A c, d \in Roots(h) : c = d)
<1>1. TypeOK => \A h \in Stored : \A c, d \in Roots(h) : c = d
  BY OneEnd, JoinsType DEF Roots
<1> QED  BY <1>1, TypeCorrect, PTL
=============================================================================
