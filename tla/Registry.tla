------------------------------ MODULE Registry ------------------------------
(***************************************************************************)
(* service.Register (internal/content) run by the pipeline's workers, and  *)
(* the reads of HTTP clients that write back: VerifyExact (read-through of *)
(* the Redis record cache) and VerifySegments (which keeps its answer in   *)
(* the segment cache for an hour).  One record lives in three stores:      *)
(* Postgres (the row), Redis (a copy without expiry) and Qdrant (points    *)
(* under random ids, so indexing twice adds points).  The stores share no  *)
(* transaction; every call may fail, and the process may die between two.  *)
(*                                                                         *)
(* A content is its SHA-256.  Sim abstracts the distances of Qdrant and    *)
(* the scoring of VerifyFuzzy and VerifySegments for the case that every   *)
(* point close enough is returned, once; a query returns no more than the  *)
(* five closest points, and VerifySegments counts what is returned.        *)
(* Documents go the way of videos.  Face and audio points (whose failures  *)
(* are only logged) and webhooks are left out.                             *)
(***************************************************************************)
EXTENDS Naturals, FiniteSets, Functions

CONSTANTS
    Hash,       \* contents registered on the chain
    NoHash,     \* no content: an empty parent_sha256, no match
    NoRow,      \* no row, no cache entry
    MediaType,  \* media type in each content's IPFS metadata, "" if absent
    Split,      \* contents whose IPFS metadata carries keyframes (segments)
    Declared,   \* parent_sha256 in each content's IPFS metadata, or NoHash
    Sim,        \* similarity of two contents in percent, 0 if no match at all
    Points,     \* segments of each content, hence points when indexed by segment
    Limit,      \* points one query returns: 5
    Workers,    \* the pipeline's workers
    Clients,    \* HTTP requests served at the same time
    MaxFaults   \* bound on failed calls, redeliveries and crashes

MediaTypes == {"image", "video", "text", ""}

\* Similarity from which Register records the match as the parent.
ParentFloor == 80

ASSUME ContentAssumption ==
    /\ IsFiniteSet(Hash)
    /\ NoHash \notin Hash
    /\ MediaType \in [Hash -> MediaTypes]
    /\ Split \subseteq Hash
    /\ Declared \in [Hash -> Hash \cup {NoHash}]
    /\ Sim \in [Hash \X Hash -> 0..100]
    /\ \A h \in Hash : Sim[h, h] = 100
    /\ Points \in [Hash -> Nat \ {0}]
    /\ Limit \in Nat \ {0}

ASSUME ProcessAssumption ==
    /\ Workers \cap Clients = {}
    /\ IsFiniteSet(Workers)
    /\ MaxFaults \in Nat

Row == [parent : Hash \cup {NoHash}, full : BOOLEAN]

ASSUME NoRowAssumption == NoRow \notin Row

Procs == Workers \cup Clients

\* The point types a content is indexed under, and its semantic embedding.
SignatureTypes == {"image", "keyframe"}
IndexTypes == SignatureTypes \cup {"text", "semantic"}

VARIABLES
    pg,         \* content_records in Postgres
    cache,      \* record cache in Redis, without expiry
    segCache,   \* segment cache in Redis: top match of the last answer
    index,      \* Qdrant: times each content was indexed under each type
    job,        \* what each worker and each request is doing
    delivered,  \* how often each content's event was delivered
    done,       \* history: contents for which Register returned nil
    overlap,    \* history: pairs of contents registered at the same time
    recalled,   \* history: contents whose check was answered from segCache
    blurred,    \* history: contents whose check could not count all points once
    faults      \* how many more faults may happen

stores == <<pg, cache, segCache, index>>
vars == <<pg, cache, segCache, index, job, delivered, done, overlap, recalled, blurred, faults>>

\* The top match of an answer, and whether its similarity reaches ParentFloor.
Match == [top : Hash, close : BOOLEAN]
NoMatch == [top |-> NoHash, close |-> FALSE]

IdleJob == [at |-> "idle", hash |-> NoHash, full |-> FALSE, match |-> NoMatch,
            parent |-> NoHash]

Fault == faults > 0 /\ faults' = faults - 1

Init ==
    /\ pg = [h \in Hash |-> NoRow]
    /\ cache = [h \in Hash |-> NoRow]
    /\ segCache = [h \in Hash |-> NoMatch]
    /\ index = [h \in Hash |-> [t \in IndexTypes |-> 0]]
    /\ job = [p \in Procs |-> IdleJob]
    /\ delivered = [h \in Hash |-> 0]
    /\ done = {}
    /\ overlap = {}
    /\ recalled = {}
    /\ blurred = {}
    /\ faults = MaxFaults

-----------------------------------------------------------------------------
(* What the code computes from the stores                                  *)

\* Media type processEvent passes to Register: that of the metadata, even if
\* empty, and "image" when no gateway answered.
TypeOf(j) == IF j.full THEN MediaType[j.hash] ELSE "image"

\* segmentPointType: the point type VerifySegments searches.
PointType(m) == CASE m = "video" -> "keyframe"
                  [] m = "text"  -> "text"
                  [] OTHER       -> "image"

Segmented == {"video", "text"}

\* The check Register makes: VerifySegments (which answers "no match" at once
\* without segments), VerifyFuzzy, or none.
CheckOf(j) == CASE TypeOf(j) \in Segmented /\ j.hash \in Split -> "segments"
                [] TypeOf(j) = "image" -> "fuzzy"
                [] OTHER -> "none"

\* The type of the points Register writes: a video without keyframes is
\* indexed as an image.
IndexedAs(j) == IF TypeOf(j) = "video" /\ j.hash \notin Split
                THEN "image" ELSE PointType(TypeOf(j))

\* Contents with points of these types close enough to h to be reported.
Like(h, types) ==
    {c \in Hash : Sim[h, c] > 0 /\ \E t \in types : index[c][t] > 0}

PointsOf(c, t) == index[c][t] * (IF t = "image" THEN 1 ELSE Points[c])

\* They have more points than a query returns.
Crowded(h, types) ==
    SumFunctionOnSet([x \in Hash \X IndexTypes |-> PointsOf(x[1], x[2])],
                     Like(h, types) \X types) > Limit

\* VerifySegments scores by counting points, of which some may not be returned
\* and others are there twice.
Blurred(h, t) ==
    Crowded(h, {t}) \/ \E c \in Like(h, {t}) : index[c][t] > 1

\* The contents VerifyFuzzy finds at the closest points, ...
FuzzyFound(h) ==
    LET C == Like(h, SignatureTypes)
    IN  {S \in SUBSET C :
           /\ S = {} => C = {}
           /\ Crowded(h, SignatureTypes) \/ S = C
           /\ \A c \in C, d \in S : Sim[h, c] > Sim[h, d] => c \in S}

\* ... and those VerifySegments finds at the points close to any segment.
SegmentsFound(h, t, b) == IF b THEN SUBSET Like(h, {t}) ELSE {Like(h, {t})}

\* The top match: any of the most similar ones, the sort is not stable; or, when
\* the points cannot be counted, any of those found.
Top(h, S, b) ==
    IF S = {} THEN {NoMatch}
    ELSE {m \in Match :
            /\ m.top \in S
            /\ \/ b
               \/ /\ \A d \in S : Sim[h, d] <= Sim[h, m.top]
                  /\ m.close = (Sim[h, m.top] >= ParentFloor)}

\* VerifyExact on each content of C: a cache miss copies the row to Redis.
ReadThrough(C) ==
    cache' = [c \in Hash |-> IF c \in C /\ cache[c] = NoRow THEN pg[c] ELSE cache[c]]

Set(p, j) == job' = [job EXCEPT ![p] = j]
Step(p, from, to) == job[p].at = from /\ Set(p, [job[p] EXCEPT !.at = to])

End(p) == Set(p, IdleJob)

-----------------------------------------------------------------------------
(* Register, one action per call to a store                                *)

\* A worker takes an event; the content's metadata may not be available.  An
\* event comes again only after a fault (Ingestion shows OneDeliveryPerFault).
Begin(w, h) ==
    /\ job[w].at = "idle"
    /\ \E full \in BOOLEAN :
         /\ IF full /\ delivered[h] = 0 THEN UNCHANGED faults ELSE Fault
         /\ Set(w, [IdleJob EXCEPT !.at = "check", !.hash = h, !.full = full])
    /\ delivered' = [delivered EXCEPT ![h] = @ + 1]
    /\ overlap' = overlap \cup {{h, job[v].hash} : v \in {v \in Workers : job[v].at # "idle"}}
    /\ UNCHANGED <<stores, done, recalled, blurred>>

\* The match found by the check becomes the parent if it is similar enough,
\* otherwise the metadata's own parent stays.
Adopt(w, m, to) ==
    LET j == job[w]
        declared == IF j.full THEN Declared[j.hash] ELSE NoHash
    IN  Set(w, [j EXCEPT !.at = to, !.match = NoMatch,
                         !.parent = IF m.close THEN m.top ELSE declared])

\* Register has nothing to check and goes straight to Postgres.
NoCheck(w) ==
    /\ job[w].at = "check"
    /\ CheckOf(job[w]) = "none"
    /\ Adopt(w, NoMatch, "postgres")
    /\ UNCHANGED <<stores, delivered, done, overlap, recalled, blurred, faults>>

\* VerifyFuzzy over every signature, whatever its point type.
CheckImage(w) ==
    /\ job[w].at = "check"
    /\ CheckOf(job[w]) = "fuzzy"
    /\ \E S \in FuzzyFound(job[w].hash) :
         /\ \E m \in Top(job[w].hash, S, FALSE) : Adopt(w, m, "postgres")
         /\ ReadThrough(S)
    /\ UNCHANGED <<pg, segCache, index, delivered, done, overlap, recalled, blurred, faults>>

Exact(h) == [top |-> h, close |-> TRUE]

\* VerifySegments for content h of point type t: the segment cache first, then
\* the exact match, then the search.  m is the answer, fresh says that
\* SaveSegmentCache is still to be called with it.  A lookup or a search that
\* fails is passed over.
Segments(h, t, m, fresh) ==
    \/ /\ segCache[h] # NoMatch
       /\ m = segCache[h] /\ fresh = FALSE
       /\ UNCHANGED <<cache, faults>>
    \/ /\ segCache[h] = NoMatch
       /\ pg[h] # NoRow
       /\ m = Exact(h) /\ fresh = FALSE
       /\ ReadThrough({h})
       /\ UNCHANGED faults
    \/ /\ segCache[h] = NoMatch
       /\ \E b \in BOOLEAN :
            /\ \/ pg[h] = NoRow /\ b = Blurred(h, t) /\ UNCHANGED faults
               \/ cache[h] = NoRow /\ b = TRUE /\ Fault
            /\ \E S \in SegmentsFound(h, t, b) :
                 /\ m \in Top(h, S, b)
                 /\ fresh = (S # {})
                 /\ ReadThrough(S)

\* The searches of content h are not exact.
Blur(h, t) == blurred' = IF Blurred(h, t) THEN blurred \cup {h} ELSE blurred

CheckSegments(w) ==
    /\ job[w].at = "check"
    /\ CheckOf(job[w]) = "segments"
    /\ \E m \in Match \cup {NoMatch}, fresh \in BOOLEAN :
         /\ Segments(job[w].hash, PointType(TypeOf(job[w])), m, fresh)
         /\ IF fresh
            THEN Set(w, [job[w] EXCEPT !.at = "remember", !.match = m])
            ELSE Adopt(w, m, "postgres")
    /\ recalled' = IF segCache[job[w].hash] = NoMatch THEN recalled
                   ELSE recalled \cup {job[w].hash}
    /\ Blur(job[w].hash, PointType(TypeOf(job[w])))
    /\ UNCHANGED <<pg, segCache, index, delivered, done, overlap>>

\* Redis does not answer: neither cache is read or written.
CheckWithoutRedis(w) ==
    /\ job[w].at = "check"
    /\ Fault
    /\ LET h == job[w].hash
           t == PointType(TypeOf(job[w]))
       IN  \/ /\ CheckOf(job[w]) = "fuzzy"
              /\ \E S \in FuzzyFound(h) : \E m \in Top(h, S, FALSE) : Adopt(w, m, "postgres")
              /\ UNCHANGED blurred
           \/ /\ CheckOf(job[w]) = "segments" /\ pg[h] # NoRow
              /\ Adopt(w, Exact(h), "postgres")
              /\ UNCHANGED blurred
           \/ /\ CheckOf(job[w]) = "segments" /\ pg[h] = NoRow
              /\ \E S \in SegmentsFound(h, t, Blurred(h, t)) :
                   \E m \in Top(h, S, Blurred(h, t)) : Adopt(w, m, "postgres")
              /\ Blur(h, t)
    /\ UNCHANGED <<stores, delivered, done, overlap, recalled>>

\* Postgres or Qdrant does not answer VerifyFuzzy: matches that cannot be looked
\* up are passed over, and an error is discarded.
CheckFails(w) ==
    /\ job[w].at = "check"
    /\ CheckOf(job[w]) = "fuzzy"
    /\ Fault
    /\ \E S \in SUBSET Like(job[w].hash, SignatureTypes) :
         /\ \E m \in Top(job[w].hash, S, FALSE) : Adopt(w, m, "postgres")
         /\ ReadThrough(S)
    /\ UNCHANGED <<pg, segCache, index, delivered, done, overlap, recalled, blurred>>

\* SaveSegmentCache: called with the answer just computed, failures ignored.
SaveSegmentCache(p) ==
    /\ job[p].at = "remember"
    /\ \/ /\ segCache' = [segCache EXCEPT ![job[p].hash] = job[p].match]
          /\ UNCHANGED faults
       \/ Fault /\ UNCHANGED segCache
    /\ IF p \in Workers THEN Adopt(p, job[p].match, "postgres") ELSE End(p)
    /\ UNCHANGED <<pg, cache, index, delivered, done, overlap, recalled, blurred>>

\* The record Register builds from the event, the metadata and the check.
Record(w) == [parent |-> job[w].parent, full |-> job[w].full]

\* Mutants: ON CONFLICT DO UPDATE; the column parent_sha256 is left out.
Upsert(h, row) == pg' = [pg EXCEPT ![h] = row]
InsertOrphan(h, row) ==
    pg' = [pg EXCEPT ![h] = IF @ = NoRow THEN [row EXCEPT !.parent = NoHash] ELSE @]

\* INSERT ... ON CONFLICT DO NOTHING.
Insert(h, row) == pg' = [pg EXCEPT ![h] = IF @ = NoRow THEN row ELSE @]

\* Mutant: a failed insert is only logged.
SavePostgresOrNot(w) ==
    /\ Step(w, "postgres", "cache")
    /\ \/ Insert(job[w].hash, Record(w)) /\ UNCHANGED faults
       \/ UNCHANGED pg /\ Fault
    /\ UNCHANGED <<cache, segCache, index, delivered, done, overlap, recalled, blurred>>

SavePostgres(w) ==
    /\ Step(w, "postgres", "cache")
    /\ Insert(job[w].hash, Record(w))
    /\ UNCHANGED <<cache, segCache, index, delivered, done, overlap, recalled, blurred, faults>>

\* SaveCache writes the record at hand, not the row; a failure is only logged.
SaveCache(w) ==
    /\ Step(w, "cache", "vectors")
    /\ \/ /\ cache' = [cache EXCEPT ![job[w].hash] = Record(w)]
          /\ UNCHANGED faults
       \/ Fault /\ UNCHANGED cache
    /\ UNCHANGED <<pg, segCache, index, delivered, done, overlap, recalled, blurred>>

AddPoints(h, t) == index' = [index EXCEPT ![h][t] = @ + 1]

\* Mutant: every point is typed "image".
SaveVectorsAsImage(w) ==
    /\ TypeOf(job[w]) # "text"
    /\ Step(w, "vectors", "semantic")
    /\ AddPoints(job[w].hash, "image")
    /\ UNCHANGED <<pg, cache, segCache, delivered, done, overlap, recalled, blurred, faults>>

\* SaveVectors: the points of the content; text has none in this collection.
SaveVectors(w) ==
    /\ TypeOf(job[w]) # "text"
    /\ Step(w, "vectors", "semantic")
    /\ AddPoints(job[w].hash, IndexedAs(job[w]))
    /\ UNCHANGED <<pg, cache, segCache, delivered, done, overlap, recalled, blurred, faults>>

\* SaveSemanticVectors, the last store whose failure Register reports.
SaveSemanticVectors(w) ==
    /\ job[w].at = "semantic"
    /\ AddPoints(job[w].hash, "semantic")
    /\ done' = done \cup {job[w].hash}
    /\ End(w)
    /\ UNCHANGED <<pg, cache, segCache, delivered, overlap, recalled, blurred, faults>>

\* SaveTextVectors: a failure is logged and Register succeeds all the same.
SaveTextVectors(w) ==
    /\ job[w].at = "vectors"
    /\ TypeOf(job[w]) = "text"
    /\ \/ AddPoints(job[w].hash, "text") /\ UNCHANGED faults
       \/ Fault /\ UNCHANGED index
    /\ done' = done \cup {job[w].hash}
    /\ End(w)
    /\ UNCHANGED <<pg, cache, segCache, delivered, overlap, recalled, blurred>>

\* Postgres or Qdrant does not take the write: Register returns the error and
\* the worker drops the event; what was written before stays.
RegisterFails(w) ==
    /\ \/ job[w].at \in {"postgres", "semantic"}
       \/ job[w].at = "vectors" /\ TypeOf(job[w]) # "text"
    /\ Fault
    /\ End(w)
    /\ UNCHANGED <<stores, delivered, done, overlap, recalled, blurred>>

-----------------------------------------------------------------------------
(* HTTP requests                                                           *)

\* VerifyExact misses (or cannot reach) the cache and finds the row.
LookUp(r, h) ==
    /\ job[r].at = "idle"
    /\ pg[h] # NoRow
    /\ IF cache[h] = NoRow THEN UNCHANGED faults ELSE Fault
    /\ Set(r, [IdleJob EXCEPT !.at = "fill", !.hash = h])
    /\ UNCHANGED <<stores, delivered, done, overlap, recalled, blurred>>

\* It then writes the row to the cache; a row never changes once inserted.
FillCache(r) ==
    /\ job[r].at = "fill"
    /\ \/ /\ cache' = [cache EXCEPT ![job[r].hash] = pg[job[r].hash]]
          /\ UNCHANGED faults
       \/ Fault /\ UNCHANGED cache
    /\ End(r)
    /\ UNCHANGED <<pg, segCache, index, delivered, done, overlap, recalled, blurred>>

\* VerifySegments for a content, which need not be registered yet.
QuerySegments(r, h) ==
    /\ job[r].at = "idle"
    /\ MediaType[h] \in Segmented
    /\ \E m \in Match \cup {NoMatch}, fresh \in BOOLEAN :
         /\ Segments(h, PointType(MediaType[h]), m, fresh)
         /\ IF fresh
            THEN Set(r, [IdleJob EXCEPT !.at = "remember", !.hash = h, !.match = m])
            ELSE UNCHANGED job
    /\ UNCHANGED <<pg, segCache, index, delivered, done, overlap, recalled, blurred>>

Stored == {h \in Hash : pg[h] # NoRow}

\* Mutant: the columns of the join are swapped.
ChildrenSwapped(S) == {pg[c].parent : c \in S} \cap Stored

ChildrenOf(S) == {c \in Stored : pg[c].parent \in S}
ParentsOf(S) == {pg[c].parent : c \in S} \cap Stored

\* What a recursive query returns that starts with some rows and joins the next.
Closure(First, Join) ==
    LET rows[n \in 0..Cardinality(Hash)] ==
            IF n = 0 THEN First ELSE rows[n - 1] \cup Join[rows[n - 1]]
    IN  rows[Cardinality(Hash)]

\* GetLineage climbs from h to the oldest stored ancestor...
Upstream(h) == Closure({h} \cap Stored, [S \in SUBSET Stored |-> ParentsOf(S)])

\* ... unless it goes round in a cycle, and then never returns; ...
Ends(h) == \E c \in Upstream(h) : pg[c].parent \notin Stored

\* ... and down from it, if it has no parent itself, to all its descendants.
GetLineage(h) ==
    Closure({c \in Upstream(h) : pg[c].parent = NoHash}, [S \in SUBSET Stored |-> ChildrenOf(S)])

-----------------------------------------------------------------------------
(* Environment                                                             *)

\* Mutant: the entry is written without an expiry.
NeverExpire(h) == segCache[h] # NoMatch /\ UNCHANGED vars

\* An hour after it was written, a segment cache entry is gone.
Expire(h) ==
    /\ segCache[h] # NoMatch
    /\ segCache' = [segCache EXCEPT ![h] = NoMatch]
    /\ UNCHANGED <<pg, cache, index, job, delivered, done, overlap, recalled, blurred, faults>>

\* The process dies; the three stores survive.
Crash ==
    /\ Fault
    /\ job' = [p \in Procs |-> IdleJob]
    /\ UNCHANGED <<stores, delivered, done, overlap, recalled, blurred>>

RegisterStep(w) ==
    \/ NoCheck(w) \/ CheckImage(w) \/ CheckSegments(w)
    \/ CheckWithoutRedis(w) \/ CheckFails(w)
    \/ SaveSegmentCache(w)
    \/ SavePostgres(w)
    \/ SaveCache(w)
    \/ SaveVectors(w) \/ SaveSemanticVectors(w) \/ SaveTextVectors(w)
    \/ RegisterFails(w)

RequestStep(r) == FillCache(r) \/ SaveSegmentCache(r)

Next ==
    \/ \E w \in Workers : RegisterStep(w) \/ \E h \in Hash : Begin(w, h)
    \/ \E r \in Clients : RequestStep(r)
                          \/ \E h \in Hash : LookUp(r, h) \/ QuerySegments(r, h)
    \/ \E h \in Hash : Expire(h)
    \/ Crash

Spec == Init /\ [][Next]_vars

\* Calls return, entries expire.  New events and new requests are not assumed.
FairSpec ==
    /\ Spec
    /\ \A w \in Workers : WF_vars(RegisterStep(w))
    /\ \A r \in Clients : WF_vars(RequestStep(r))
    /\ \A h \in Hash : WF_vars(Expire(h))
-----------------------------------------------------------------------------
(* Properties                                                              *)

Job == [at : {"check", "remember", "postgres", "cache", "vectors", "semantic", "fill"},
        hash : Hash, full : BOOLEAN, match : Match \cup {NoMatch}, parent : Hash \cup {NoHash}]

\* Type invariant of the three stores and of the calls in progress.
TypeOK ==
    /\ pg \in [Hash -> Row \cup {NoRow}]
    /\ cache \in [Hash -> Row \cup {NoRow}]
    /\ segCache \in [Hash -> Match \cup {NoMatch}]
    /\ index \in [Hash -> [IndexTypes -> Nat]]
    /\ job \in [Procs -> {IdleJob} \cup Job]
    /\ delivered \in [Hash -> Nat]
    /\ done \subseteq Hash
    /\ overlap \subseteq SUBSET Hash
    /\ recalled \subseteq Hash
    /\ blurred \subseteq Hash
    /\ faults \in 0..MaxFaults

\* Nothing names a content that Postgres does not hold: not the record cache,
\* not a point of Qdrant, not a remembered answer, not a finished Register.
\* VerifyFuzzy and VerifySegments look every match up and rely on it.
RowFirst ==
    /\ \A h \in Hash : cache[h] # NoRow => pg[h] # NoRow
    /\ \A h \in Hash, t \in IndexTypes : index[h][t] > 0 => pg[h] # NoRow
    /\ \A h \in Hash : segCache[h] # NoMatch => pg[segCache[h].top] # NoRow
    /\ \A h \in done : pg[h] # NoRow

\* A row is inserted once and never changes, whatever is delivered again; and
\* when it is inserted with a parent its metadata does not name, the parent's
\* row is already there (SavePostgres after the check of Register).
ParentStoredFirst ==
    [][\A h \in Hash : pg'[h] # pg[h] =>
          /\ pg[h] = NoRow
          /\ \/ pg'[h].parent \in {NoHash, Declared[h]}
             \/ pg[pg'[h].parent] # NoRow]_vars

\* Parents that Register finds by its check never close a cycle in the stored
\* lineage, on which the recursive query of GetLineage would not end: a set of
\* rows whose parents are all in the set has a row with a declared parent.
CycleOnlyIfDeclared ==
    \A S \in SUBSET Stored :
        S # {} /\ (\A h \in S : pg[h].parent \in S)
        => \E h \in S : pg[h].parent = Declared[h]

\* GetLineage gives a content and its parent the same answer, with both in it;
\* it answers nothing for a registered content only when an ancestor declares
\* a parent that is not registered.
FamilyComplete ==
    \A h \in {g \in Stored : Ends(g)} :
        /\ GetLineage(h) # {} => h \in GetLineage(h)
        /\ pg[h].parent \in Stored => GetLineage(h) = GetLineage(pg[h].parent)
        /\ GetLineage(h) = {} =>
             \E c \in Upstream(h) : pg[c].parent = Declared[c] /\ Declared[c] \notin Stored

\* The record cache answers with the row of Postgres as long as the event
\* was delivered once: Register writes the same record to both, and the
\* read-through of VerifyExact cannot put back anything older.
CacheCoherent ==
    \A h \in Hash : delivered[h] <= 1 => cache[h] \in {NoRow, pg[h]}

\* Each delivery indexes a content at most once under a point type and once
\* semantically; the random point ids make every further one a duplicate
\* that CountSegments counts.  Without a fault a finished content with
\* segments has exactly one set of points of the type VerifySegments searches.
IndexedOncePerDelivery ==
    \A h \in Hash :
        /\ \A t \in IndexTypes : index[h][t] <= delivered[h]
        /\ faults = MaxFaults /\ h \in done \cap Split
             => index[h][PointType(MediaType[h])] = 1

Checked(h) ==
    /\ h \in done
    /\ MediaType[h] \in (IF h \in Split THEN Segmented \cup {"image"} ELSE {"image"})

\* Two registered contents of one media type that are similar enough are
\* linked (one of the two has a parent) unless the two registrations
\* overlapped, in which case neither saw the points of the other, or the check
\* of one was answered from the segment cache, which may be an hour old, or
\* counted points of which a query returns only the first five (service.go:678);
\* the closest point of VerifyFuzzy is always among those returned.
UnlinkedOnlyIfConcurrent ==
    faults = MaxFaults =>
        \A g, h \in Hash :
            /\ g # h /\ Checked(g) /\ Checked(h) /\ MediaType[g] = MediaType[h]
            /\ Sim[g, h] >= ParentFloor /\ Sim[h, g] >= ParentFloor
            /\ {g, h} \notin overlap
            /\ {g, h} \cap (recalled \cup blurred) = {}
            => pg[g].parent # NoHash \/ pg[h].parent # NoHash

\* Once a content is registered its exact match prevails in the end: the
\* remembered answers expire and VerifySegments stores no new ones for it.
EventuallyExact ==
    \A h \in Hash : (pg[h] # NoRow) ~> [](segCache[h] = NoMatch)

\* README.md:360: a cache or database hit on the SHA-256 "resolves
\* immediately" as an exact match; VerifySegments reads its segment cache,
\* which holds inexact answers only, before it looks the hash up.
ExactMatchFirst ==
    \A h \in Hash : pg[h] # NoRow => segCache[h] = NoMatch
=============================================================================
