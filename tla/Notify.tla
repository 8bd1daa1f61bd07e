------------------------------- MODULE Notify -------------------------------
(***************************************************************************)
(* Who hears of what: the webhooks that service.VerifyExact, VerifyFuzzy,  *)
(* VerifySegments and Register (internal/content) dispatch, and the        *)
(* dispatcher (internal/webhook), which makes one attempt per notice in a  *)
(* goroutine of its own.  Whether a notice is sent depends on the record   *)
(* at hand: one that was registered without its metadata names no address, *)
(* in the row or in a copy of it.  Declared parents tell nobody and are    *)
(* left out; module Registry has the rest of the stores.  Images and       *)
(* videos only: documents and texts go the way of videos.                  *)
(***************************************************************************)
EXTENDS Naturals, FiniteSets, Functions

CONSTANTS
    Hash,       \* contents registered on the chain
    NoHash,     \* no content: no parent, no match
    Creator,    \* creator_address of each content
    Webhook,    \* contents whose metadata names an address for notices
    Video,      \* contents with segments, checked by VerifySegments
    Keyframes,  \* segments of each video
    Sim,        \* similarity of two contents in percent, 0 if no match at all
    Limit,      \* points one query returns: 5
    Workers,    \* the pipeline's workers
    Clients,    \* HTTP requests served at the same time
    MaxFaults   \* bound on failed calls, redeliveries and crashes

Absent == "absent"

ASSUME NotifyAssumption ==
    /\ IsFiniteSet(Hash)
    /\ Hash \cap {NoHash, Absent} = {}
    /\ Webhook \subseteq Hash
    /\ Video \subseteq Hash
    /\ Keyframes \in [Video -> Nat \ {0}]
    /\ Sim \in [Hash \X Hash -> 0..100]
    /\ \A h \in Hash : Sim[h, h] = 100
    /\ Limit \in Nat \ {0}
    /\ Workers \cap Clients = {}
    /\ MaxFaults \in Nat

\* From this similarity on a match is reported as a derivative, and becomes the
\* parent of what is registered.
Floor == 80

Procs == Workers \cup Clients

\* A notice to the creator of content "to"; "about" is the content verified or
\* registered, and is not named in the payload of an exact match.
Events == {"match", "derivative", "plagiarism"}
Notice(event, to, about) == [event |-> event, to |-> to, about |-> about]

VARIABLES
    rows,       \* content_records: the parent found for each content, or Absent
    named,      \* contents whose row names an address for notices
    cache,      \* record cache, which never expires: does the copy name one?
    frames,     \* points of type keyframe of each content
    images,     \* points of type image of each content
    remembered, \* segment cache: top match of the last answer, or NoMatch
    job,        \* what each worker and each request is doing
    delivered,  \* how often each content's event was delivered
    degraded,   \* history: contents processed without their metadata
    outbox,     \* notices whose goroutine has not ended
    received,   \* history: notices of plagiarism that were accepted
    sent,       \* history: notices of derivatives and plagiarism dispatched
    faults      \* how many more faults may happen

points == <<frames, images>>
stores == <<rows, named, cache, points, remembered>>
events == <<delivered, degraded>>
notices == <<outbox, received, sent>>
vars == <<stores, job, events, notices, faults>>

\* A match: the content, whether its record names an address, and whether it is
\* similar enough to be reported.
Match == [top : Hash, hook : BOOLEAN, close : BOOLEAN]
NoMatch == [top |-> NoHash, hook |-> FALSE, close |-> FALSE]

\* full: the metadata or the segments are at hand; todo: the points found that
\* are still to be looked up, by content; found: their records; blur: the search
\* saw only some of the points, or some twice; told: exact matches reported.
None == [h \in Hash |-> 0]
Idle == [at |-> "idle", hash |-> NoHash, full |-> FALSE, todo |-> None, found |-> {},
         blur |-> FALSE, match |-> NoMatch, told |-> None]

Fault == faults > 0 /\ faults' = faults - 1

Init ==
    /\ rows = [h \in Hash |-> Absent]
    /\ named = {}
    /\ cache = [h \in Hash |-> "empty"]
    /\ frames = None
    /\ images = None
    /\ remembered = [h \in Hash |-> NoMatch]
    /\ job = [p \in Procs |-> Idle]
    /\ delivered = None
    /\ degraded = {}
    /\ outbox = {}
    /\ received = {}
    /\ sent = {}
    /\ faults = MaxFaults

Set(p, j) == job' = [job EXCEPT ![p] = j]
End(p) == Set(p, Idle)

\* Mutant: one notice at a time.
DispatchLatest(n, hook) ==
    /\ outbox' = IF hook THEN {n} ELSE outbox
    /\ sent' = IF hook /\ n.event # "match" THEN sent \cup {n} ELSE sent
    /\ UNCHANGED received

\* Dispatch, if the record at hand names an address; otherwise nothing happens.
Dispatch(n, hook) ==
    /\ outbox' = IF hook THEN outbox \cup {n} ELSE outbox
    /\ sent' = IF hook /\ n.event # "match" THEN sent \cup {n} ELSE sent
    /\ UNCHANGED received

-----------------------------------------------------------------------------
(* VerifyExact, VerifyFuzzy and VerifySegments                             *)

\* VerifySegments checks what comes with segments.
Segmented(j) == j.full /\ j.hash \in Video

\* A client asks for an exact match, or for similar contents.
Verify(c, h) ==
    /\ job[c].at = "idle"
    /\ \/ Set(c, [Idle EXCEPT !.at = "exact", !.hash = h])
       \/ Set(c, [Idle EXCEPT !.at = IF h \in Video THEN "recall" ELSE "search",
                              !.hash = h, !.full = TRUE])
    /\ UNCHANGED <<stores, events, notices, faults>>

\* The answer of a check: a client has it, a worker goes on with Register.
Answer(p, m) ==
    IF p \in Clients THEN End(p)
    ELSE Set(p, [Idle EXCEPT !.at = "adopt", !.hash = job[p].hash, !.full = job[p].full,
                             !.match = m])

\* VerifySegments answers from the segment cache, and tells nobody.
Recall(p) ==
    /\ job[p].at = "recall"
    /\ \/ /\ remembered[job[p].hash] # NoMatch
          /\ Answer(p, remembered[job[p].hash])
       \/ /\ remembered[job[p].hash] = NoMatch
          /\ Set(p, [job[p] EXCEPT !.at = "exact"])
    /\ UNCHANGED <<stores, events, notices, faults>>

Entry(hook) == IF hook THEN "named" ELSE "bare"

\* VerifyExact finds a record, in the cache or else as a row, which is copied to
\* the cache unless Redis fails.
Record(c, hook) ==
    /\ rows[c] # Absent
    /\ \/ cache[c] # "empty" /\ hook = (cache[c] = "named") /\ UNCHANGED <<cache, faults>>
       \/ /\ hook = (c \in named)
          /\ \/ cache[c] = "empty" /\ cache' = [cache EXCEPT ![c] = Entry(hook)] /\ UNCHANGED faults
             \/ Fault /\ UNCHANGED cache

\* It finds nothing, or fails.
NoRecord(c) ==
    /\ \/ rows[c] = Absent /\ UNCHANGED faults
       \/ rows[c] # Absent /\ Fault
    /\ UNCHANGED cache

\* An exact match is reported to the creator of the record.
LookUp(p) ==
    /\ job[p].at = "exact"
    /\ LET h == job[p].hash
       IN  \E hook \in BOOLEAN :
             /\ Record(h, hook)
             /\ Dispatch(Notice("match", h, NoHash), hook)
             /\ Answer(p, [top |-> h, hook |-> hook, close |-> TRUE])
    /\ UNCHANGED <<rows, named, points, remembered, events>>

\* Without one VerifySegments goes on to search.
LookUpMisses(p) ==
    /\ job[p].at = "exact"
    /\ NoRecord(job[p].hash)
    /\ IF Segmented(job[p]) THEN Set(p, [job[p] EXCEPT !.at = "search"]) ELSE End(p)
    /\ UNCHANGED <<rows, named, points, remembered, events, notices>>

PointsOf(c) == frames[c] + images[c]

\* VerifyFuzzy: the best points of the collection, whatever their type; a content
\* may be found at several of them.
FuzzyPoints(h) ==
    LET similar == {c \in Hash : Sim[h, c] > 0}
        all == SumFunctionOnSet([c \in Hash |-> PointsOf(c)], similar)
    IN  {n \in [Hash -> 0..Limit] :
           /\ \A c \in Hash : n[c] <= IF c \in similar THEN PointsOf(c) ELSE 0
           /\ SumFunction(n) = IF all < Limit THEN all ELSE Limit
           /\ \A c, d \in Hash : Sim[h, c] > Sim[h, d] /\ n[d] > 0 => n[c] = PointsOf(c)}

Near(h) == {c \in Hash : Sim[h, c] > 0 /\ frames[c] > 0}

Once(S) == [c \in Hash |-> IF c \in S THEN 1 ELSE 0]

\* Mutant: a video is looked up once per keyframe that matched.
SegmentPointsEach(h, b) ==
    {[c \in Hash |-> IF c \in Near(h) THEN frames[c] ELSE 0]}

\* More keyframes are close to the uploaded ones than a query returns.
Crowded(h) == SumFunctionOnSet(frames, Near(h)) > Limit

\* Scores count points: they are off if some are not returned, or are there twice.
Blurred(h) == Crowded(h) \/ \E c \in Near(h) : frames[c] > Keyframes[c]

\* VerifySegments: the set of videos with a keyframe close to one uploaded.
SegmentPoints(h, b) == {Once(S) : S \in IF b THEN SUBSET Near(h) ELSE {Near(h)}}

\* The search; if it is one of several and Qdrant fails, that is only logged.
Search(p) ==
    /\ job[p].at = "search"
    /\ LET j == job[p]
           b == Segmented(j) /\ Blurred(j.hash)
       IN  \E n \in IF Segmented(j) THEN SegmentPoints(j.hash, Crowded(j.hash))
                    ELSE FuzzyPoints(j.hash) :
             Set(p, [j EXCEPT !.at = "candidates", !.todo = n, !.blur = b])
    /\ UNCHANGED <<stores, events, notices, faults>>

SearchFails(p) ==
    /\ job[p].at = "search"
    /\ Fault
    /\ \/ /\ Segmented(job[p])
          /\ \E n \in SegmentPoints(job[p].hash, TRUE) :
               Set(p, [job[p] EXCEPT !.at = "candidates", !.todo = n, !.blur = TRUE])
       \/ ~Segmented(job[p]) /\ Answer(p, NoMatch)
    /\ UNCHANGED <<stores, events, notices>>

\* Each point found leads to its parent by way of VerifyExact, which reports an
\* exact match of the parent.  A parent that cannot be read is passed over.
Candidate(p, c) ==
    /\ job[p].at = "candidates"
    /\ job[p].todo[c] > 0
    /\ \/ \E hook \in BOOLEAN :
            /\ Record(c, hook)
            /\ Set(p, [job[p] EXCEPT !.todo[c] = @ - 1, !.told[c] = @ + 1,
                                     !.found = @ \cup {[top |-> c, hook |-> hook]}])
            /\ Dispatch(Notice("match", c, NoHash), hook)
       \/ /\ NoRecord(c)
          /\ Set(p, [job[p] EXCEPT !.todo[c] = @ - 1])
          /\ UNCHANGED notices
    /\ UNCHANGED <<rows, named, points, remembered, events>>

\* The most similar ones of the records found, as far as the scores tell; the
\* sort is not stable.
Matches(j) ==
    LET best == {f \in j.found :
                   j.blur \/ \A g \in j.found : Sim[j.hash, g.top] <= Sim[j.hash, f.top]}
    IN  IF j.found = {} THEN {NoMatch}
        ELSE {m \in Match :
                /\ [top |-> m.top, hook |-> m.hook] \in best
                /\ j.blur \/ m.close = (Sim[j.hash, m.top] >= Floor)}

\* Mutant: the answer is remembered first, and its creator told after.
ConcludeUntold(p) ==
    /\ job[p].at = "candidates"
    /\ job[p].todo = None
    /\ \E m \in Matches(job[p]) :
         IF m = NoMatch \/ ~Segmented(job[p]) THEN Answer(p, m)
         ELSE Set(p, [job[p] EXCEPT !.at = "remember", !.match = m])
    /\ UNCHANGED <<stores, events, notices, faults>>

\* All candidates are judged.  VerifySegments reports a derivative to the
\* creator of the best one: the comparison of that creator's address with the
\* content's hash never excludes anybody.
Conclude(p) ==
    /\ job[p].at = "candidates"
    /\ job[p].todo = None
    /\ \E m \in Matches(job[p]) :
         IF m = NoMatch \/ ~Segmented(job[p]) THEN Answer(p, m) /\ UNCHANGED notices
         ELSE /\ Set(p, [job[p] EXCEPT !.at = "remember", !.match = m])
              /\ Dispatch(Notice("derivative", m.top, job[p].hash), m.hook /\ m.close)
    /\ UNCHANGED <<stores, events, faults>>

\* SaveSegmentCache, whose failure is ignored.
Remember(p) ==
    /\ job[p].at = "remember"
    /\ \/ remembered' = [remembered EXCEPT ![job[p].hash] = job[p].match] /\ UNCHANGED faults
       \/ Fault /\ UNCHANGED remembered
    /\ Answer(p, job[p].match)
    /\ UNCHANGED <<rows, named, cache, points, events, notices>>

\* Redis drops an entry after an hour.
Expire(h) ==
    /\ remembered[h] # NoMatch
    /\ remembered' = [remembered EXCEPT ![h] = NoMatch]
    /\ UNCHANGED <<rows, named, cache, points, job, events, notices, faults>>

-----------------------------------------------------------------------------
(* Register                                                                *)

\* A worker takes an event; it comes again only after a fault.  Without its
\* metadata, also after a fault, a video is taken for an image without address.
Begin(w, h) ==
    /\ job[w].at = "idle"
    /\ \E full \in BOOLEAN :
         /\ IF full /\ delivered[h] = 0 THEN UNCHANGED faults ELSE Fault
         /\ degraded' = IF full THEN degraded ELSE degraded \cup {h}
         /\ Set(w, [Idle EXCEPT !.at = IF full /\ h \in Video THEN "recall" ELSE "search",
                                !.hash = h, !.full = full])
    /\ delivered' = [delivered EXCEPT ![h] = @ + 1]
    /\ UNCHANGED <<stores, notices>>

Adopted(m) == IF m.close THEN m ELSE NoMatch

Foreign(h, m) == m.top # NoHash /\ Creator[m.top] # Creator[h]

\* The match becomes the parent; the creator of another's content is told.
Adopt(w) ==
    /\ job[w].at = "adopt"
    /\ LET m == Adopted(job[w].match)
           h == job[w].hash
       IN  /\ Set(w, [job[w] EXCEPT !.at = "save", !.match = m])
           /\ Dispatch(Notice("plagiarism", m.top, h), m.hook /\ Foreign(h, m))
    /\ UNCHANGED <<stores, events, faults>>

\* The record of a content, with the address the metadata name.
Names(j) == j.full /\ j.hash \in Webhook

\* SavePostgres: ON CONFLICT DO NOTHING.
Save(w) ==
    /\ job[w].at = "save"
    /\ LET j == job[w]
       IN  /\ rows' = [rows EXCEPT ![j.hash] = IF @ = Absent THEN j.match.top ELSE @]
           /\ named' = IF rows[j.hash] = Absent /\ Names(j) THEN named \cup {j.hash} ELSE named
           /\ Set(w, [j EXCEPT !.at = "cache"])
    /\ UNCHANGED <<cache, points, remembered, events, notices, faults>>

\* Mutant: the address is not part of the copy.
SaveCacheBare(w) ==
    /\ job[w].at = "cache"
    /\ Set(w, [job[w] EXCEPT !.at = "index"])
    /\ cache' = [cache EXCEPT ![job[w].hash] = "bare"]
    /\ UNCHANGED <<rows, named, points, remembered, events, notices, faults>>

\* SaveCache overwrites what is there, whatever the row says.
SaveCache(w) ==
    /\ job[w].at = "cache"
    /\ Set(w, [job[w] EXCEPT !.at = "index"])
    /\ \/ cache' = [cache EXCEPT ![job[w].hash] = Entry(Names(job[w]))] /\ UNCHANGED faults
       \/ Fault /\ UNCHANGED cache
    /\ UNCHANGED <<rows, named, points, remembered, events, notices>>

Index(w) ==
    /\ job[w].at = "index"
    /\ LET h == job[w].hash
       IN  IF Segmented(job[w])
           THEN frames' = [frames EXCEPT ![h] = @ + Keyframes[h]] /\ UNCHANGED images
           ELSE images' = [images EXCEPT ![h] = @ + 1] /\ UNCHANGED frames
    /\ End(w)
    /\ UNCHANGED <<rows, named, cache, remembered, events, notices, faults>>

\* Postgres or Qdrant does not take the write: the event is dropped.
RegisterFails(w) ==
    /\ job[w].at \in {"save", "index"}
    /\ Fault
    /\ End(w)
    /\ UNCHANGED <<stores, events, notices>>

-----------------------------------------------------------------------------
(* The dispatcher                                                          *)

\* One attempt, accepted within ten seconds.
Deliver(n) ==
    /\ n \in outbox
    /\ outbox' = outbox \ {n}
    /\ received' = IF n.event = "plagiarism" THEN received \cup {n} ELSE received
    /\ UNCHANGED <<stores, job, events, sent, faults>>

\* No answer, or another status: it is logged, and there is no other attempt.
DeliverFails(n) ==
    /\ n \in outbox
    /\ Fault
    /\ outbox' = outbox \ {n}
    /\ UNCHANGED <<stores, job, events, received, sent>>

\* The process dies, with its goroutines.
Crash ==
    /\ Fault
    /\ job' = [p \in Procs |-> Idle]
    /\ outbox' = {}
    /\ UNCHANGED <<stores, events, received, sent>>

CheckStep(p) ==
    \/ Recall(p) \/ LookUp(p) \/ LookUpMisses(p) \/ Search(p) \/ SearchFails(p)
    \/ \E c \in Hash : Candidate(p, c)
    \/ Conclude(p) \/ Remember(p)

RegisterStep(w) ==
    CheckStep(w) \/ Adopt(w) \/ Save(w) \/ SaveCache(w) \/ Index(w) \/ RegisterFails(w)

Next ==
    \/ \E w \in Workers : RegisterStep(w) \/ \E h \in Hash : Begin(w, h)
    \/ \E c \in Clients : CheckStep(c) \/ \E h \in Hash : Verify(c, h)
    \/ \E h \in Hash : Expire(h)
    \/ \E n \in outbox : Deliver(n) \/ DeliverFails(n)
    \/ Crash

Spec == Init /\ [][Next]_vars

-----------------------------------------------------------------------------
(* Properties                                                              *)

NoticeSet == [event : Events, to : Hash, about : Hash \cup {NoHash}]

Job == [at : {"recall", "exact", "search", "candidates", "remember", "adopt", "save",
              "cache", "index"},
        hash : Hash, full : BOOLEAN, todo : [Hash -> Nat], told : [Hash -> Nat],
        found : SUBSET [top : Hash, hook : BOOLEAN], blur : BOOLEAN, match : Match \cup {NoMatch}]

\* Type invariant of the stores, of the checks in progress and of the notices.
TypeOK ==
    /\ rows \in [Hash -> Hash \cup {NoHash, Absent}]
    /\ named \subseteq Webhook
    /\ cache \in [Hash -> {"empty", "bare", "named"}]
    /\ frames \in [Hash -> Nat]
    /\ images \in [Hash -> Nat]
    /\ remembered \in [Hash -> Match \cup {NoMatch}]
    /\ job \in [Procs -> {Idle} \cup Job]
    /\ delivered \in [Hash -> Nat]
    /\ degraded \subseteq Hash
    /\ outbox \subseteq NoticeSet
    /\ received \subseteq NoticeSet
    /\ sent \subseteq NoticeSet
    /\ faults \in 0..MaxFaults

\* Contents that were always processed with their metadata, which name an address.
Reachable == Webhook \ degraded

\* No content is stored with a parent of another creator that a check found
\* without that creator having been told first, whatever fails in between; unless
\* the parent itself was once processed without its metadata, when its record or
\* the copy of it that the check found may name no address (service.go:181).
LinkedIsAlerted ==
    \A h \in Hash, p \in Reachable :
        rows[h] = p /\ Creator[h] # Creator[p] => Notice("plagiarism", p, h) \in sent

\* While an answer of VerifySegments is remembered nobody is told of it again;
\* so it is not remembered before the creator of the match has been told, with
\* the same exception (service.go:1010).
RememberedIsReported ==
    \A h \in Hash, p \in Reachable :
        remembered[h].top = p /\ remembered[h].close => Notice("derivative", p, h) \in sent

\* The exact matches one request reports: VerifySegments one per video found,
\* VerifyFuzzy one per point found, whatever the points' content, but no more
\* than the search returns.
MatchesPerRequest ==
    \A p \in Procs :
        LET j == job[p]
        IN  IF Segmented(j) THEN \A c \in Hash : j.told[c] + j.todo[c] <= 1
            ELSE SumFunction(j.told) + SumFunction(j.todo) <= Limit

\* The creator of a content that was plagiarised has been told, or is being
\* told: the goroutine of a notice outlives the request, and nothing but a
\* failed attempt or the end of the process keeps it from its only attempt.
AlertUnderWayUnlessFault ==
    \A h \in Hash, p \in Reachable :
        rows[h] = p /\ Creator[h] # Creator[p]
            => Notice("plagiarism", p, h) \in outbox \cup received \/ faults < MaxFaults
=============================================================================
