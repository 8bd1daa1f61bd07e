---------------------------- MODULE Notify_proofs ----------------------------
(***************************************************************************)
(* Proofs about Notify, for any contents, creators and similarities, any   *)
(* number of workers and requests, and any number of faults: a creator is  *)
(* told before the stores remember what he is told of.                     *)
(***************************************************************************)
EXTENDS Notify, Sums, TLAPS

LEMMA Bounds ==
    /\ MaxFaults \in Nat /\ Limit \in Nat
    /\ Webhook \subseteq Hash /\ Hash \cap {NoHash, Absent} = {}
    /\ Video \subseteq Hash /\ Keyframes \in [Video -> Nat]
<1>1. /\ MaxFaults \in Nat /\ Limit \in Nat \ {0}
      /\ Webhook \subseteq Hash /\ Hash \cap {NoHash, Absent} = {}
      /\ Video \subseteq Hash /\ Keyframes \in [Video -> Nat \ {0}]
  BY NotifyAssumption, Zenon
<1> QED  BY <1>1

LEMMA NoneType == None \in [Hash -> Nat]
  BY DEF None

\* The answers of checks.
Answers == Match \cup {NoMatch}

\* A call in progress, from its place in the code.
LEMMA BusyJob ==
    ASSUME TypeOK, NEW p \in Procs, job[p].at # "idle"
    PROVE  job[p] \in Job
  BY DEF TypeOK, Idle

LEMMA NewJob ==
    ASSUME NEW h \in Hash, NEW full \in BOOLEAN, NEW m \in Answers,
           NEW at \in {"recall", "exact", "search", "adopt"}
    PROVE  /\ [Idle EXCEPT !.at = at, !.hash = h] \in Job
           /\ [Idle EXCEPT !.at = at, !.hash = h, !.full = full] \in Job
           /\ [Idle EXCEPT !.at = at, !.hash = h, !.full = full, !.match = m] \in Job
<1>1. NoMatch \in Answers
  BY DEF Answers
<1> QED  BY <1>1, NoneType DEF Idle, Job, Answers

LEMMA FaultType ==
    ASSUME TypeOK, Fault \/ UNCHANGED faults
    PROVE  faults' \in 0..MaxFaults /\ faults' <= faults
  BY Bounds DEF TypeOK, Fault

LEMMA DispatchType ==
    ASSUME TypeOK, NEW event \in Events, NEW to \in Hash, NEW about \in Hash \cup {NoHash},
           NEW hook, Dispatch(Notice(event, to, about), hook)
    PROVE  /\ outbox' \subseteq NoticeSet
           /\ received' \subseteq NoticeSet
           /\ sent' \subseteq NoticeSet
  BY DEF TypeOK, Dispatch, Notice, NoticeSet

LEMMA PointsFoundType ==
    ASSUME NEW h \in Hash, NEW b
    PROVE  /\ FuzzyPoints(h) \subseteq [Hash -> Nat]
           /\ SegmentPoints(h, b) \subseteq [Hash -> Nat]
<1>1. FuzzyPoints(h) \subseteq [Hash -> 0..Limit]
  BY Zenon DEF FuzzyPoints
<1>2. \A S : Once(S) \in [Hash -> Nat]
  BY DEF Once
<1>3. SegmentPoints(h, b) \subseteq [Hash -> Nat]
  BY <1>2, Zenon DEF SegmentPoints
<1> QED  BY <1>1, <1>3, Bounds

-----------------------------------------------------------------------------
(* What records and answers say                                            *)

\* A record of a content that was always processed with its metadata names the
\* address, wherever it was found.
Honest(m) == m.top \in Reachable => m.hook

\* What a call is about to write has been told to the creator concerned.
Told(j) ==
    /\ Honest(j.match) /\ \A f \in j.found : Honest(f)
    /\ j.at = "save" /\ j.match.top \in Reachable /\ Creator[j.hash] # Creator[j.match.top]
          => Notice("plagiarism", j.match.top, j.hash) \in sent
    /\ j.at = "remember" /\ j.match.top \in Reachable /\ j.match.close
          => Notice("derivative", j.match.top, j.hash) \in sent

\* A worker that has not got the metadata has left its trace.
Safe(p, j) == Told(j) /\ (p \in Workers /\ j.hash \in Reachable => j.full)

AllSafe == \A p \in Procs : Safe(p, job[p])

\* Rows and copies name the address.
Records ==
    \A c \in Reachable : cache[c] # "bare" /\ (rows[c] # Absent => c \in named)

RememberedHonest == \A h \in Hash : Honest(remembered[h])

Stored ==
    /\ Records
    /\ RememberedHonest
    /\ LinkedIsAlerted
    /\ RememberedIsReported

\* History only grows.
Grows == sent \subseteq sent' /\ degraded \subseteq degraded'

LEMMA DispatchGrows ==
    ASSUME NEW n, NEW hook, Dispatch(n, hook)
    PROVE  sent \subseteq sent'
  BY DEF Dispatch

LEMMA HistoryGrows == [Next]_vars => Grows
<1> SUFFICES ASSUME [Next]_vars PROVE Grows
  OBVIOUS
<1>1. ASSUME NEW p, Conclude(p) PROVE Grows
  BY <1>1, DispatchGrows, Zenon DEF Conclude, Grows, events, notices
<1>2. ASSUME NEW p, LookUp(p) \/ \E c \in Hash : Candidate(p, c) PROVE Grows
  BY <1>2, DispatchGrows DEF LookUp, Candidate, Grows, events, notices
<1>3. ASSUME NEW w, Adopt(w) PROVE Grows
  BY <1>3, DispatchGrows DEF Adopt, Grows, events
<1>4. ASSUME NEW p, Recall(p) \/ LookUpMisses(p) \/ Search(p) \/ SearchFails(p) \/ Remember(p)
      PROVE  UNCHANGED <<events, notices>>
  BY <1>4, Zenon DEF Recall, LookUpMisses, Search, SearchFails, Remember
<1>5. ASSUME NEW w, Save(w) \/ SaveCache(w) \/ Index(w) \/ RegisterFails(w)
      PROVE  UNCHANGED <<events, notices>>
  BY <1>5, Zenon DEF Save, SaveCache, Index, RegisterFails
<1>6. ASSUME NEW w, NEW h, Begin(w, h) PROVE Grows
  BY <1>6 DEF Begin, Grows, notices
<1>7. ASSUME \/ \E c \in Clients, h \in Hash : Verify(c, h)
             \/ \E h \in Hash : Expire(h)
             \/ \E n \in outbox : Deliver(n) \/ DeliverFails(n)
             \/ Crash \/ UNCHANGED vars
      PROVE  Grows
  BY <1>7 DEF Verify, Expire, Deliver, DeliverFails, Crash, events, notices, vars, Grows
<1>8. UNCHANGED <<events, notices>> => Grows
  BY DEF events, notices, Grows
<1> QED
  BY <1>1, <1>2, <1>3, <1>4, <1>5, <1>6, <1>7, <1>8 DEF Next, RegisterStep, CheckStep

LEMMA HonestStays ==
    ASSUME Grows
    PROVE  Reachable' \subseteq Reachable /\ \A m : Honest(m) => Honest(m)'
  BY DEF Grows, Reachable, Honest

LEMMA ToldStays == ASSUME Grows, NEW j, Told(j) PROVE Told(j)'
  BY HonestStays DEF Told, Grows

LEMMA SafeStays == ASSUME Grows, NEW p, NEW j, Safe(p, j) PROVE Safe(p, j)'
  BY HonestStays, ToldStays DEF Safe

LEMMA NoMatchHonest == Honest(NoMatch) /\ Honest(NoMatch)'
  BY Bounds DEF Honest, NoMatch, Reachable

\* A call that has written nothing and found nothing.
LEMMA FreshSafe ==
    ASSUME NEW p, NEW j, j.match = NoMatch, j.found = {}, j.at \notin {"save", "remember"},
           j.hash \in Hash => j.full
    PROVE  Safe(p, j) /\ Safe(p, j)'
  BY NoMatchHonest, Bounds DEF Safe, Told, Reachable

LEMMA IdleSafe == ASSUME NEW p PROVE Safe(p, Idle) /\ Safe(p, Idle)'
<1>1. Idle.match = NoMatch /\ Idle.found = {} /\ Idle.at = "idle" /\ Idle.hash = NoHash
  BY DEF Idle
<1> QED  BY <1>1, FreshSafe, Bounds

-----------------------------------------------------------------------------
(* How one call moves on                                                   *)

\* The call goes on with j, which is safe in the new state.
Moves(p) == \E j \in {Idle} \cup Job : Set(p, j) /\ Safe(p, j)'

LEMMA MovesAll ==
    ASSUME TypeOK, AllSafe, Grows, NEW p \in Procs, Moves(p)
    PROVE  job' \in [Procs -> {Idle} \cup Job] /\ AllSafe'
<1>1. PICK j \in {Idle} \cup Job : Set(p, j) /\ Safe(p, j)'
  BY DEF Moves
<1>2. job'[p] = j /\ \A q \in Procs \ {p} : job'[q] = job[q]
  BY <1>1 DEF Set, TypeOK
<1>3. \A q \in Procs \ {p} : Safe(q, job[q])'
  <2> SUFFICES ASSUME NEW q \in Procs \ {p} PROVE Safe(q, job[q])'
    OBVIOUS
  <2>0. PICK k : k = job[q]
    OBVIOUS
  <2>1. Safe(q, k)
    BY <2>0 DEF AllSafe
  <2>2. job'[q] = k
    BY <1>2, <2>0
  <2>3. Told(k)'
    BY <2>1, ToldStays DEF Safe
  <2>4. q \in Workers /\ k.hash \in Reachable' => k.full
    BY <2>1, HonestStays DEF Safe
  <2> QED  BY <2>2, <2>3, <2>4 DEF Safe, Told, Honest
<1>4. Safe(p, job[p])'
  BY <1>1, <1>2 DEF Safe, Told, Honest
<1>5. job' \in [Procs -> {Idle} \cup Job]
  BY <1>1 DEF Set, TypeOK
<1> QED  BY <1>3, <1>4, <1>5 DEF AllSafe

LEMMA EndMoves == ASSUME NEW p, End(p) PROVE Moves(p)
  BY IdleSafe DEF End, Moves

\* It keeps what it knows of the content, and what it has found.
LEMMA KeepMoves ==
    ASSUME AllSafe, Grows, NEW p \in Procs, NEW j \in Job, Set(p, j),
           j.hash = job[p].hash, j.full = job[p].full, j.match = job[p].match,
           \A f \in j.found : f \in job[p].found \/ Honest(f),
           j.at \notin {"save", "remember"}
    PROVE  Moves(p)
<1>1. Safe(p, job[p])
  BY DEF AllSafe
<1>2. Safe(p, j)
  BY <1>1 DEF Safe, Told
<1> QED  BY <1>2, SafeStays DEF Moves

LEMMA AnswerMoves ==
    ASSUME TypeOK, AllSafe, Grows, NEW p \in Procs, job[p].at # "idle",
           NEW m \in Answers, Honest(m), Answer(p, m)
    PROVE  Moves(p)
<1> DEFINE j == [Idle EXCEPT !.at = "adopt", !.hash = job[p].hash, !.full = job[p].full,
                             !.match = m]
<1>1. job[p].hash \in Hash /\ job[p].full \in BOOLEAN
  BY BusyJob DEF Job
<1>2. j \in Job
  BY <1>1, NewJob
<1>3. j.at = "adopt" /\ j.hash = job[p].hash /\ j.full = job[p].full /\ j.match = m /\ j.found = {}
  BY DEF Idle
<1>4. End(p) \/ Set(p, j)
  BY DEF Answer
<1> HIDE DEF j
<1>5. Safe(p, job[p])
  BY DEF AllSafe
<1>6. Safe(p, j)
  BY <1>3, <1>5 DEF Safe, Told
<1> QED  BY <1>2, <1>4, <1>6, SafeStays, EndMoves DEF Moves

\* A record that was found is honest, and its copy too.
LEMMA RecordFound ==
    ASSUME TypeOK, Records, NEW c \in Hash, NEW hook \in BOOLEAN, Record(c, hook)
    PROVE  /\ c \in Reachable => hook
           /\ cache' \in [Hash -> {"empty", "bare", "named"}]
           /\ \A d \in Reachable : cache'[d] # "bare"
           /\ faults' \in 0..MaxFaults
<1>1. c \in Reachable => hook
  BY DEF Record, Records, TypeOK
<1>2. UNCHANGED cache \/ cache' = [cache EXCEPT ![c] = Entry(hook)]
  BY DEF Record
<1>3. Entry(hook) \in {"bare", "named"} /\ (hook => Entry(hook) = "named")
  BY DEF Entry
<1>4. UNCHANGED faults \/ Fault
  BY DEF Record
<1>5. cache \in [Hash -> {"empty", "bare", "named"}] /\ \A d \in Reachable : cache[d] # "bare"
  BY DEF TypeOK, Records
<1>6. faults' \in 0..MaxFaults
  BY <1>4, FaultType
<1>7. cache' \in [Hash -> {"empty", "bare", "named"}] /\ \A d \in Reachable : cache'[d] # "bare"
  <2>1. CASE UNCHANGED cache
    BY <1>5, <2>1
  <2>2. CASE cache' = [cache EXCEPT ![c] = Entry(hook)]
    <3>1. \A d \in Hash : cache'[d] = IF d = c THEN Entry(hook) ELSE cache[d]
      BY <1>5, <2>2
    <3>2. Reachable \subseteq Hash
      BY Bounds DEF Reachable
    <3> QED  BY <1>1, <1>3, <1>5, <2>2, <3>1, <3>2
  <2> QED  BY <1>2, <2>1, <2>2
<1> QED  BY <1>1, <1>6, <1>7

LEMMA MatchesAre ==
    ASSUME NEW j \in Job, NEW m \in Matches(j)
    PROVE  /\ m \in Answers
           /\ m # NoMatch => m \in Match /\ [top |-> m.top, hook |-> m.hook] \in j.found
<1>1. CASE j.found = {}
  BY <1>1 DEF Matches, Answers
<1>2. CASE j.found # {}
  <2>1. m \in Match /\ [top |-> m.top, hook |-> m.hook] \in j.found
    BY <1>2, Zenon DEF Matches
  <2> QED  BY <2>1 DEF Answers
<1> QED  BY <1>1, <1>2

LEMMA MatchesHonest ==
    ASSUME NEW j \in Job, Told(j), NEW m \in Matches(j)
    PROVE  Honest(m)
<1>1. CASE m = NoMatch
  BY <1>1, NoMatchHonest
<1>2. CASE m # NoMatch
  <2>1. Honest([top |-> m.top, hook |-> m.hook])
    BY <1>2, MatchesAre DEF Told
  <2> QED  BY <2>1 DEF Honest
<1> QED  BY <1>1, <1>2

LEMMA SearchMoves ==
    ASSUME NEW p \in Procs, job[p] \in Job, Search(p) \/ SearchFails(p)
    PROVE  \/ Answer(p, NoMatch)
           \/ \E n \in [Hash -> Nat], b \in BOOLEAN :
                Set(p, [job[p] EXCEPT !.at = "candidates", !.todo = n, !.blur = b])
<1>1. job[p].hash \in Hash
  BY DEF Job
<1>2. CASE Search(p)
  <2> DEFINE b == Segmented(job[p]) /\ Blurred(job[p].hash)
             N == IF Segmented(job[p]) THEN SegmentPoints(job[p].hash, Crowded(job[p].hash))
                  ELSE FuzzyPoints(job[p].hash)
  <2>1. PICK n \in N : Set(p, [job[p] EXCEPT !.at = "candidates", !.todo = n, !.blur = b])
    BY <1>2, Zenon DEF Search
  <2>2. N \subseteq [Hash -> Nat]
    BY <1>1, PointsFoundType
  <2>3. b \in BOOLEAN
    OBVIOUS
  <2> HIDE DEF b, N
  <2> QED  BY <2>1, <2>2, <2>3
<1>3. CASE SearchFails(p)
  <2>1. CASE Answer(p, NoMatch)
    BY <2>1
  <2>2. CASE \E n \in SegmentPoints(job[p].hash, TRUE) :
               Set(p, [job[p] EXCEPT !.at = "candidates", !.todo = n, !.blur = TRUE])
    BY <1>1, <2>2, PointsFoundType
  <2> QED  BY <1>3, <2>1, <2>2, Zenon DEF SearchFails
<1> QED  BY <1>2, <1>3

LEMMA CandidateMoves ==
    ASSUME TypeOK, NEW p \in Procs, NEW c \in Hash, Candidate(p, c)
    PROVE  \E j \in Job :
             /\ Set(p, j) /\ j.at = "candidates" /\ j.hash = job[p].hash
             /\ j.full = job[p].full /\ j.match = job[p].match
             /\ \/ /\ j.found = job[p].found
                   /\ NoRecord(c) /\ UNCHANGED notices
                \/ \E hook \in BOOLEAN :
                     /\ Record(c, hook)
                     /\ Dispatch(Notice("match", c, NoHash), hook)
                     /\ j.found = job[p].found \cup {[top |-> c, hook |-> hook]}
<1>1. job[p] \in Job /\ job[p].at = "candidates"
  BY BusyJob DEF Candidate
<1> DEFINE todo == [job[p].todo EXCEPT ![c] = @ - 1]
           told == [job[p].told EXCEPT ![c] = @ + 1]
<1>2. job[p].todo \in [Hash -> Nat] /\ job[p].told \in [Hash -> Nat] /\ job[p].todo[c] > 0
  BY <1>1 DEF Candidate, Job
<1>3. todo \in [Hash -> Nat] /\ told \in [Hash -> Nat]
  BY <1>2
<1>4. CASE /\ NoRecord(c) /\ UNCHANGED notices
           /\ Set(p, [job[p] EXCEPT !.todo[c] = @ - 1])
  <2>1. Set(p, [job[p] EXCEPT !.todo = todo])
    BY <1>1, <1>4 DEF Job
  <2> HIDE DEF todo
  <2> DEFINE j == [job[p] EXCEPT !.todo = todo]
  <2>2. /\ j \in Job /\ j.at = "candidates" /\ j.hash = job[p].hash
        /\ j.full = job[p].full /\ j.match = job[p].match /\ j.found = job[p].found
    BY <1>1, <1>3 DEF Job
  <2>3. Set(p, j)
    BY <2>1
  <2> HIDE DEF j
  <2> QED  BY <1>4, <2>2, <2>3
<1>5. ASSUME NEW hook \in BOOLEAN, Record(c, hook),
             Dispatch(Notice("match", c, NoHash), hook),
             Set(p, [job[p] EXCEPT !.todo[c] = @ - 1, !.told[c] = @ + 1,
                                   !.found = @ \cup {[top |-> c, hook |-> hook]}])
      PROVE  \E j \in Job :
               /\ Set(p, j) /\ j.at = "candidates" /\ j.hash = job[p].hash
               /\ j.full = job[p].full /\ j.match = job[p].match
               /\ j.found = job[p].found \cup {[top |-> c, hook |-> hook]}
  <2> DEFINE found == job[p].found \cup {[top |-> c, hook |-> hook]}
  <2>0. found \subseteq [top : Hash, hook : BOOLEAN]
    BY <1>1 DEF Job
  <2>1. Set(p, [job[p] EXCEPT !.todo = todo, !.told = told, !.found = found])
    BY <1>1, <1>5 DEF Job
  <2> HIDE DEF todo, told, found
  <2> DEFINE j == [job[p] EXCEPT !.todo = todo, !.told = told, !.found = found]
  <2>2. /\ j \in Job /\ j.at = "candidates" /\ j.hash = job[p].hash
        /\ j.full = job[p].full /\ j.match = job[p].match /\ j.found = found
    BY <1>1, <1>3, <2>0 DEF Job
  <2>3. Set(p, j)
    BY <2>1
  <2> HIDE DEF j
  <2>4. \E i \in Job :
          /\ Set(p, i) /\ i.at = "candidates" /\ i.hash = job[p].hash
          /\ i.full = job[p].full /\ i.match = job[p].match /\ i.found = found
    BY <2>2, <2>3
  <2> QED  BY <2>4 DEF found
<1>6. \/ NoRecord(c) /\ UNCHANGED notices /\ Set(p, [job[p] EXCEPT !.todo[c] = @ - 1])
      \/ \E hook \in BOOLEAN :
           /\ Record(c, hook) /\ Dispatch(Notice("match", c, NoHash), hook)
           /\ Set(p, [job[p] EXCEPT !.todo[c] = @ - 1, !.told[c] = @ + 1,
                                    !.found = @ \cup {[top |-> c, hook |-> hook]}])
  BY DEF Candidate
<1> HIDE DEF todo, told
<1> QED  BY <1>4, <1>5, <1>6

-----------------------------------------------------------------------------
(* Every step of a call                                                    *)

\* The conjuncts of TypeOK other than that of job.
StoresOK ==
    /\ rows \in [Hash -> Hash \cup {NoHash, Absent}]
    /\ named \subseteq Webhook
    /\ cache \in [Hash -> {"empty", "bare", "named"}]
    /\ frames \in [Hash -> Nat]
    /\ images \in [Hash -> Nat]
    /\ remembered \in [Hash -> Answers]
    /\ delivered \in [Hash -> Nat]
    /\ degraded \subseteq Hash
NoticesOK == outbox \subseteq NoticeSet /\ received \subseteq NoticeSet /\ sent \subseteq NoticeSet

LEMMA TypeParts ==
    /\ TypeOK <=> /\ StoresOK /\ NoticesOK
                  /\ job \in [Procs -> {Idle} \cup Job]
                  /\ faults \in 0..MaxFaults
    /\ TypeOK' <=> /\ StoresOK' /\ NoticesOK'
                   /\ job' \in [Procs -> {Idle} \cup Job]
                   /\ faults' \in 0..MaxFaults
  BY Zenon DEF TypeOK, StoresOK, NoticesOK, Answers

\* Nothing of what Stored speaks about changes, but for history.
LEMMA StoredStays ==
    ASSUME Stored, Grows, UNCHANGED <<rows, named, remembered>>,
           \A d \in Reachable : cache'[d] # "bare"
    PROVE  Stored'
<1>1. Records'
  BY HonestStays DEF Stored, Records
<1>2. RememberedHonest'
  BY HonestStays DEF Stored, RememberedHonest, Honest
<1>3. LinkedIsAlerted' /\ RememberedIsReported'
  BY HonestStays DEF Stored, LinkedIsAlerted, RememberedIsReported, Grows
<1> QED  BY <1>1, <1>2, <1>3 DEF Stored

LEMMA StoresStay ==
    ASSUME StoresOK, Stored, Grows, UNCHANGED stores
    PROVE  Stored'
  BY StoredStays DEF stores, Stored, Records

Good == TypeOK /\ AllSafe /\ Stored

\* A step that leaves the stores alone.
LEMMA CallGood ==
    ASSUME Good, Grows, NEW p \in Procs, Moves(p), UNCHANGED <<stores, delivered>>,
           degraded' \subseteq Hash, NoticesOK', faults' \in 0..MaxFaults
    PROVE  Good'
<1>1. job' \in [Procs -> {Idle} \cup Job] /\ AllSafe'
  BY MovesAll DEF Good
<1>2. StoresOK /\ Stored
  BY TypeParts DEF Good
<1>3. StoresOK'
  BY <1>2 DEF StoresOK, stores, points
<1>4. Stored'
  BY <1>2, StoresStay
<1> QED  BY <1>1, <1>3, <1>4, TypeParts DEF Good

LEMMA QuietCallGood ==
    ASSUME Good, Grows, NEW p \in Procs, Moves(p), UNCHANGED <<stores, events, notices>>,
           Fault \/ UNCHANGED faults
    PROVE  Good'
<1>1. faults' \in 0..MaxFaults
  BY FaultType DEF Good
<1>2. degraded' \subseteq Hash /\ NoticesOK'
  BY TypeParts DEF Good, StoresOK, NoticesOK, events, notices
<1> QED  BY <1>1, <1>2, CallGood DEF events

LEMMA GoodStep == Good /\ [Next]_vars => Good'
<1> SUFFICES ASSUME Good, [Next]_vars PROVE Good'
  OBVIOUS
<1> USE DEF Procs
<1>0. /\ TypeOK /\ AllSafe /\ Grows /\ StoresOK /\ NoticesOK /\ Stored
      /\ Records /\ RememberedHonest /\ LinkedIsAlerted /\ RememberedIsReported
  BY HistoryGrows, TypeParts DEF Good, Stored
<1>1. ASSUME NEW c \in Clients, NEW h \in Hash, Verify(c, h) PROVE Good'
  <2> DEFINE at == IF h \in Video THEN "recall" ELSE "search"
             j == [Idle EXCEPT !.at = "exact", !.hash = h]
             k == [Idle EXCEPT !.at = at, !.hash = h, !.full = TRUE]
  <2>0. at \in {"recall", "search"} /\ "exact" \in {"recall", "exact", "search", "adopt"}
    OBVIOUS
  <2> HIDE DEF at
  <2>1. j \in Job /\ k \in Job
    <3>1. at \in {"recall", "exact", "search", "adopt"} /\ NoMatch \in Answers
      BY <2>0 DEF Answers
    <3> QED  BY <2>0, <3>1, NewJob
  <2>2. /\ j.match = NoMatch /\ j.found = {} /\ j.at = "exact"
        /\ k.match = NoMatch /\ k.found = {} /\ k.at \in {"recall", "search"}
    BY <2>0 DEF Idle
  <2>3. Set(c, j) \/ Set(c, k)
    BY <1>1 DEF Verify, at
  <2> HIDE DEF j, k
  <2>4. c \notin Workers
    BY NotifyAssumption
  <2>5. Safe(c, j)' /\ Safe(c, k)'
    BY <2>2, <2>4, NoMatchHonest DEF Safe, Told
  <2>6. Moves(c)
    BY <2>1, <2>3, <2>5 DEF Moves
  <2> QED  BY <1>0, <1>1, <2>6, QuietCallGood DEF Verify
<1>2. ASSUME NEW p \in Procs, Recall(p) PROVE Good'
  <2>1. job[p] \in Job /\ job[p].hash \in Hash
    BY <1>0, <1>2, BusyJob DEF Recall, Job
  <2>2. remembered[job[p].hash] \in Answers /\ Honest(remembered[job[p].hash])
    BY <1>0, <2>1 DEF StoresOK, RememberedHonest
  <2>3. CASE Answer(p, remembered[job[p].hash])
    <3>1. Moves(p)
      BY <1>0, <1>2, <2>2, <2>3, AnswerMoves DEF Recall
    <3> QED  BY <1>0, <1>2, <3>1, QuietCallGood DEF Recall
  <2>4. CASE Set(p, [job[p] EXCEPT !.at = "exact"])
    <3> DEFINE j == [job[p] EXCEPT !.at = "exact"]
    <3>1. /\ j \in Job /\ j.at = "exact" /\ j.hash = job[p].hash /\ j.full = job[p].full
          /\ j.match = job[p].match /\ j.found = job[p].found
      BY <2>1 DEF Job
    <3>2. Set(p, j)
      BY <2>4
    <3> HIDE DEF j
    <3>3. Moves(p)
      BY <1>0, <3>1, <3>2, KeepMoves
    <3> QED  BY <1>0, <1>2, <3>3, QuietCallGood DEF Recall
  <2> QED  BY <1>2, <2>3, <2>4 DEF Recall
<1>3. ASSUME NEW p \in Procs, LookUp(p) PROVE Good'
  <2>1. job[p].hash \in Hash
    BY <1>0, <1>3, BusyJob DEF LookUp, Job
  <2>2. PICK hook \in BOOLEAN :
           /\ Record(job[p].hash, hook)
           /\ Dispatch(Notice("match", job[p].hash, NoHash), hook)
           /\ Answer(p, [top |-> job[p].hash, hook |-> hook, close |-> TRUE])
    BY <1>3 DEF LookUp
  <2>3. /\ job[p].hash \in Reachable => hook
        /\ cache' \in [Hash -> {"empty", "bare", "named"}]
        /\ \A d \in Reachable : cache'[d] # "bare"
        /\ faults' \in 0..MaxFaults
    BY <1>0, <2>1, <2>2, RecordFound
  <2> DEFINE m == [top |-> job[p].hash, hook |-> hook, close |-> TRUE]
  <2>4. m \in Answers /\ Honest(m)
    BY <2>1, <2>3 DEF Answers, Match, Honest
  <2>5. Answer(p, m) /\ job[p].at # "idle"
    BY <1>3, <2>2 DEF LookUp
  <2> HIDE DEF m
  <2>6. Moves(p)
    BY <1>0, <2>4, <2>5, AnswerMoves
  <2>7. job' \in [Procs -> {Idle} \cup Job] /\ AllSafe'
    BY <1>0, <2>6, MovesAll
  <2>8. UNCHANGED <<rows, named, points, remembered, events>>
    BY <1>3, Zenon DEF LookUp
  <2>9. NoticesOK'
    BY <1>0, <2>1, <2>2, DispatchType DEF Events, NoticesOK
  <2>10. StoresOK' /\ Stored'
    BY <1>0, <2>3, <2>8, StoredStays DEF StoresOK, points, events
  <2> QED  BY <2>3, <2>7, <2>9, <2>10, TypeParts DEF Good
<1>4. ASSUME NEW p \in Procs, LookUpMisses(p) PROVE Good'
  <2> DEFINE j == [job[p] EXCEPT !.at = "search"]
  <2>1. /\ j \in Job /\ j.at = "search" /\ j.hash = job[p].hash /\ j.full = job[p].full
        /\ j.match = job[p].match /\ j.found = job[p].found
    BY <1>0, <1>4, BusyJob DEF LookUpMisses, Job
  <2>2. End(p) \/ Set(p, j)
    BY <1>4 DEF LookUpMisses
  <2> HIDE DEF j
  <2>3. Moves(p)
    BY <1>0, <2>1, <2>2, KeepMoves, EndMoves
  <2>4. UNCHANGED <<stores, events, notices>> /\ (Fault \/ UNCHANGED faults)
    BY <1>4 DEF LookUpMisses, NoRecord, stores
  <2> QED  BY <1>0, <2>3, <2>4, QuietCallGood
<1>5. ASSUME NEW p \in Procs, Search(p) \/ SearchFails(p) PROVE Good'
  <2>1. job[p] \in Job /\ job[p].hash \in Hash /\ job[p].at # "idle"
    BY <1>0, <1>5, BusyJob DEF Search, SearchFails, Job
  <2>2. UNCHANGED <<stores, events, notices>> /\ (Fault \/ UNCHANGED faults)
    BY <1>5, Zenon DEF Search, SearchFails
  <2>3. CASE Answer(p, NoMatch)
    <3>1. NoMatch \in Answers
      BY DEF Answers
    <3>2. Moves(p)
      BY <1>0, <2>1, <2>3, <3>1, NoMatchHonest, AnswerMoves
    <3> QED  BY <1>0, <2>2, <3>2, QuietCallGood
  <2>4. CASE \E n \in [Hash -> Nat], b \in BOOLEAN :
               Set(p, [job[p] EXCEPT !.at = "candidates", !.todo = n, !.blur = b])
    <3>1. PICK n \in [Hash -> Nat], b \in BOOLEAN :
             Set(p, [job[p] EXCEPT !.at = "candidates", !.todo = n, !.blur = b])
      BY <2>4
    <3> DEFINE j == [job[p] EXCEPT !.at = "candidates", !.todo = n, !.blur = b]
    <3>2. /\ j \in Job /\ j.at = "candidates" /\ j.hash = job[p].hash /\ j.full = job[p].full
          /\ j.match = job[p].match /\ j.found = job[p].found
      BY <2>1 DEF Job
    <3>3. Set(p, j)
      BY <3>1
    <3> HIDE DEF j
    <3>4. Moves(p)
      BY <1>0, <3>2, <3>3, KeepMoves
    <3> QED  BY <1>0, <2>2, <3>4, QuietCallGood
  <2> QED  BY <1>5, <2>1, <2>3, <2>4, SearchMoves
<1>6. ASSUME NEW p \in Procs, NEW c \in Hash, Candidate(p, c) PROVE Good'
  <2>1. job[p] \in Job /\ Told(job[p])
    BY <1>0, <1>6, BusyJob DEF Candidate, AllSafe, Safe
  <2>2. PICK j \in Job :
           /\ Set(p, j) /\ j.at = "candidates" /\ j.hash = job[p].hash
           /\ j.full = job[p].full /\ j.match = job[p].match
           /\ \/ /\ j.found = job[p].found
                 /\ NoRecord(c) /\ UNCHANGED notices
              \/ \E hook \in BOOLEAN :
                   /\ Record(c, hook)
                   /\ Dispatch(Notice("match", c, NoHash), hook)
                   /\ j.found = job[p].found \cup {[top |-> c, hook |-> hook]}
    BY <1>0, <1>6, CandidateMoves
  <2>3. UNCHANGED <<rows, named, points, remembered, events>>
    BY <1>6, Zenon DEF Candidate
  <2>4. CASE j.found = job[p].found /\ NoRecord(c) /\ UNCHANGED notices
    <3>1. Moves(p)
      BY <1>0, <2>2, <2>4, KeepMoves
    <3>2. UNCHANGED <<stores, events, notices>> /\ (Fault \/ UNCHANGED faults)
      BY <2>3, <2>4 DEF NoRecord, stores
    <3> QED  BY <1>0, <3>1, <3>2, QuietCallGood
  <2>5. ASSUME NEW hook \in BOOLEAN, Record(c, hook),
               Dispatch(Notice("match", c, NoHash), hook),
               j.found = job[p].found \cup {[top |-> c, hook |-> hook]}
        PROVE  Good'
    <3>1. /\ c \in Reachable => hook
          /\ cache' \in [Hash -> {"empty", "bare", "named"}]
          /\ \A d \in Reachable : cache'[d] # "bare"
          /\ faults' \in 0..MaxFaults
      BY <1>0, <2>5, RecordFound
    <3>2. Honest([top |-> c, hook |-> hook])
      BY <3>1 DEF Honest
    <3>3. \A f \in j.found : f \in job[p].found \/ Honest(f)
      BY <2>5, <3>2
    <3>4. Moves(p)
      BY <1>0, <2>2, <3>3, KeepMoves
    <3>5. job' \in [Procs -> {Idle} \cup Job] /\ AllSafe'
      BY <1>0, <3>4, MovesAll
    <3>6. NoticesOK'
      BY <1>0, <2>5, DispatchType DEF Events, NoticesOK
    <3>7. StoresOK' /\ Stored'
      BY <1>0, <2>3, <3>1, StoredStays DEF StoresOK, points, events
    <3> QED  BY <3>1, <3>5, <3>6, <3>7, TypeParts DEF Good
  <2> QED  BY <2>2, <2>4, <2>5
<1>7. ASSUME NEW p \in Procs, Conclude(p) PROVE Good'
  <2>1. job[p] \in Job /\ job[p].hash \in Hash /\ job[p].at # "idle" /\ Safe(p, job[p])
    BY <1>0, <1>7, BusyJob DEF Conclude, Job, AllSafe
  <2>2. PICK m \in Matches(job[p]) :
           IF m = NoMatch \/ ~Segmented(job[p]) THEN Answer(p, m) /\ UNCHANGED notices
           ELSE /\ Set(p, [job[p] EXCEPT !.at = "remember", !.match = m])
                /\ Dispatch(Notice("derivative", m.top, job[p].hash), m.hook /\ m.close)
    BY <1>7, Zenon DEF Conclude
  <2>3. /\ m \in Answers /\ Honest(m)
        /\ m # NoMatch => m \in Match
    BY <2>1, MatchesAre, MatchesHonest DEF Safe
  <2>4. UNCHANGED <<stores, events, faults>>
    BY <1>7, Zenon DEF Conclude
  <2>5. CASE m = NoMatch \/ ~Segmented(job[p])
    <3>1. Moves(p)
      BY <1>0, <2>1, <2>2, <2>3, <2>5, AnswerMoves
    <3>2. UNCHANGED notices
      BY <2>2, <2>5
    <3> QED  BY <1>0, <2>4, <3>1, <3>2, QuietCallGood
  <2>6. CASE ~(m = NoMatch \/ ~Segmented(job[p]))
    <3>1. m \in Match /\ m.top \in Hash
      BY <2>3, <2>6 DEF Match
    <3>2. Dispatch(Notice("derivative", m.top, job[p].hash), m.hook /\ m.close)
      BY <2>2, <2>6
    <3>0. PICK j : j = [job[p] EXCEPT !.at = "remember", !.match = m]
      OBVIOUS
    <3>3. /\ j \in Job /\ j.at = "remember" /\ j.hash = job[p].hash /\ j.full = job[p].full
          /\ j.match = m /\ j.found = job[p].found
      BY <2>1, <3>0, <3>1 DEF Job
    <3>4. Set(p, j)
      BY <2>2, <2>6, <3>0
    <3>5. m.top \in Reachable /\ m.close
            => Notice("derivative", m.top, job[p].hash) \in sent'
      BY <2>3, <3>2 DEF Honest, Dispatch, Notice
    <3>6. Reachable' \subseteq Reachable /\ Honest(m)' /\ Safe(p, job[p])
      BY <1>0, <2>1, <2>3, HonestStays
    <3>7. \A f \in j.found : Honest(f)'
      BY <1>0, <3>3, <3>6, HonestStays DEF Safe, Told
    <3>8. Told(j)'
      BY <3>3, <3>5, <3>6, <3>7 DEF Told
    <3>9. p \in Workers /\ j.hash \in Reachable' => j.full
      BY <3>3, <3>6 DEF Safe
    <3>10. Moves(p)
      BY <3>3, <3>4, <3>8, <3>9 DEF Moves, Safe
    <3>11. NoticesOK'
      BY <1>0, <2>1, <3>1, <3>2, DispatchType DEF Events, NoticesOK
    <3>12. degraded' \subseteq Hash /\ UNCHANGED <<stores, delivered>> /\ faults' \in 0..MaxFaults
      BY <1>0, <2>4, FaultType DEF StoresOK, events
    <3> QED  BY <1>0, <3>10, <3>11, <3>12, CallGood
  <2> QED  BY <2>5, <2>6
<1>8. ASSUME NEW p \in Procs, Remember(p) PROVE Good'
  <2>1. /\ job[p] \in Job /\ job[p].hash \in Hash /\ job[p].match \in Answers
        /\ job[p].at = "remember" /\ Told(job[p])
    BY <1>0, <1>8, BusyJob DEF Remember, Job, Answers, AllSafe, Safe
  <2>2. Honest(job[p].match)
    BY <2>1 DEF Told
  <2>3. Moves(p)
    BY <1>0, <1>8, <2>1, <2>2, AnswerMoves DEF Remember
  <2>4. job' \in [Procs -> {Idle} \cup Job] /\ AllSafe'
    BY <1>0, <2>3, MovesAll
  <2>5. /\ UNCHANGED <<rows, named, cache, points, events, notices>>
        /\ Fault \/ UNCHANGED faults
        /\ UNCHANGED remembered \/ remembered' = [remembered EXCEPT ![job[p].hash] = job[p].match]
    BY <1>8, Zenon DEF Remember
  <2>6. StoresOK' /\ NoticesOK' /\ faults' \in 0..MaxFaults
    BY <1>0, <2>1, <2>5, FaultType DEF StoresOK, NoticesOK, points, events, notices
  <2>7. Reachable' = Reachable /\ sent' = sent
    BY <2>5 DEF Reachable, events, notices
  <2>8. \A h \in Hash : \/ remembered'[h] = remembered[h]
                        \/ h = job[p].hash /\ remembered'[h] = job[p].match
    BY <1>0, <2>5 DEF StoresOK
  <2>9. Records' /\ LinkedIsAlerted'
    BY <1>0, <2>5, <2>7 DEF Records, LinkedIsAlerted
  <2>10. RememberedHonest'
    BY <1>0, <2>2, <2>7, <2>8 DEF RememberedHonest, Honest
  <2>11. RememberedIsReported'
    BY <1>0, <2>1, <2>7, <2>8 DEF RememberedIsReported, Told
  <2> QED  BY <2>4, <2>6, <2>9, <2>10, <2>11, TypeParts DEF Good, Stored
<1>9. ASSUME NEW h \in Hash, Expire(h) PROVE Good'
  <2>1. /\ UNCHANGED <<rows, named, cache, points, job, events, notices, faults>>
        /\ remembered' = [remembered EXCEPT ![h] = NoMatch]
    BY <1>9 DEF Expire
  <2>2. StoresOK' /\ NoticesOK' /\ faults' \in 0..MaxFaults
    BY <1>0, <2>1, TypeParts DEF StoresOK, NoticesOK, points, events, notices, Answers
  <2>3. Reachable' = Reachable /\ sent' = sent
    BY <2>1 DEF Reachable, events, notices
  <2>4. job' \in [Procs -> {Idle} \cup Job] /\ AllSafe'
    BY <1>0, <2>1, <2>3, TypeParts DEF AllSafe, Safe, Told, Honest
  <2>5. \A g \in Hash : remembered'[g] = remembered[g] \/ remembered'[g] = NoMatch
    BY <1>0, <2>1 DEF StoresOK
  <2>6. NoMatch.top \notin Reachable
    BY Bounds DEF NoMatch, Reachable
  <2>7. Records' /\ LinkedIsAlerted'
    BY <1>0, <2>1, <2>3 DEF Records, LinkedIsAlerted
  <2>8. RememberedHonest' /\ RememberedIsReported'
    BY <1>0, <2>3, <2>5, <2>6 DEF RememberedHonest, Honest, RememberedIsReported
  <2> QED  BY <2>2, <2>4, <2>7, <2>8, TypeParts DEF Good, Stored
<1>10. ASSUME NEW w \in Workers, NEW h \in Hash, Begin(w, h) PROVE Good'
  <2>1. PICK full \in BOOLEAN :
           /\ degraded' = IF full THEN degraded ELSE degraded \cup {h}
           /\ Set(w, [Idle EXCEPT !.at = IF full /\ h \in Video THEN "recall" ELSE "search",
                                  !.hash = h, !.full = full])
           /\ Fault \/ UNCHANGED faults
    BY <1>10 DEF Begin
  <2>2. PICK at \in {"recall", "search"} : Set(w, [Idle EXCEPT !.at = at, !.hash = h, !.full = full])
    BY <2>1
  <2> DEFINE j == [Idle EXCEPT !.at = at, !.hash = h, !.full = full]
  <2>3. j \in Job
    BY NewJob, NoMatchHonest DEF Answers
  <2>4. j.at = at /\ j.hash = h /\ j.full = full /\ j.match = NoMatch /\ j.found = {}
    BY DEF Idle
  <2>5. Set(w, j)
    BY <2>2
  <2> HIDE DEF j
  <2>6. ~full => h \notin Reachable'
    BY <2>1 DEF Reachable
  <2>7. Safe(w, j)'
    BY <2>4, <2>6, NoMatchHonest DEF Safe, Told
  <2>8. Moves(w)
    BY <2>3, <2>5, <2>7 DEF Moves
  <2>9. job' \in [Procs -> {Idle} \cup Job] /\ AllSafe'
    BY <1>0, <2>8, MovesAll
  <2>10. delivered' = [delivered EXCEPT ![h] = @ + 1] /\ UNCHANGED <<stores, notices>>
    BY <1>10, Zenon DEF Begin
  <2>11. StoresOK' /\ NoticesOK' /\ faults' \in 0..MaxFaults
    BY <1>0, <2>1, <2>10, FaultType DEF StoresOK, NoticesOK, stores, points, notices
  <2>12. Stored'
    BY <1>0, <2>10, StoresStay
  <2> QED  BY <2>9, <2>11, <2>12, TypeParts DEF Good
<1>11. ASSUME NEW w \in Workers, Adopt(w) PROVE Good'
  <2>1. /\ job[w] \in Job /\ job[w].hash \in Hash /\ job[w].match \in Answers
        /\ Safe(w, job[w])
    BY <1>0, <1>11, BusyJob DEF Adopt, Job, Answers, AllSafe
  <2>0. PICK m, h, j : /\ m = Adopted(job[w].match) /\ h = job[w].hash
                       /\ j = [job[w] EXCEPT !.at = "save", !.match = m]
    BY Zenon
  <2>2. m \in Answers /\ Honest(m) /\ (m.top = NoHash \/ m.top \in Hash)
    BY <2>0, <2>1, NoMatchHonest DEF Adopted, Answers, Safe, Told, Match, NoMatch
  <2>3. Set(w, j) /\ Dispatch(Notice("plagiarism", m.top, h), m.hook /\ Foreign(h, m))
    BY <1>11, <2>0 DEF Adopt
  <2>4. /\ UNCHANGED <<stores, events, faults>>
    BY <1>11 DEF Adopt
  <2>5. /\ j \in Job /\ j.at = "save" /\ j.hash = h /\ j.full = job[w].full
        /\ j.match = m /\ j.found = job[w].found
    BY <2>0, <2>1, <2>2 DEF Job, Answers
  <2>6. m.top \in Reachable /\ Creator[h] # Creator[m.top]
          => Notice("plagiarism", m.top, h) \in sent'
    BY <2>2, <2>3, Bounds DEF Honest, Dispatch, Notice, Foreign, Reachable
  <2>7. Reachable' \subseteq Reachable /\ Honest(m)'
    BY <1>0, <2>2, HonestStays
  <2>8. \A f \in j.found : Honest(f)'
    BY <1>0, <2>1, <2>5, HonestStays DEF Safe, Told
  <2>9. Told(j)'
    BY <2>5, <2>6, <2>7, <2>8 DEF Told
  <2>10. j.hash \in Reachable' => j.full
    BY <2>0, <2>1, <2>5, <2>7 DEF Safe
  <2>11. Moves(w)
    BY <2>3, <2>5, <2>9, <2>10 DEF Moves, Safe
  <2>12. NoticesOK'
    <3>1. CASE m.top \in Hash
      BY <1>0, <2>0, <2>1, <2>3, <3>1, DispatchType DEF Events, NoticesOK
    <3>2. CASE m.top = NoHash
      BY <1>0, <2>3, <3>2 DEF Foreign, Dispatch, NoticesOK
    <3> QED  BY <2>2, <3>1, <3>2
  <2>13. degraded' \subseteq Hash /\ UNCHANGED <<stores, delivered>> /\ faults' \in 0..MaxFaults
    BY <1>0, <2>4, FaultType DEF StoresOK, events
  <2> QED  BY <1>0, <2>11, <2>12, <2>13, CallGood
<1>12. ASSUME NEW w \in Workers, Save(w) \/ SaveCache(w) \/ Index(w) \/ RegisterFails(w) PROVE Good'
  <2>1. /\ job[w] \in Job /\ job[w].hash \in Hash /\ job[w].match \in Answers
        /\ Safe(w, job[w]) /\ job[w].full \in BOOLEAN
    BY <1>0, <1>12, BusyJob DEF Save, SaveCache, Index, RegisterFails, Job, Answers, AllSafe
  <2>2. Moves(w)
    <3> DEFINE j == [job[w] EXCEPT !.at = "cache"]
               k == [job[w] EXCEPT !.at = "index"]
    <3>1. /\ j \in Job /\ j.at = "cache" /\ j.hash = job[w].hash /\ j.full = job[w].full
          /\ j.match = job[w].match /\ j.found = job[w].found
          /\ k \in Job /\ k.at = "index" /\ k.hash = job[w].hash /\ k.full = job[w].full
          /\ k.match = job[w].match /\ k.found = job[w].found
      BY <2>1 DEF Job
    <3>2. Set(w, j) \/ Set(w, k) \/ End(w)
      BY <1>12 DEF Save, SaveCache, Index, RegisterFails
    <3> HIDE DEF j, k
    <3> QED  BY <1>0, <3>1, <3>2, KeepMoves, EndMoves
  <2>3. job' \in [Procs -> {Idle} \cup Job] /\ AllSafe'
    BY <1>0, <2>2, MovesAll
  <2>4. /\ UNCHANGED <<remembered, events, notices>>
        /\ Fault \/ UNCHANGED faults
    BY <1>12 DEF Save, SaveCache, Index, RegisterFails, stores
  <2>5. Reachable' = Reachable /\ sent' = sent
    BY <2>4 DEF Reachable, events, notices
  <2>6. job[w].hash \in Reachable => Names(job[w])
    BY <2>1 DEF Safe, Names, Reachable
  <2>7. NoticesOK' /\ faults' \in 0..MaxFaults
    BY <1>0, <2>4, FaultType DEF NoticesOK, notices
  <2>8. CASE Save(w)
    <3>1. /\ rows' = [rows EXCEPT ![job[w].hash] = IF @ = Absent THEN job[w].match.top ELSE @]
          /\ named' = IF rows[job[w].hash] = Absent /\ Names(job[w])
                      THEN named \cup {job[w].hash} ELSE named
          /\ UNCHANGED <<cache, points, remembered, events>> /\ job[w].at = "save"
      BY <2>8, Zenon DEF Save
    <3>2. job[w].match.top \in Hash \cup {NoHash}
      BY <2>1 DEF Answers, Match, NoMatch
    <3>3. StoresOK'
      BY <1>0, <2>1, <3>1, <3>2 DEF StoresOK, Names, points, events
    <3>4. Records'
      BY <1>0, <2>1, <2>5, <2>6, <3>1 DEF Records, StoresOK
    <3>5. LinkedIsAlerted'
      <4> SUFFICES ASSUME NEW h \in Hash, NEW p \in Reachable, rows'[h] = p, Creator[h] # Creator[p]
                   PROVE  Notice("plagiarism", p, h) \in sent
        BY <2>5 DEF LinkedIsAlerted
      <4>1. CASE rows[h] = p
        BY <1>0, <4>1 DEF LinkedIsAlerted
      <4>2. CASE rows[h] # p
        <5>1. h = job[w].hash /\ p = job[w].match.top
          BY <1>0, <3>1, <4>2 DEF StoresOK
        <5> QED  BY <2>1, <3>1, <5>1 DEF Safe, Told
      <4> QED  BY <4>1, <4>2
    <3>6. RememberedHonest' /\ RememberedIsReported'
      BY <1>0, <2>4, <2>5 DEF RememberedHonest, Honest, RememberedIsReported
    <3> QED  BY <2>3, <2>7, <3>3, <3>4, <3>5, <3>6, TypeParts DEF Good, Stored
  <2>9. CASE ~Save(w)
    <3>1. /\ UNCHANGED <<rows, named>>
          /\ \/ UNCHANGED cache
             \/ cache' = [cache EXCEPT ![job[w].hash] = Entry(Names(job[w]))]
          /\ \/ UNCHANGED points
             \/ /\ Segmented(job[w]) /\ UNCHANGED images
                /\ frames' = [frames EXCEPT ![job[w].hash] = @ + Keyframes[job[w].hash]]
             \/ images' = [images EXCEPT ![job[w].hash] = @ + 1] /\ UNCHANGED frames
      BY <1>12, <2>9 DEF SaveCache, Index, RegisterFails, stores, points
    <3>2. /\ Entry(Names(job[w])) \in {"bare", "named"}
          /\ Names(job[w]) => Entry(Names(job[w])) = "named"
      BY DEF Entry
    <3>3. cache' \in [Hash -> {"empty", "bare", "named"}] /\ \A d \in Reachable : cache'[d] # "bare"
      <4>0. /\ cache \in [Hash -> {"empty", "bare", "named"}]
            /\ \A d \in Reachable : cache[d] # "bare"
        BY <1>0 DEF StoresOK, Records
      <4>1. CASE UNCHANGED cache
        BY <4>0, <4>1
      <4>2. CASE cache' = [cache EXCEPT ![job[w].hash] = Entry(Names(job[w]))]
        <5>1. \A d \in Hash : cache'[d] = IF d = job[w].hash THEN Entry(Names(job[w])) ELSE cache[d]
          BY <4>0, <4>2
        <5>2. Reachable \subseteq Hash
          BY Bounds DEF Reachable
        <5> QED  BY <2>1, <2>6, <3>2, <4>0, <4>2, <5>1, <5>2
      <4> QED  BY <3>1, <4>1, <4>2
    <3>4. frames' \in [Hash -> Nat] /\ images' \in [Hash -> Nat]
      <4>1. Segmented(job[w]) => Keyframes[job[w].hash] \in Nat
        BY Bounds DEF Segmented
      <4> QED  BY <1>0, <2>1, <3>1, <4>1 DEF StoresOK, points
    <3>5. StoresOK'
      BY <1>0, <2>4, <3>1, <3>3, <3>4 DEF StoresOK, events
    <3>6. Stored'
      BY <1>0, <2>4, <3>1, <3>3, StoredStays
    <3> QED  BY <2>3, <2>7, <3>5, <3>6, TypeParts DEF Good
  <2> QED  BY <2>8, <2>9
<1>13. ASSUME \E n \in outbox : Deliver(n) \/ DeliverFails(n) PROVE Good'
  <2>1. /\ UNCHANGED <<stores, job, events, sent>> /\ (Fault \/ UNCHANGED faults)
        /\ outbox' \subseteq outbox /\ received' \subseteq received \cup outbox
    BY <1>13 DEF Deliver, DeliverFails
  <2>2. NoticesOK' /\ faults' \in 0..MaxFaults
    BY <1>0, <2>1, FaultType DEF NoticesOK
  <2>3. StoresOK' /\ Stored' /\ job' \in [Procs -> {Idle} \cup Job]
    BY <1>0, <2>1, StoresStay, TypeParts DEF StoresOK, stores, points, events
  <2>4. Reachable' = Reachable
    BY <2>1 DEF Reachable, events
  <2>5. AllSafe'
    BY <1>0, <2>1, <2>4 DEF AllSafe, Safe, Told, Honest
  <2> QED  BY <2>2, <2>3, <2>5, TypeParts DEF Good
<1>14. ASSUME Crash PROVE Good'
  <2>1. /\ UNCHANGED <<stores, events, received, sent>> /\ Fault
        /\ outbox' = {} /\ job' = [p \in Procs |-> Idle]
    BY <1>14 DEF Crash
  <2>2. NoticesOK' /\ faults' \in 0..MaxFaults
    BY <1>0, <2>1, FaultType DEF NoticesOK
  <2>3. StoresOK' /\ Stored' /\ job' \in [Procs -> {Idle} \cup Job]
    BY <1>0, <2>1, StoresStay DEF StoresOK, stores, points, events
  <2>4. AllSafe'
    <3> SUFFICES ASSUME NEW p \in Procs PROVE Safe(p, job[p])'
      BY DEF AllSafe
    <3>1. job'[p] = Idle /\ Safe(p, Idle)'
      BY <2>1, IdleSafe
    <3> QED  BY <3>1 DEF Safe, Told, Honest, Idle
  <2> QED  BY <2>2, <2>3, <2>4, TypeParts DEF Good
<1>15. ASSUME UNCHANGED vars PROVE Good'
  <2>1. UNCHANGED <<stores, job, events, notices, faults>>
    BY <1>15 DEF vars
  <2>2. StoresOK' /\ NoticesOK' /\ job' \in [Procs -> {Idle} \cup Job] /\ faults' \in 0..MaxFaults
    BY <1>0, <2>1, TypeParts DEF StoresOK, NoticesOK, stores, points, events, notices
  <2>3. Reachable' = Reachable /\ sent' = sent
    BY <2>1 DEF Reachable, events, notices
  <2>4. AllSafe' /\ Stored'
    BY <1>0, <2>1, <2>3, StoresStay DEF AllSafe, Safe, Told, Honest
  <2> QED  BY <2>2, <2>4, TypeParts DEF Good
<1> QED
  BY <1>1, <1>2, <1>3, <1>4, <1>5, <1>6, <1>7, <1>8, <1>9, <1>10, <1>11, <1>12, <1>13, <1>14,
     <1>15 DEF Next, RegisterStep, CheckStep

-----------------------------------------------------------------------------
(* A notice in its goroutine                                               *)

\* No notice of plagiarism disappears without a fault.
NoneLost ==
    \A n \in sent :
        n.event = "plagiarism" => n \in outbox \cup received \/ faults < MaxFaults

LEMMA NoneLostStep == TypeOK /\ TypeOK' /\ NoneLost /\ [Next]_vars => NoneLost'
<1> SUFFICES ASSUME TypeOK, TypeOK', NoneLost, [Next]_vars PROVE NoneLost'
  OBVIOUS
<1> USE DEF Procs
<1>1. CASE Fault
  BY <1>1, Bounds DEF Fault, TypeOK, NoneLost
<1>2. CASE UNCHANGED <<notices, faults>>
  BY <1>2 DEF notices, NoneLost
<1>3. CASE UNCHANGED faults /\ \E n, hook : Dispatch(n, hook)
  <2>1. PICK n, hook : Dispatch(n, hook)
    BY <1>3
  <2>2. \A m \in sent' : m.event = "plagiarism" => m \in sent \/ m \in outbox'
    BY <2>1 DEF Dispatch
  <2>3. outbox \subseteq outbox' /\ received' = received
    BY <2>1 DEF Dispatch
  <2> QED  BY <1>3, <2>2, <2>3 DEF NoneLost
<1>4. CASE \E n \in outbox : Deliver(n)
  BY <1>4 DEF Deliver, NoneLost
<1>5. \/ Fault \/ UNCHANGED <<notices, faults>>
      \/ UNCHANGED faults /\ \E n, hook : Dispatch(n, hook)
      \/ \E n \in outbox : Deliver(n)
  <2>1. ASSUME NEW p \in Procs, Conclude(p)
        PROVE  UNCHANGED <<notices, faults>> \/ (UNCHANGED faults /\ \E n, hook : Dispatch(n, hook))
    BY <2>1, Zenon DEF Conclude
  <2>2. ASSUME NEW p \in Procs, LookUp(p) \/ \E c \in Hash : Candidate(p, c)
        PROVE  \/ Fault \/ UNCHANGED <<notices, faults>>
               \/ UNCHANGED faults /\ \E n, hook : Dispatch(n, hook)
    BY <2>2 DEF LookUp, Candidate, Record, NoRecord
  <2>3. ASSUME NEW w \in Workers, Adopt(w)
        PROVE  UNCHANGED faults /\ \E n, hook : Dispatch(n, hook)
    BY <2>3 DEF Adopt
  <2>4. ASSUME \/ \E p \in Procs : \/ Recall(p) \/ LookUpMisses(p) \/ Search(p)
                                   \/ SearchFails(p) \/ Remember(p)
               \/ \E w \in Workers : Save(w) \/ SaveCache(w) \/ Index(w) \/ RegisterFails(w)
               \/ \E w \in Workers, h \in Hash : Begin(w, h)
               \/ \E c \in Clients, h \in Hash : Verify(c, h)
               \/ \E h \in Hash : Expire(h)
               \/ UNCHANGED vars
        PROVE  Fault \/ UNCHANGED <<notices, faults>>
    BY <2>4, Zenon DEF Recall, LookUpMisses, NoRecord, Search, SearchFails, Remember, Save,
       SaveCache, Index, RegisterFails, Begin, Verify, Expire, vars
  <2>5. ASSUME Crash \/ \E n \in outbox : DeliverFails(n) PROVE Fault
    BY <2>5 DEF Crash, DeliverFails
  <2> QED  BY <2>1, <2>2, <2>3, <2>4, <2>5 DEF Next, RegisterStep, CheckStep
<1> QED  BY <1>1, <1>2, <1>3, <1>4, <1>5

-----------------------------------------------------------------------------

Correct == Good /\ NoneLost

LEMMA InitCorrect == Init => Correct
<1> SUFFICES ASSUME Init PROVE Correct
  OBVIOUS
<1>1. TypeOK
  BY Bounds, NoneType DEF Init, TypeOK
<1>2. AllSafe /\ NoneLost
  BY IdleSafe DEF Init, AllSafe, NoneLost
<1>3. LinkedIsAlerted
  <2> SUFFICES ASSUME NEW h \in Hash, NEW p \in Reachable, rows[h] = p,
                      Creator[h] # Creator[p]
               PROVE  Notice("plagiarism", p, h) \in sent
    BY DEF LinkedIsAlerted
  <2>1. p = Absent /\ p \in Hash
    BY Bounds DEF Init, Reachable
  <2> QED  BY <2>1, Bounds
<1>4. Records
  BY Bounds DEF Init, Records, Reachable
<1>5. RememberedHonest /\ RememberedIsReported
  <2>1. \A h \in Hash : remembered[h] = NoMatch
    BY DEF Init
  <2>2. NoMatch.top \notin Reachable
    BY Bounds DEF NoMatch, Reachable
  <2> QED  BY <2>1, <2>2 DEF RememberedHonest, Honest, RememberedIsReported
<1> QED  BY <1>1, <1>2, <1>3, <1>4, <1>5 DEF Correct, Good, Stored

LEMMA NotifyCorrect == Spec => []Correct
<1>1. Correct /\ [Next]_vars => Correct'
  BY GoodStep, NoneLostStep DEF Correct, Good
<1> QED  BY <1>1, InitCorrect, PTL DEF Spec

\* The stores, the calls and the notices keep their types.
THEOREM TypeCorrect == Spec => []TypeOK
<1>1. Correct => TypeOK
  BY DEF Correct, Good
<1> QED  BY <1>1, NotifyCorrect, PTL

\* The creator of a content is told before a content of somebody else is stored
\* with it as the parent a check found, whatever fails and however often events
\* come again, unless the content itself was once processed without metadata:
\* every record of it names the address, in the row, in the record cache and in
\* the remembered answers.
THEOREM PlagiarismIsAlerted == Spec => []LinkedIsAlerted
<1>1. Correct => LinkedIsAlerted
  BY DEF Correct, Good, Stored
<1> QED  BY <1>1, NotifyCorrect, PTL

\* An answer of VerifySegments is remembered after its creator has been told,
\* with the same exception.
THEOREM DerivativesAreReported == Spec => []RememberedIsReported
<1>1. Correct => RememberedIsReported
  BY DEF Correct, Good, Stored
<1> QED  BY <1>1, NotifyCorrect, PTL

\* Without a fault a notice of plagiarism is under way or accepted.
THEOREM AlertsNotLost == Spec => []AlertUnderWayUnlessFault
<1>1. Correct => AlertUnderWayUnlessFault
  BY DEF Correct, Good, Stored, LinkedIsAlerted, NoneLost, AlertUnderWayUnlessFault, Notice
<1> QED  BY <1>1, NotifyCorrect, PTL

-----------------------------------------------------------------------------
(* What one request reports                                                *)

LEMMA FiniteHash == IsFiniteSet(Hash)
  BY NotifyAssumption, Zenon

\* Points and reports are added up over the contents.
LEMMA TotalOf ==
    ASSUME NEW n \in [Hash -> Nat]
    PROVE  SumFunction(n) = SumFunctionOnSet(n, Hash) /\ SumFunction(n) \in Nat
  BY FiniteHash, SumNat DEF SumFunction

LEMMA TotalNone == SumFunction(None) = 0
<1>1. \A h \in Hash : None[h] = 0
  BY DEF None
<1> QED  BY <1>1, NoneType, TotalOf, FiniteHash, SumOfZeros

LEMMA TotalExcept ==
    ASSUME NEW n \in [Hash -> Nat], NEW c \in Hash, NEW k \in Nat
    PROVE  SumFunction([n EXCEPT ![c] = k]) = SumFunction(n) - n[c] + k
<1> DEFINE m == [n EXCEPT ![c] = k]
<1>1. m \in [Hash -> Nat] /\ m[c] = k /\ \A h \in Hash : h # c => m[h] = n[h]
  OBVIOUS
<1> HIDE DEF m
<1>2. \A h \in Hash : n[h] \in Int /\ m[h] \in Int
  BY <1>1
<1>3. SumFunctionOnSet(m, Hash) = SumFunctionOnSet(n, Hash) - n[c] + m[c]
  BY <1>1, <1>2, FiniteHash, SumExcept
<1>4. SumFunction(m) = SumFunction(n) - n[c] + k
  BY <1>1, <1>3, TotalOf
<1> QED  BY <1>4 DEF m

\* Before the search nothing is found or told; after it, what is still to be
\* looked up and what was told is no more than was found.
Early == {"recall", "exact", "search"}

Fits(j) ==
    /\ j.at \in Early => j.todo = None /\ j.told = None
    /\ IF Segmented(j) THEN \A c \in Hash : j.told[c] + j.todo[c] <= 1
       ELSE SumFunction(j.told) + SumFunction(j.todo) <= Limit

AllFit == \A p \in Procs : Fits(job[p])

LEMMA FreshFits == ASSUME NEW j, j.todo = None, j.told = None PROVE Fits(j)
<1>1. \A c \in Hash : None[c] + None[c] <= 1
  BY DEF None
<1>2. SumFunction(None) + SumFunction(None) <= Limit
  BY TotalNone, Bounds
<1> QED  BY <1>1, <1>2 DEF Fits

LEMMA SameFits ==
    ASSUME NEW j, NEW k, Fits(j),
           k.hash = j.hash, k.full = j.full, k.todo = j.todo, k.told = j.told, k.at \in Early => j.at \in Early
    PROVE  Fits(k)
  BY DEF Fits, Segmented

\* One call moves on.
LEMMA FitsStep ==
    ASSUME TypeOK, AllFit, NEW p \in Procs, NEW j, Set(p, j), Fits(j)
    PROVE  AllFit'
  BY DEF TypeOK, AllFit, Set

LEMMA IdleFits == Fits(Idle)
  BY FreshFits DEF Idle

\* A call that begins, or goes on with Register after its check.
LEMMA NewFits ==
    ASSUME TypeOK, AllFit, NEW p \in Procs, NEW at, NEW h, NEW full, NEW m,
           \/ Set(p, [Idle EXCEPT !.at = at, !.hash = h])
           \/ Set(p, [Idle EXCEPT !.at = at, !.hash = h, !.full = full])
           \/ Set(p, [Idle EXCEPT !.at = at, !.hash = h, !.full = full, !.match = m])
    PROVE  AllFit'
<1> DEFINE i == [Idle EXCEPT !.at = at, !.hash = h]
           j == [Idle EXCEPT !.at = at, !.hash = h, !.full = full]
           k == [Idle EXCEPT !.at = at, !.hash = h, !.full = full, !.match = m]
<1>0. /\ i.todo = None /\ i.told = None /\ j.todo = None /\ j.told = None
      /\ k.todo = None /\ k.told = None
  BY DEF Idle
<1>3. Set(p, i) \/ Set(p, j) \/ Set(p, k)
  OBVIOUS
<1> HIDE DEF i, j, k
<1>1. PICK n : Set(p, n) /\ n.todo = None /\ n.told = None
  BY <1>0, <1>3
<1>2. Fits(n)
  BY <1>1, FreshFits
<1> QED  BY <1>1, <1>2, FitsStep

LEMMA AnswerFits ==
    ASSUME TypeOK, AllFit, NEW p \in Procs, NEW m, Answer(p, m)
    PROVE  AllFit'
<1>1. \/ Set(p, Idle)
      \/ Set(p, [Idle EXCEPT !.at = "adopt", !.hash = job[p].hash, !.full = job[p].full,
                             !.match = m])
  BY DEF Answer, End
<1>2. CASE Set(p, Idle)
  BY <1>2, IdleFits, FitsStep
<1> QED  BY <1>1, <1>2, NewFits

\* Each video is found once, and no more points than a search returns.
LEMMA VideosOnce ==
    ASSUME NEW h, NEW b, NEW n \in SegmentPoints(h, b), NEW c \in Hash
    PROVE  n[c] <= 1
<1>1. PICK S : n = Once(S)
  BY DEF SegmentPoints
<1>2. n[c] = 1 \/ n[c] = 0
  BY <1>1 DEF Once
<1> QED  BY <1>2

LEMMA PointsWithinLimit ==
    ASSUME TypeOK, NEW h, NEW n \in FuzzyPoints(h)
    PROVE  SumFunction(n) <= Limit
<1> DEFINE similar == {c \in Hash : Sim[h, c] > 0}
           f == [c \in Hash |-> PointsOf(c)]
           all == SumFunctionOnSet(f, similar)
<1>1. all \in Nat
  <2>1. \A c \in similar : f[c] \in Nat
    <3>1. frames \in [Hash -> Nat] /\ images \in [Hash -> Nat]
      BY Zenon DEF TypeOK
    <3>2. \A c \in Hash : PointsOf(c) \in Nat
      BY <3>1 DEF PointsOf
    <3> QED  BY <3>2
  <2>2. IsFiniteSet(similar)
    BY NotifyAssumption, FS_Subset
  <2> HIDE DEF f, similar
  <2> QED  BY <2>1, <2>2, SumNat
<1>2. SumFunction(n) = IF all < Limit THEN all ELSE Limit
  BY Zenon DEF FuzzyPoints
<1> HIDE DEF all
<1>3. (IF all < Limit THEN all ELSE Limit) <= Limit
  BY <1>1, Bounds
<1> QED  BY <1>2, <1>3, Zenon

\* The points found are what one request may report.
LEMMA FoundFits ==
    ASSUME TypeOK, AllFit, NEW p \in Procs, job[p] \in Job, job[p].at = "search",
           NEW n \in [Hash -> Nat], NEW b,
           IF Segmented(job[p]) THEN \A c \in Hash : n[c] <= 1 ELSE SumFunction(n) <= Limit,
           Set(p, [job[p] EXCEPT !.at = "candidates", !.todo = n, !.blur = b])
    PROVE  AllFit'
<1>1. job[p].told = None
  BY DEF AllFit, Fits, Early
<1> DEFINE j == [job[p] EXCEPT !.at = "candidates", !.todo = n, !.blur = b]
<1>2. /\ j.at = "candidates" /\ j.hash = job[p].hash /\ j.full = job[p].full
      /\ j.todo = n /\ j.told = None
  BY <1>1 DEF Job
<1> HIDE DEF j
<1>3. Segmented(j) <=> Segmented(job[p])
  BY <1>2 DEF Segmented
<1>4. Fits(j)
  <2>1. \A c \in Hash : None[c] + n[c] = n[c]
    BY DEF None
  <2>2. SumFunction(None) + SumFunction(n) = SumFunction(n)
    BY TotalNone, TotalOf
  <2> QED  BY <1>2, <1>3, <2>1, <2>2 DEF Fits, Early
<1> QED  BY <1>4, FitsStep DEF j

LEMMA SearchFits ==
    ASSUME TypeOK, AllFit, NEW p \in Procs, Search(p) \/ SearchFails(p)
    PROVE  AllFit'
<1>1. job[p] \in Job /\ job[p].hash \in Hash /\ job[p].at = "search"
  BY BusyJob DEF Search, SearchFails, Job
<1>2. CASE Search(p)
  <2> DEFINE b == Segmented(job[p]) /\ Blurred(job[p].hash)
             N == IF Segmented(job[p]) THEN SegmentPoints(job[p].hash, Crowded(job[p].hash))
                  ELSE FuzzyPoints(job[p].hash)
  <2>1. PICK n \in N : Set(p, [job[p] EXCEPT !.at = "candidates", !.todo = n, !.blur = b])
    BY <1>2, Zenon DEF Search
  <2>2. n \in [Hash -> Nat]
    BY <1>1, <2>1, PointsFoundType
  <2>3. IF Segmented(job[p]) THEN \A c \in Hash : n[c] <= 1 ELSE SumFunction(n) <= Limit
    BY <2>1, VideosOnce, PointsWithinLimit
  <2> HIDE DEF b, N
  <2> QED  BY <1>1, <2>1, <2>2, <2>3, FoundFits
<1>3. CASE SearchFails(p)
  <2>1. CASE Answer(p, NoMatch)
    BY <2>1, AnswerFits
  <2>2. ASSUME Segmented(job[p]), NEW n \in SegmentPoints(job[p].hash, TRUE),
               Set(p, [job[p] EXCEPT !.at = "candidates", !.todo = n, !.blur = TRUE])
        PROVE  AllFit'
    <3>1. n \in [Hash -> Nat]
      BY <1>1, <2>2, PointsFoundType
    <3>2. \A c \in Hash : n[c] <= 1
      BY <2>2, VideosOnce
    <3> QED  BY <1>1, <2>2, <3>1, <3>2, FoundFits
  <2> QED  BY <1>3, <2>1, <2>2, Zenon DEF SearchFails
<1> QED  BY <1>2, <1>3

\* Of a point looked up at most one match is told.
LEMMA CandidateFits ==
    ASSUME TypeOK, AllFit, NEW p \in Procs, NEW c \in Hash, Candidate(p, c)
    PROVE  AllFit'
<1>1. job[p] \in Job /\ job[p].at = "candidates" /\ Fits(job[p])
  BY BusyJob DEF Candidate, AllFit
<1> DEFINE a == job[p].todo
           b == job[p].told
           todo == [a EXCEPT ![c] = @ - 1]
           told == [b EXCEPT ![c] = @ + 1]
<1>2. a \in [Hash -> Nat] /\ b \in [Hash -> Nat] /\ a[c] > 0
  BY <1>1 DEF Candidate, Job
<1>4. \/ \E found : Set(p, [job[p] EXCEPT !.todo = todo, !.found = found, !.told = told])
      \/ Set(p, [job[p] EXCEPT !.todo = todo])
  <2>1. CASE Set(p, [job[p] EXCEPT !.todo[c] = @ - 1])
    BY <1>1, <2>1 DEF Job
  <2>2. ASSUME NEW hook \in BOOLEAN,
               Set(p, [job[p] EXCEPT !.todo[c] = @ - 1, !.told[c] = @ + 1,
                                     !.found = @ \cup {[top |-> c, hook |-> hook]}])
        PROVE  Set(p, [job[p] EXCEPT !.todo = todo, !.told = told,
                                     !.found = job[p].found \cup {[top |-> c, hook |-> hook]}])
    BY <1>1, <2>2 DEF Job
  <2>3. \A f : [job[p] EXCEPT !.todo = todo, !.told = told, !.found = f]
                 = [job[p] EXCEPT !.todo = todo, !.found = f, !.told = told]
    <3> HIDE DEF todo, told
    <3> QED  BY <1>1 DEF Job
  <2> HIDE DEF todo, told
  <2> QED  BY <2>1, <2>2, <2>3 DEF Candidate
<1>3. PICK found : \/ Set(p, [job[p] EXCEPT !.todo = todo, !.found = found, !.told = told])
                   \/ Set(p, [job[p] EXCEPT !.todo = todo])
  BY <1>4
<1> DEFINE j == [job[p] EXCEPT !.todo = todo, !.found = found, !.told = told]
           k == [job[p] EXCEPT !.todo = todo]
<1>5. /\ j.at = "candidates" /\ j.hash = job[p].hash /\ j.full = job[p].full
      /\ k.at = "candidates" /\ k.hash = job[p].hash /\ k.full = job[p].full
      /\ j.todo = todo /\ j.told = told /\ k.todo = todo /\ k.told = b
  <2> HIDE DEF todo, told
  <2> QED  BY <1>1 DEF Job
<1>6. /\ todo \in [Hash -> Nat] /\ told \in [Hash -> Nat]
      /\ SumFunction(todo) = SumFunction(a) - 1
      /\ SumFunction(told) = SumFunction(b) + 1
  <2>1. SumFunction(todo) = SumFunction(a) - a[c] + (a[c] - 1)
    <3>1. a[c] - 1 \in Nat
      BY <1>2
    <3> HIDE DEF a
    <3> QED  BY <1>2, <3>1, TotalExcept
  <2>2. SumFunction(told) = SumFunction(b) - b[c] + (b[c] + 1)
    <3>1. b[c] + 1 \in Nat
      BY <1>2
    <3> HIDE DEF b
    <3> QED  BY <1>2, <3>1, TotalExcept
  <2>3. SumFunction(a) \in Nat /\ SumFunction(b) \in Nat
    BY <1>2, TotalOf
  <2>4. a[c] \in Nat /\ b[c] \in Nat
    BY <1>2
  <2>5. todo \in [Hash -> Nat] /\ told \in [Hash -> Nat]
    BY <1>2
  <2> HIDE DEF a, b, todo, told
  <2> QED  BY <2>1, <2>2, <2>3, <2>4, <2>5
<1>7. \A d \in Hash : /\ told[d] + todo[d] = b[d] + a[d]
                      /\ b[d] + todo[d] <= b[d] + a[d]
                      /\ b[d] + a[d] \in Nat /\ b[d] + todo[d] \in Nat
  <2> HIDE DEF a, b
  <2> QED  BY <1>2
<1>8. SumFunction(a) \in Nat /\ SumFunction(b) \in Nat
  BY <1>2, TotalOf
<1>9. IF Segmented(job[p]) THEN \A d \in Hash : b[d] + a[d] <= 1
      ELSE SumFunction(b) + SumFunction(a) <= Limit
  BY <1>1 DEF Fits
<1> HIDE DEF a, b, todo, told, j, k
<1>13. (Segmented(j) <=> Segmented(job[p])) /\ (Segmented(k) <=> Segmented(job[p]))
  BY <1>5 DEF Segmented
<1>10. Fits(j)
  BY <1>5, <1>6, <1>7, <1>8, <1>9, <1>13 DEF Fits, Early
<1>11. Fits(k)
  BY <1>5, <1>6, <1>7, <1>8, <1>9, <1>13, Bounds DEF Fits, Early
<1>12. Set(p, j) \/ Set(p, k)
  BY <1>3 DEF j, k
<1> QED  BY <1>10, <1>11, <1>12, FitsStep

\* A call goes on with what it has found and told.
LEMMA MoveFits ==
    ASSUME TypeOK, AllFit, NEW p \in Procs, job[p] \in Job, NEW at, NEW m,
           at \in Early => job[p].at \in Early,
           \/ Set(p, [job[p] EXCEPT !.at = at])
           \/ Set(p, [job[p] EXCEPT !.at = at, !.match = m])
    PROVE  AllFit'
<1> DEFINE j == [job[p] EXCEPT !.at = at]
           k == [job[p] EXCEPT !.at = at, !.match = m]
<1>1. /\ j.at = at /\ j.hash = job[p].hash /\ j.full = job[p].full
      /\ j.todo = job[p].todo /\ j.told = job[p].told
      /\ k.at = at /\ k.hash = job[p].hash /\ k.full = job[p].full
      /\ k.todo = job[p].todo /\ k.told = job[p].told
  BY DEF Job
<1>2. Set(p, j) \/ Set(p, k)
  OBVIOUS
<1> HIDE DEF j, k
<1>3. Fits(j) /\ Fits(k)
  BY <1>1, SameFits DEF AllFit
<1> QED  BY <1>2, <1>3, FitsStep

LEMMA AllFitStep == TypeOK /\ AllFit /\ [Next]_vars => AllFit'
<1> SUFFICES ASSUME TypeOK, AllFit, [Next]_vars PROVE AllFit'
  OBVIOUS
<1> USE DEF Procs
<1>1. ASSUME NEW c \in Clients, NEW h \in Hash, Verify(c, h) PROVE AllFit'
  <2>1. PICK at : \/ Set(c, [Idle EXCEPT !.at = at, !.hash = h])
                  \/ Set(c, [Idle EXCEPT !.at = at, !.hash = h, !.full = TRUE])
    BY <1>1 DEF Verify
  <2> QED  BY <2>1, NewFits
<1>2. ASSUME NEW p \in Procs, Recall(p) PROVE AllFit'
  <2>1. job[p] \in Job /\ job[p].at \in Early
    BY <1>2, BusyJob DEF Recall, Early
  <2> QED  BY <1>2, <2>1, AnswerFits, MoveFits DEF Recall
<1>3. ASSUME NEW p \in Procs, LookUp(p) \/ Remember(p) PROVE AllFit'
  BY <1>3, AnswerFits DEF LookUp, Remember
<1>4. ASSUME NEW p \in Procs, LookUpMisses(p) PROVE AllFit'
  <2>1. job[p] \in Job /\ job[p].at \in Early
    BY <1>4, BusyJob DEF LookUpMisses, Early
  <2> QED  BY <1>4, <2>1, MoveFits, IdleFits, FitsStep DEF LookUpMisses, End
<1>5. ASSUME NEW p \in Procs, Conclude(p) PROVE AllFit'
  <2>1. job[p] \in Job
    BY <1>5, BusyJob DEF Conclude
  <2>2. "remember" \notin Early
    BY DEF Early
  <2>3. PICK m : \/ Answer(p, m)
                 \/ Set(p, [job[p] EXCEPT !.at = "remember", !.match = m])
    BY <1>5, Zenon DEF Conclude
  <2> QED  BY <2>1, <2>2, <2>3, AnswerFits, MoveFits
<1>6. ASSUME NEW w \in Workers, NEW h \in Hash, Begin(w, h) PROVE AllFit'
  <2>1. PICK at, full : Set(w, [Idle EXCEPT !.at = at, !.hash = h, !.full = full])
    BY <1>6 DEF Begin
  <2> QED  BY <2>1, NewFits
<1>7. ASSUME NEW w \in Workers, Adopt(w) PROVE AllFit'
  <2>1. job[w] \in Job /\ "save" \notin Early
    BY <1>7, BusyJob DEF Adopt, Early
  <2>2. PICK m : Set(w, [job[w] EXCEPT !.at = "save", !.match = m])
    BY <1>7 DEF Adopt
  <2> QED  BY <2>1, <2>2, MoveFits
<1>8. ASSUME NEW w \in Workers, Save(w) \/ SaveCache(w) \/ Index(w) \/ RegisterFails(w) PROVE AllFit'
  <2>1. job[w] \in Job /\ "index" \notin Early /\ "cache" \notin Early
    BY <1>8, BusyJob DEF Save, SaveCache, Index, RegisterFails, Early
  <2>2. PICK at \in {"cache", "index"} : Set(w, [job[w] EXCEPT !.at = at]) \/ Set(w, Idle)
    BY <1>8 DEF Save, SaveCache, Index, RegisterFails, End
  <2> QED  BY <2>1, <2>2, MoveFits, IdleFits, FitsStep
<1>9. ASSUME Crash PROVE AllFit'
  BY <1>9, IdleFits DEF Crash, AllFit
<1>10. ASSUME \/ \E h \in Hash : Expire(h)
              \/ \E n \in outbox : Deliver(n) \/ DeliverFails(n)
              \/ UNCHANGED vars
       PROVE AllFit'
  BY <1>10 DEF Expire, Deliver, DeliverFails, vars, AllFit
<1> QED
  BY <1>1, <1>2, <1>3, <1>4, <1>5, <1>6, <1>7, <1>8, <1>9, <1>10, SearchFits, CandidateFits
  DEF Next, RegisterStep, CheckStep

\* A request reports each video found once, and no more points than the search
\* of VerifyFuzzy returns.
THEOREM MatchesAreBounded == Spec => []MatchesPerRequest
<1>1. Init => AllFit
  BY IdleFits DEF Init, AllFit
<1>2. AllFit => MatchesPerRequest
  BY Zenon DEF AllFit, Fits, MatchesPerRequest
<1> QED  BY <1>1, <1>2, TypeCorrect, AllFitStep, PTL DEF Spec
=============================================================================
