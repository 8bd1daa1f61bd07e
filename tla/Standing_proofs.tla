--------------------------- MODULE Standing_proofs ---------------------------
(***************************************************************************)
(* Proofs about Standing, for any contents, addresses and requests: flags  *)
(* and publishers only grow, so what held when a request began still holds *)
(* at each of its reads.  The tables stay finite, which the counts of      *)
(* flags rest on.                                                          *)
(***************************************************************************)
EXTENDS Standing, FiniteSetTheorems, TLAPS

Finite ==
    /\ IsFiniteSet(rows)
    /\ IsFiniteSet(publishers)
    /\ \A h \in Hash : IsFiniteSet(flags[h])

\* Who reads, reads about a content.
Busy == \A r \in Requests : request[r].at # "idle" => request[r].hash \in Hash

LEMMA IdleType ==
    Idle \in [at : {"idle", "chain", "flags", "consensus", "whitelist",
                    "publisher", "publisherFlags", "answer"},
              hash : Hash \cup {NoHash}, answer : Answers]
  BY DEF Idle, NoAnswer, Answers

LEMMA FaultType == ASSUME TypeOK, Fault \/ UNCHANGED faults PROVE faults' \in 0..MaxFaults
  BY StandingAssumption DEF TypeOK, Fault

\* A request that reads is busy with a content, and has an answer so far.
LEMMA BusyRequest ==
    ASSUME TypeOK, NEW r \in Requests
    PROVE  /\ request[r].answer \in Answers
           /\ request[r].hash \in Hash \cup {NoHash}
  BY DEF TypeOK

\* The counts of the tables are numbers.
LEMMA FlagCountType ==
    ASSUME Finite, NEW h \in Hash
    PROVE  GetFlagCount(h) \in Nat
  BY FS_CardinalityType DEF Finite, GetFlagCount

LEMMA ConsensusType ==
    ASSUME Finite, NEW h \in Hash
    PROVE  GetConsensusCount(h) \in Nat
<1> DEFINE S == {k \in rows : k = h \/ Parent[k] = h}
           f == [k \in S |-> Creator[k]]
           T == {f[k] : k \in S}
<1>1. IsFiniteSet(S)
  BY FS_Subset DEF Finite
<1>2. f \in Surjection(S, T)
  BY DEF Surjection
<1>3. IsFiniteSet(T)
  BY <1>1, <1>2, FS_Surjection
<1>4. T = {Creator[k] : k \in S}
  OBVIOUS
<1> QED  BY <1>3, <1>4, FS_CardinalityType DEF GetConsensusCount

LEMMA JoinFinite ==
    ASSUME Finite, NEW h \in Hash
    PROVE  IsFiniteSet({x \in flags[h] \X publishers : WalletOf[x[1]] = WalletOf[x[2]]})
  BY FS_Product, FS_Subset DEF Finite

LEMMA PublisherFlagCountType ==
    ASSUME Finite, NEW h \in Hash
    PROVE  GetVerifiedPublisherFlagCount(h) \in Nat
  BY JoinFinite, FS_CardinalityType DEF GetVerifiedPublisherFlagCount

Request == [at : {"idle", "chain", "flags", "consensus", "whitelist",
                  "publisher", "publisherFlags", "answer"},
            hash : Hash \cup {NoHash}, answer : Answers]

\* A read that succeeds or fails keeps the type of the request.
LEMMA ReadType ==
    ASSUME TypeOK, NEW r \in Requests, NEW from,
           NEW to \in {"flags", "consensus", "whitelist", "publisher", "publisherFlags", "answer"},
           NEW result \in Answers, from # "idle", Read(r, from, to, result)
    PROVE  /\ request' \in [Requests -> Request]
           /\ \A q \in Requests : request'[q].at = "idle" => request'[q] = Idle
<1>1. request \in [Requests -> Request]
  BY DEF TypeOK, Request
<1>2. request' = [request EXCEPT ![r] = [request[r] EXCEPT !.at = to, !.answer = result]]
  BY <1>1 DEF Read
<1>3. [request[r] EXCEPT !.at = to, !.answer = result] \in Request
  BY <1>1 DEF Request
<1>4. [request[r] EXCEPT !.at = to, !.answer = result].at # "idle"
  BY <1>1 DEF Request
<1> QED  BY <1>1, <1>2, <1>3, <1>4 DEF TypeOK

LEMMA ReadOrFailType ==
    ASSUME TypeOK, NEW r \in Requests, NEW from,
           NEW to \in {"flags", "consensus", "whitelist", "publisher", "publisherFlags", "answer"},
           NEW result \in Answers, from # "idle", ReadOrFail(r, from, to, result)
    PROVE  TypeOK'
<1>1. [request[r].answer EXCEPT !.failed = TRUE] \in Answers
  BY BusyRequest DEF Answers
<1>2. /\ request' \in [Requests -> Request]
      /\ \A q \in Requests : request'[q].at = "idle" => request'[q] = Idle
  BY <1>1, ReadType DEF ReadOrFail
<1> QED  BY <1>2, FaultType DEF ReadOrFail, Read, TypeOK, tables, Request

LEMMA TypeStep == TypeOK /\ Finite /\ Busy /\ [Next]_vars => TypeOK'
<1> SUFFICES ASSUME TypeOK, Finite, Busy, [Next]_vars PROVE TypeOK'
  OBVIOUS
<1>1. ASSUME NEW h \in Hash, Register(h) PROVE TypeOK'
  BY <1>1 DEF Register, TypeOK
<1>2. ASSUME NEW h \in Hash, NEW a \in Address, FlagContent(h, a) PROVE TypeOK'
  BY <1>2 DEF FlagContent, TypeOK
<1>3. ASSUME NEW d \in Domains, NEW a \in Address, FetchFile(d, a) PROVE TypeOK'
  BY <1>3 DEF FetchFile, tables, TypeOK
<1>4. ASSUME NEW d \in Domains, SavePublisher(d) PROVE TypeOK'
  BY <1>4, FaultType DEF SavePublisher, TypeOK
<1>5. ASSUME NEW w \in Wallet, Whitelist(w) PROVE TypeOK'
  BY <1>5 DEF Whitelist, tables, TypeOK
<1>6. ASSUME NEW r \in Requests, NEW h \in Hash, Begin(r, h) PROVE TypeOK'
  <2> DEFINE was == [verified |-> \E a \in publishers : WalletOf[a] = WalletOf[Creator[h]],
                     flagged  |-> \E a \in flags[h], b \in publishers : WalletOf[a] = WalletOf[b]]
             new == [at |-> "chain", hash |-> h, answer |-> [NoAnswer EXCEPT !.was = was]]
  <2>1. request' = [request EXCEPT ![r] = new]
    BY <1>6 DEF Begin
  <2>2. was \in [verified : BOOLEAN, flagged : BOOLEAN]
    OBVIOUS
  <2> HIDE DEF was
  <2>3. [NoAnswer EXCEPT !.was = was] \in Answers
    BY <2>2 DEF NoAnswer, Answers
  <2>4. new \in Request /\ new.at # "idle"
    BY <2>3 DEF Request
  <2> HIDE DEF new
  <2>5. /\ request' \in [Requests -> Request]
        /\ \A q \in Requests : request'[q].at = "idle" => request'[q] = Idle
    BY <2>1, <2>4 DEF TypeOK, Request
  <2> QED  BY <1>6, <2>5 DEF Begin, TypeOK, tables, Request
<1>7. ASSUME NEW r \in Requests, CrossCheck(r) PROVE TypeOK'
  <2>1. [request[r].answer EXCEPT !.onChain = TRUE] \in Answers
    BY BusyRequest DEF Answers
  <2> QED  BY <1>7, <2>1, ReadOrFailType DEF CrossCheck
<1>8. ASSUME NEW r \in Requests, CountFlags(r) PROVE TypeOK'
  <2>1. GetFlagCount(request[r].hash) \in Nat
    BY <1>8, FlagCountType DEF CountFlags, ReadOrFail, Read, Busy
  <2>2. [request[r].answer EXCEPT !.flags = GetFlagCount(request[r].hash)] \in Answers
    BY <2>1, BusyRequest DEF Answers
  <2> QED  BY <1>8, <2>2, ReadOrFailType DEF CountFlags
<1>9. ASSUME NEW r \in Requests, CountConsensus(r) PROVE TypeOK'
  <2>1. GetConsensusCount(request[r].hash) \in Nat
    BY <1>9, ConsensusType DEF CountConsensus, ReadOrFail, Read, Busy
  <2>2. [request[r].answer EXCEPT !.consensus = GetConsensusCount(request[r].hash)] \in Answers
    BY <2>1, BusyRequest DEF Answers
  <2> QED  BY <1>9, <2>2, ReadOrFailType DEF CountConsensus
<1>10. ASSUME NEW r \in Requests, ResolveOnChain(r) PROVE TypeOK'
  <2>1. request[r].answer \in Answers
    BY BusyRequest
  <2>2. [request[r].answer EXCEPT !.verified = TRUE] \in Answers
    BY <2>1 DEF Answers
  <2>3. /\ request' \in [Requests -> Request]
        /\ \A q \in Requests : request'[q].at = "idle" => request'[q] = Idle
    BY <1>10, <2>1, <2>2, ReadType DEF ResolveOnChain
  <2> QED  BY <1>10, <2>3, FaultType DEF ResolveOnChain, Read, TypeOK, tables, Request
<1>11. ASSUME NEW r \in Requests, Resolve(r) PROVE TypeOK'
  <2>1. GetVerifiedPublisher(Creator[request[r].hash]) \in BOOLEAN
    BY DEF GetVerifiedPublisher
  <2>2. [request[r].answer EXCEPT !.verified = GetVerifiedPublisher(Creator[request[r].hash])]
          \in Answers
    BY <2>1, BusyRequest DEF Answers
  <2> QED  BY <1>11, <2>2, ReadOrFailType DEF Resolve
<1>12. ASSUME NEW r \in Requests, CountPublisherFlags(r) PROVE TypeOK'
  <2>1. GetVerifiedPublisherFlagCount(request[r].hash) \in Nat
    BY <1>12, PublisherFlagCountType DEF CountPublisherFlags, ReadOrFail, Read, Busy
  <2>2. [request[r].answer EXCEPT !.publisherFlags = GetVerifiedPublisherFlagCount(request[r].hash)]
          \in Answers
    BY <2>1, BusyRequest DEF Answers
  <2> QED  BY <1>12, <2>2, ReadOrFailType DEF CountPublisherFlags
<1>13. ASSUME NEW r \in Requests, Answer(r) PROVE TypeOK'
  BY <1>13, IdleType DEF Answer, tables, TypeOK
<1>14. ASSUME Crash PROVE TypeOK'
  BY <1>14, IdleType, FaultType DEF Crash, tables, TypeOK
<1>15. ASSUME UNCHANGED vars PROVE TypeOK'
  BY <1>15 DEF vars, tables, TypeOK
<1> QED
  BY <1>1, <1>2, <1>3, <1>4, <1>5, <1>6, <1>7, <1>8, <1>9, <1>10, <1>11, <1>12, <1>13,
     <1>14, <1>15 DEF Next, VerifyStep

LEMMA FiniteStep == TypeOK /\ Finite /\ [Next]_vars => Finite'
<1> SUFFICES ASSUME TypeOK, Finite, [Next]_vars PROVE Finite'
  OBVIOUS
<1>1. ASSUME NEW h \in Hash, Register(h) PROVE Finite'
  BY <1>1, FS_AddElement DEF Register, Finite
<1>2. ASSUME NEW h \in Hash, NEW a \in Address, FlagContent(h, a) PROVE Finite'
  BY <1>2, FS_AddElement DEF FlagContent, Finite, TypeOK
<1>3. ASSUME NEW d \in Domains, SavePublisher(d) PROVE Finite'
  BY <1>3, FS_AddElement DEF SavePublisher, Finite
<1>4. ASSUME UNCHANGED tables PROVE Finite'
  BY <1>4 DEF tables, Finite
<1> QED
  BY <1>1, <1>2, <1>3, <1>4
     DEF Next, VerifyStep, FetchFile, Whitelist, Begin, CrossCheck, CountFlags, CountConsensus,
         ResolveOnChain, Resolve, CountPublisherFlags, ReadOrFail, Read, Answer, Crash, vars

-----------------------------------------------------------------------------
(* What the tables say, and keep saying                                    *)

Verified(h) == \E a \in publishers : WalletOf[a] = WalletOf[Creator[h]]

Flagged(h) == \E a \in flags[h], b \in publishers : WalletOf[a] = WalletOf[b]

\* Some wallet was verified under two spellings.
Doubled == \E a, b \in publishers : a # b /\ WalletOf[a] = WalletOf[b]

LEMMA TablesGrow ==
    ASSUME TypeOK, [Next]_vars
    PROVE  /\ publishers \subseteq publishers'
           /\ \A h \in Hash : flags[h] \subseteq flags'[h]
<1>1. ASSUME NEW h \in Hash, NEW a \in Address, FlagContent(h, a)
      PROVE  \A g \in Hash : flags[g] \subseteq flags'[g]
  BY <1>1 DEF FlagContent, TypeOK
<1> QED
  BY <1>1
     DEF Next, VerifyStep, Register, FlagContent, SavePublisher, FetchFile, Whitelist, Begin,
         CrossCheck, CountFlags, CountConsensus, ResolveOnChain, Resolve, CountPublisherFlags,
         ReadOrFail, Read, Answer, Crash, vars, tables

LEMMA StandingKept ==
    ASSUME TypeOK, Finite, [Next]_vars, NEW h \in Hash
    PROVE  /\ Verified(h) => Verified(h)'
           /\ Flagged(h) => Flagged(h)'
           /\ Doubled => Doubled'
           /\ GetFlagCount(h) <= GetFlagCount(h)'
<1>1. GetFlagCount(h) <= GetFlagCount(h)'
  <2>1. IsFiniteSet(flags'[h])
    BY FiniteStep DEF Finite
  <2>2. flags[h] \subseteq flags'[h]
    BY TablesGrow
  <2> QED  BY <2>1, <2>2, FS_Subset DEF GetFlagCount
<1> QED  BY <1>1, TablesGrow DEF Verified, Flagged, Doubled

\* With every wallet verified under one spelling, a flag is counted at most once.
LEMMA JoinedOnce ==
    ASSUME Finite, NEW h \in Hash
    PROVE  GetVerifiedPublisherFlagCount(h) <= GetFlagCount(h) \/ Doubled
<1> SUFFICES ASSUME ~Doubled PROVE GetVerifiedPublisherFlagCount(h) <= GetFlagCount(h)
  OBVIOUS
<1> DEFINE X == {x \in flags[h] \X publishers : WalletOf[x[1]] = WalletOf[x[2]]}
           f == [x \in X |-> x[1]]
<1>1. f \in [X -> flags[h]]
  OBVIOUS
<1>2. \A x, y \in X : f[x] = f[y] => x = y
  BY DEF Doubled
<1>3. f \in Injection(X, flags[h])
  BY <1>1, <1>2 DEF Injection, IsInjective
<1>4. IsFiniteSet(flags[h])
  BY DEF Finite
<1> QED  BY <1>3, <1>4, FS_Injection DEF GetVerifiedPublisherFlagCount, GetFlagCount

LEMMA FlaggedCounts ==
    ASSUME Finite, NEW h \in Hash, Flagged(h)
    PROVE  GetVerifiedPublisherFlagCount(h) > 0
<1>1. PICK a \in flags[h], b \in publishers : WalletOf[a] = WalletOf[b]
  BY DEF Flagged
<1>2. <<a, b>> \in {x \in flags[h] \X publishers : WalletOf[x[1]] = WalletOf[x[2]]}
  BY <1>1
<1> QED
  BY <1>2, JoinFinite, FS_EmptySet, FS_CardinalityType DEF GetVerifiedPublisherFlagCount

LEMMA VerifiedFound ==
    ASSUME TypeOK, NEW h \in Hash, Verified(h)
    PROVE  GetVerifiedPublisher(Creator[h])
  BY StandingAssumption DEF Verified, GetVerifiedPublisher, Written, TypeOK

LEMMA DoubledWritten ==
    ASSUME TypeOK, Finite, Doubled
    PROVE  \E w \in Wallet : Cardinality(publishers \cap Written(w)) > 1
<1>1. PICK a, b \in publishers : a # b /\ WalletOf[a] = WalletOf[b]
  BY DEF Doubled
<1>2. a \in Address /\ b \in Address /\ WalletOf[a] \in Wallet
  BY StandingAssumption DEF TypeOK
<1> DEFINE S == publishers \cap Written(WalletOf[a])
<1>3. a \in S /\ b \in S
  BY <1>1, <1>2 DEF Written
<1>4. IsFiniteSet(S)
  BY FS_Subset DEF Finite
<1>5. {a, b} \subseteq S
  BY <1>3
<1>6. IsFiniteSet({a, b}) /\ Cardinality({a, b}) = 2
  <2>1. IsFiniteSet({a}) /\ Cardinality({a}) = 1
    BY FS_Singleton
  <2>2. {a, b} = {a} \cup {b}
    OBVIOUS
  <2>3. IsFiniteSet({a} \cup {b}) /\ Cardinality({a} \cup {b}) = Cardinality({a}) + 1
    BY <1>1, <2>1, FS_AddElement
  <2> QED  BY <2>1, <2>2, <2>3
<1>7. Cardinality(S) > 1
  BY <1>4, <1>5, <1>6, FS_Subset, FS_CardinalityType
<1> QED  BY <1>2, <1>7

-----------------------------------------------------------------------------
(* What a request has read                                                 *)

\* What held when the request began holds now; what it has read of it agrees,
\* unless a read failed.
Sound(q) ==
    q.at # "idle" =>
        /\ q.hash \in Hash
        /\ q.answer.was.verified => Verified(q.hash)
        /\ q.answer.was.flagged => Flagged(q.hash)
        /\ q.at # "answer" => q.answer.publisherFlags = 0
        /\ q.at \in {"publisherFlags", "answer"} /\ q.answer.was.verified
              => q.answer.verified \/ q.answer.failed
        /\ q.at = "answer" /\ q.answer.was.flagged
              => q.answer.publisherFlags > 0 \/ q.answer.failed
        /\ q.answer.publisherFlags <= GetFlagCount(q.hash) \/ Doubled

Gathered == \A r \in Requests : Sound(request[r])

LEMMA GatheredBusy == Gathered => Busy
  BY DEF Gathered, Sound, Busy

LEMMA SoundStays ==
    ASSUME TypeOK, Finite, [Next]_vars, NEW q \in Request, Sound(q)
    PROVE  Sound(q)'
<1> SUFFICES ASSUME q.at # "idle" PROVE Sound(q)'
  BY DEF Sound
<1>1. q.hash \in Hash /\ q.answer.publisherFlags \in Nat
  BY DEF Sound, Request, Answers
<1>2. GetFlagCount(q.hash) \in Nat /\ GetFlagCount(q.hash)' \in Nat
  BY <1>1, FlagCountType, FiniteStep, FS_CardinalityType DEF GetFlagCount, Finite
<1>3. /\ Verified(q.hash) => Verified(q.hash)'
      /\ Flagged(q.hash) => Flagged(q.hash)'
      /\ Doubled => Doubled'
      /\ GetFlagCount(q.hash) <= GetFlagCount(q.hash)'
  BY <1>1, StandingKept
<1> QED  BY <1>1, <1>2, <1>3 DEF Sound

LEMMA GatheredStep ==
    ASSUME TypeOK, Finite, Gathered, [Next]_vars, NEW r \in Requests, NEW q \in Request,
           request' = [request EXCEPT ![r] = q], Sound(q)
    PROVE  Gathered'
<1>1. Sound(q)'
  BY SoundStays
<1>2. \A s \in Requests \ {r} : Sound(request[s])'
  BY SoundStays DEF Gathered, TypeOK, Request
<1>3. request'[r] = q
  BY DEF TypeOK
<1> QED  BY <1>1, <1>2, <1>3 DEF Gathered

LEMMA GatheredSame ==
    ASSUME TypeOK, Finite, Gathered, [Next]_vars, UNCHANGED request
    PROVE  Gathered'
  BY SoundStays DEF Gathered, TypeOK, Request

\* A read, failed or not, of which the result is sound.
LEMMA SoundRead ==
    ASSUME TypeOK, Finite, Gathered, [Next]_vars, NEW r \in Requests,
           NEW from, NEW to, NEW result, from # "idle",
           to \in {"flags", "consensus", "whitelist", "publisher", "publisherFlags", "answer"},
           result \in Answers, Read(r, from, to, result),
           Sound([request[r] EXCEPT !.at = to, !.answer = result])
    PROVE  Gathered'
<1> DEFINE q == [request[r] EXCEPT !.at = to, !.answer = result]
<1>1. request[r] \in Request
  BY DEF TypeOK, Request
<1>2. q \in Request
  BY <1>1 DEF Request
<1>3. request' = [request EXCEPT ![r] = q]
  BY DEF Read, TypeOK
<1> HIDE DEF q
<1>4. \A k \in Request : k = q => Sound(k)
  BY DEF q
<1> QED  BY <1>2, <1>3, <1>4, GatheredStep

\* A read that neither the publisher nor his flags depend on.
LEMMA CountKept ==
    ASSUME TypeOK, Finite, Gathered, [Next]_vars, NEW r \in Requests,
           NEW from \in {"chain", "flags", "consensus"},
           NEW to \in {"flags", "consensus", "whitelist"}, NEW result \in Answers,
           result.was = request[r].answer.was,
           result.publisherFlags = request[r].answer.publisherFlags,
           ReadOrFail(r, from, to, result)
    PROVE  Gathered'
<1> DEFINE unread == [request[r].answer EXCEPT !.failed = TRUE]
<1>1. /\ unread \in Answers
      /\ unread.was = request[r].answer.was
      /\ unread.publisherFlags = request[r].answer.publisherFlags
  BY BusyRequest DEF Answers
<1>2. Read(r, from, to, result) \/ Read(r, from, to, unread)
  BY DEF ReadOrFail
<1>3. request[r].at = from /\ request[r] \in Request
  BY <1>2 DEF Read, TypeOK, Request
<1>4. ASSUME NEW x \in Answers, x.was = request[r].answer.was,
             x.publisherFlags = request[r].answer.publisherFlags
      PROVE  Sound([request[r] EXCEPT !.at = to, !.answer = x])
  BY <1>3, <1>4 DEF Gathered, Sound, Request
<1> HIDE DEF unread
<1>5. CASE Read(r, from, to, result)
  BY <1>4, <1>5, SoundRead
<1>6. CASE Read(r, from, to, unread)
  BY <1>1, <1>4, <1>6, SoundRead
<1> QED  BY <1>2, <1>5, <1>6

LEMMA GatheredNext == TypeOK /\ Finite /\ Gathered /\ [Next]_vars => Gathered'
<1> SUFFICES ASSUME TypeOK, Finite, Gathered, [Next]_vars PROVE Gathered'
  OBVIOUS
<1> DEFINE a(r) == request[r].answer
<1>1. ASSUME NEW r \in Requests
      PROVE  a(r) \in Answers /\ [a(r) EXCEPT !.failed = TRUE] \in Answers
  BY BusyRequest DEF Answers
<1>2. ASSUME NEW r \in Requests, NEW h \in Hash, Begin(r, h) PROVE Gathered'
  <2> DEFINE was == [verified |-> \E b \in publishers : WalletOf[b] = WalletOf[Creator[h]],
                     flagged  |-> \E b \in flags[h], c \in publishers : WalletOf[b] = WalletOf[c]]
             q == [at |-> "chain", hash |-> h, answer |-> [NoAnswer EXCEPT !.was = was]]
  <2>1. request' = [request EXCEPT ![r] = q]
    BY <1>2 DEF Begin
  <2>2. /\ was \in [verified : BOOLEAN, flagged : BOOLEAN]
        /\ was.verified => Verified(h)
        /\ was.flagged => Flagged(h)
    BY DEF Verified, Flagged
  <2> HIDE DEF was
  <2>3. [NoAnswer EXCEPT !.was = was] \in Answers
    BY <2>2 DEF NoAnswer, Answers
  <2>4. q \in Request
    BY <2>3 DEF Request
  <2>5. q.answer.publisherFlags = 0 /\ q.answer.was = was
    BY DEF NoAnswer
  <2>6. GetFlagCount(h) \in Nat
    BY FlagCountType
  <2>7. Sound(q)
    BY <2>2, <2>5, <2>6 DEF Sound
  <2> HIDE DEF q
  <2>8. \A k \in Request : k = q => Sound(k)
    BY <2>7
  <2> QED  BY <2>1, <2>4, <2>8, GatheredStep
<1>3. ASSUME NEW r \in Requests, CrossCheck(r) \/ CountFlags(r) \/ CountConsensus(r)
      PROVE  Gathered'
  <2>1. CASE CrossCheck(r)
    <3> DEFINE result == [a(r) EXCEPT !.onChain = TRUE]
    <3>1. /\ result \in Answers
          /\ result.was = a(r).was /\ result.publisherFlags = a(r).publisherFlags
      BY <1>1 DEF Answers
    <3>2. ReadOrFail(r, "chain", "flags", result)
      BY <2>1 DEF CrossCheck
    <3> HIDE DEF result
    <3> QED  BY <3>1, <3>2, CountKept
  <2>2. CASE CountFlags(r)
    <3> DEFINE result == [a(r) EXCEPT !.flags = GetFlagCount(request[r].hash)]
    <3>1. GetFlagCount(request[r].hash) \in Nat
      BY <2>2, GatheredBusy, FlagCountType DEF CountFlags, ReadOrFail, Read, Busy
    <3>2. /\ result \in Answers
          /\ result.was = a(r).was /\ result.publisherFlags = a(r).publisherFlags
      BY <1>1, <3>1 DEF Answers
    <3>3. ReadOrFail(r, "flags", "consensus", result)
      BY <2>2 DEF CountFlags
    <3> HIDE DEF result
    <3> QED  BY <3>2, <3>3, CountKept
  <2>3. CASE CountConsensus(r)
    <3> DEFINE result == [a(r) EXCEPT !.consensus = GetConsensusCount(request[r].hash)]
    <3>1. GetConsensusCount(request[r].hash) \in Nat
      BY <2>3, GatheredBusy, ConsensusType DEF CountConsensus, ReadOrFail, Read, Busy
    <3>2. /\ result \in Answers
          /\ result.was = a(r).was /\ result.publisherFlags = a(r).publisherFlags
      BY <1>1, <3>1 DEF Answers
    <3>3. ReadOrFail(r, "consensus", "whitelist", result)
      BY <2>3 DEF CountConsensus
    <3> HIDE DEF result
    <3> QED  BY <3>2, <3>3, CountKept
  <2> QED  BY <1>3, <2>1, <2>2, <2>3
<1>4. ASSUME NEW r \in Requests, ResolveOnChain(r) PROVE Gathered'
  <2>1. PICK to \in {"publisherFlags", "publisher"}, result \in Answers :
           /\ Read(r, "whitelist", to, result)
           /\ result.was = a(r).was /\ result.publisherFlags = a(r).publisherFlags
           /\ to = "publisherFlags" => result.verified
    <3>1. [a(r) EXCEPT !.verified = TRUE] \in Answers
      BY <1>1 DEF Answers
    <3> QED  BY <1>1, <1>4, <3>1 DEF ResolveOnChain, Answers
  <2>2. Sound([request[r] EXCEPT !.at = to, !.answer = result])
    BY <2>1 DEF Gathered, Sound, Read, TypeOK
  <2> QED  BY <2>1, <2>2, SoundRead
<1>5. ASSUME NEW r \in Requests, Resolve(r) PROVE Gathered'
  <2>1. request[r].hash \in Hash
    BY <1>5, GatheredBusy DEF Resolve, ReadOrFail, Read, Busy
  <2>2. PICK result \in Answers :
           /\ Read(r, "publisher", "publisherFlags", result)
           /\ result.was = a(r).was /\ result.publisherFlags = a(r).publisherFlags
           /\ Verified(request[r].hash) => result.verified \/ result.failed
    <3>1. GetVerifiedPublisher(Creator[request[r].hash]) \in BOOLEAN
      BY DEF GetVerifiedPublisher
    <3>2. Verified(request[r].hash) => GetVerifiedPublisher(Creator[request[r].hash])
      BY <2>1, VerifiedFound
    <3> QED  BY <1>1, <1>5, <3>1, <3>2 DEF Resolve, ReadOrFail, Answers
  <2>3. Sound([request[r] EXCEPT !.at = "publisherFlags", !.answer = result])
    BY <2>2 DEF Gathered, Sound, Read, TypeOK
  <2> QED  BY <2>2, <2>3, SoundRead
<1>6. ASSUME NEW r \in Requests, CountPublisherFlags(r) PROVE Gathered'
  <2>1. request[r].hash \in Hash
    BY <1>6, GatheredBusy DEF CountPublisherFlags, ReadOrFail, Read, Busy
  <2>2. PICK result \in Answers :
           /\ Read(r, "publisherFlags", "answer", result)
           /\ result.was = a(r).was
           /\ result.verified = a(r).verified
           /\ a(r).failed => result.failed
           /\ \/ result.publisherFlags = GetVerifiedPublisherFlagCount(request[r].hash)
              \/ result.publisherFlags = a(r).publisherFlags /\ result.failed
    <3>1. GetVerifiedPublisherFlagCount(request[r].hash) \in Nat
      BY <2>1, PublisherFlagCountType
    <3> QED  BY <1>1, <1>6, <3>1 DEF CountPublisherFlags, ReadOrFail, Answers
  <2>3. /\ Flagged(request[r].hash) => GetVerifiedPublisherFlagCount(request[r].hash) > 0
        /\ GetVerifiedPublisherFlagCount(request[r].hash) <= GetFlagCount(request[r].hash) \/ Doubled
    BY <2>1, FlaggedCounts, JoinedOnce
  <2>4. Sound([request[r] EXCEPT !.at = "answer", !.answer = result])
    BY <2>2, <2>3 DEF Gathered, Sound, Read, TypeOK
  <2> QED  BY <2>2, <2>4, SoundRead
<1>7. ASSUME NEW r \in Requests, Answer(r) PROVE Gathered'
  <2>1. Idle \in Request /\ Sound(Idle)
    BY IdleType DEF Idle, Request, Sound
  <2> QED  BY <1>7, <2>1, GatheredStep DEF Answer
<1>8. ASSUME Crash PROVE Gathered'
  BY <1>8 DEF Crash, Gathered, Sound, Idle
<1>9. ASSUME UNCHANGED request PROVE Gathered'
  BY <1>9, GatheredSame
<1> QED
  BY <1>2, <1>3, <1>4, <1>5, <1>6, <1>7, <1>8, <1>9
     DEF Next, VerifyStep, Register, FlagContent, FetchFile, SavePublisher, Whitelist, vars

LEMMA InitCorrect == Init => TypeOK /\ Finite /\ Gathered
<1> SUFFICES ASSUME Init PROVE TypeOK /\ Finite /\ Gathered
  OBVIOUS
<1>1. TypeOK
  BY IdleType, StandingAssumption DEF Init, TypeOK
<1>2. Finite
  BY StandingAssumption, FS_EmptySet DEF Init, Finite
<1>3. Gathered
  BY DEF Init, Gathered, Sound, Idle
<1> QED  BY <1>1, <1>2, <1>3

LEMMA StandingCorrect == Spec => [](TypeOK /\ Finite /\ Gathered)
  BY InitCorrect, TypeStep, FiniteStep, GatheredNext, GatheredBusy, PTL DEF Spec

\* The tables and the requests keep their types.
THEOREM TypeCorrect == Spec => []TypeOK
  BY StandingCorrect, PTL

\* A publisher that proved its domain before a request came is answered as such,
\* if every read of the request succeeded.
THEOREM VerifiedStays == Spec => []VerifiedOnceSaved
<1>1. TypeOK /\ Gathered => VerifiedOnceSaved
  BY DEF Gathered, Sound, VerifiedOnceSaved, Answered
<1> QED  BY <1>1, StandingCorrect, PTL

\* A content flagged by a publisher before the request came loses confidence,
\* if every read of the request succeeded.
THEOREM FlaggedContentsLose == Spec => []FlaggedLosesConfidence
<1>1. TypeOK /\ Gathered => FlaggedLosesConfidence
  BY DEF Gathered, Sound, FlaggedLosesConfidence, Answered, Confidence
<1> QED  BY <1>1, StandingCorrect, PTL

\* An answer has more flags of publishers than flags only if flags were raised
\* between the two counts, or a wallet is verified under two spellings.
THEOREM FlagsOfPublishersCounted == Spec => []PublisherFlagsAmongFlags
<1>1. TypeOK /\ Finite /\ Gathered => PublisherFlagsAmongFlags
  <2> SUFFICES ASSUME TypeOK, Finite, Gathered, NEW r \in Requests, Answered(r),
                      request[r].answer.publisherFlags > request[r].answer.flags
               PROVE  \/ GetFlagCount(request[r].hash) > request[r].answer.flags
                      \/ \E w \in Wallet : Cardinality(publishers \cap Written(w)) > 1
    BY DEF PublisherFlagsAmongFlags
  <2>1. request[r].hash \in Hash
    BY GatheredBusy DEF Answered, Busy
  <2>2. request[r].answer.publisherFlags \in Nat /\ request[r].answer.flags \in Nat
    BY DEF TypeOK, Answers
  <2>3. GetFlagCount(request[r].hash) \in Nat
    BY <2>1, FlagCountType
  <2>4. request[r].answer.publisherFlags <= GetFlagCount(request[r].hash) \/ Doubled
    BY DEF Gathered, Sound, Answered
  <2> QED  BY <2>2, <2>3, <2>4, DoubledWritten
<1> QED  BY <1>1, StandingCorrect, PTL
=============================================================================
