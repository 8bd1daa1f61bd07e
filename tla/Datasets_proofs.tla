--------------------------- MODULE Datasets_proofs ---------------------------
(***************************************************************************)
(* Proofs about Unlock and Datasets, for any number of transactions,       *)
(* clients, contents and faults.  Unlock first: a transaction is marked    *)
(* before any request that names it may answer.  Then the composition of   *)
(* quotes and unlocking: it implements Unlock, so that what is proved of   *)
(* UnlockDataset alone carries over; what was quoted stays on offer, adds  *)
(* up and is not cut short by the limits of the searches; and a payment    *)
(* that is marked buys all of it unless a fault hits a request of its own. *)
(***************************************************************************)
EXTENDS Datasets, Sums, FiniteSetTheorems, SequenceTheorems, TLAPS

\* UnlockDataset keeps the table, the requests and the counters in their types.
THEOREM TypeCorrect == Spec => []TypeOK
<1>1. Init => TypeOK
  BY ClientAssumption DEF Init, TypeOK, Idle
<1>2. TypeOK /\ [Next]_vars => TypeOK'
  <2> SUFFICES ASSUME TypeOK, [Next]_vars PROVE TypeOK'
    OBVIOUS
  <2> USE ClientAssumption DEF TypeOK, Idle
  <2>1. CASE \E c \in Clients, t \in Tx : VerifyPayment(c, t)
    BY <2>1 DEF VerifyPayment
  <2>2. CASE \E c \in Clients, t \in Tx : Refuse(c, t)
    BY <2>2 DEF Refuse, vars
  <2>3. CASE \E c \in Clients : QueryUrls(c) \/ QueryCut(c)
    BY <2>3 DEF QueryUrls, QueryCut, Go, Fault
  <2>4. CASE \E c \in Clients : MarkUsed(c)
    <3>1. \A t \in Tx : Cardinality(InProgress(t)) \in Nat
      BY FS_Subset, FS_CardinalityType DEF InProgress
    <3> QED  BY <2>4, <3>1 DEF MarkUsed, Go
  <2>5. CASE \E c \in Clients : Answer(c)
    BY <2>5 DEF Answer, End
  <2>6. CASE \E c \in Clients : RequestFails(c)
    BY <2>6 DEF RequestFails, Fault, End
  <2>7. CASE Crash \/ FailsElsewhere
    BY <2>7 DEF Crash, FailsElsewhere, Fault
  <2>8. CASE UNCHANGED vars
    BY <2>8 DEF vars
  <2> QED
    BY <2>1, <2>2, <2>3, <2>4, <2>5, <2>6, <2>7, <2>8 DEF Next
<1> QED  BY <1>1, <1>2, PTL DEF Spec
-----------------------------------------------------------------------------
(* Every answer comes after the insert                                     *)

Redeemed ==
    /\ AnsweredIsUsed
    /\ \A c \in Clients : request[c].at = "answer" => request[c].tx \in used

LEMMA RedeemedStep == TypeOK /\ Redeemed /\ [Next]_vars => Redeemed'
<1> SUFFICES ASSUME TypeOK, Redeemed, [Next]_vars PROVE Redeemed'
  OBVIOUS
<1> USE DEF TypeOK, Redeemed, AnsweredIsUsed, Idle
<1>1. CASE \E c \in Clients, t \in Tx : VerifyPayment(c, t)
  BY <1>1 DEF VerifyPayment
<1>2. CASE \E c \in Clients, t \in Tx : Refuse(c, t)
  BY <1>2 DEF Refuse, vars
<1>3. CASE \E c \in Clients : QueryUrls(c) \/ QueryCut(c)
  BY <1>3 DEF QueryUrls, QueryCut, Go
<1>4. CASE \E c \in Clients : MarkUsed(c)
  BY <1>4 DEF MarkUsed, Go
<1>5. CASE \E c \in Clients : Answer(c)
  BY <1>5 DEF Answer, End
<1>6. CASE \E c \in Clients : RequestFails(c)
  BY <1>6 DEF RequestFails, End
<1>7. CASE Crash \/ FailsElsewhere
  BY <1>7 DEF Crash, FailsElsewhere
<1>8. CASE UNCHANGED vars
  BY <1>8 DEF vars
<1> QED
  BY <1>1, <1>2, <1>3, <1>4, <1>5, <1>6, <1>7, <1>8 DEF Next

LEMMA RedeemedCorrect == Spec => []Redeemed
<1>1. Init => Redeemed
  BY DEF Init, Redeemed, AnsweredIsUsed, Idle
<1> QED  BY <1>1, RedeemedStep, TypeCorrect, PTL DEF Spec

\* Once UnlockDataset has answered for a transaction, the transaction is in
\* used_transactions, across failures and restarts.
THEOREM AnsweredOnlyIfUsed == Spec => []AnsweredIsUsed
<1>1. Redeemed => AnsweredIsUsed
  BY DEF Redeemed
<1> QED  BY <1>1, RedeemedCorrect, PTL
-----------------------------------------------------------------------------
(* Whoever redeems a payment was there when it was first marked            *)

LEMMA ClientsFinite ==
    \A S \in SUBSET Clients : IsFiniteSet(S) /\ Cardinality(S) \in Nat
  BY ClientAssumption, FS_Subset, FS_CardinalityType

\* Requests leave a transaction, and none joins it once it is used.
LEMMA RaceShrinks ==
    ASSUME TypeOK, NoReplayOnceMarked, NEW t \in used,
           InProgress(t)' \subseteq InProgress(t),
           unlocked'[t] = unlocked[t], racing'[t] = racing[t]
    PROVE  unlocked'[t] + Cardinality(InProgress(t)') <= racing'[t]
<1>1. t \in Tx /\ InProgress(t) \in SUBSET Clients
  BY DEF InProgress, TypeOK
<1>2. IsFiniteSet(InProgress(t)) /\ Cardinality(InProgress(t)) \in Nat
  BY <1>1, ClientsFinite
<1>3. /\ Cardinality(InProgress(t)') \in Nat
      /\ Cardinality(InProgress(t)') <= Cardinality(InProgress(t))
  BY <1>2, FS_Subset, FS_CardinalityType
<1>4. unlocked[t] \in Nat /\ racing[t] \in Nat
  BY <1>1 DEF TypeOK
<1> QED  BY <1>2, <1>3, <1>4 DEF NoReplayOnceMarked

LEMMA NoReplayStep ==
    TypeOK /\ Redeemed /\ NoReplayOnceMarked /\ [Next]_vars => NoReplayOnceMarked'
<1> SUFFICES ASSUME TypeOK, Redeemed, NoReplayOnceMarked, [Next]_vars,
                    NEW t \in used'
             PROVE  unlocked'[t] + Cardinality(InProgress(t)') <= racing'[t]
  BY DEF NoReplayOnceMarked
<1>1. CASE \E c \in Clients, u \in Tx : VerifyPayment(c, u)
  <2>1. t \in used /\ InProgress(t)' \subseteq InProgress(t)
    BY <1>1 DEF VerifyPayment, Redeemable, InProgress, TypeOK
  <2> QED  BY <1>1, <2>1, RaceShrinks DEF VerifyPayment
<1>2. CASE UNCHANGED vars \/ \E c \in Clients, u \in Tx : Refuse(c, u)
  <2>1. UNCHANGED vars
    BY <1>2 DEF Refuse
  <2>2. InProgress(t)' = InProgress(t)
    BY <2>1 DEF InProgress, vars
  <2> QED  BY <2>1, <2>2, RaceShrinks DEF vars
<1>3. CASE \E c \in Clients : QueryUrls(c) \/ QueryCut(c)
  <2>1. InProgress(t)' \subseteq InProgress(t)
    BY <1>3 DEF QueryUrls, QueryCut, Go, InProgress, TypeOK, Idle
  <2> QED  BY <1>3, <2>1, RaceShrinks DEF QueryUrls, QueryCut
<1>4. CASE \E c \in Clients : MarkUsed(c)
  <2>1. PICK c \in Clients : MarkUsed(c)
    BY <1>4
  <2>2. InProgress(t)' = InProgress(t)
    BY <2>1 DEF MarkUsed, Go, InProgress, TypeOK, Idle
  <2>3. CASE t \in used
    <3>1. racing'[t] = racing[t] /\ unlocked'[t] = unlocked[t]
      BY <2>1, <2>3 DEF MarkUsed, TypeOK
    <3> QED  BY <2>2, <2>3, <3>1, RaceShrinks
  <2>4. CASE t \notin used
    <3>1. t = request[c].tx /\ t \in Tx
      BY <2>1, <2>4 DEF MarkUsed, Go, TypeOK, Idle
    <3>2. racing'[t] = Cardinality(InProgress(t))
      BY <2>1, <2>4, <3>1 DEF MarkUsed, TypeOK
    <3>3. unlocked'[t] = 0
      BY <2>1, <2>4, <3>1 DEF MarkUsed, Redeemed, AnsweredIsUsed, TypeOK
    <3>4. Cardinality(InProgress(t)) \in Nat
      BY ClientsFinite DEF InProgress
    <3> QED  BY <2>2, <3>2, <3>3, <3>4
  <2> QED  BY <2>3, <2>4
<1>5. CASE \E c \in Clients : Answer(c)
  <2>1. PICK c \in Clients : Answer(c)
    BY <1>5
  <2>2. t \in used /\ t \in Tx /\ racing'[t] = racing[t]
    BY <2>1 DEF Answer, TypeOK
  <2>3. CASE t # request[c].tx
    <3>1. InProgress(t)' \subseteq InProgress(t)
      BY <2>1, <2>2, ClientAssumption DEF Answer, End, InProgress, TypeOK, Idle
    <3>2. unlocked'[t] = unlocked[t]
      BY <2>1, <2>2, <2>3 DEF Answer, TypeOK
    <3> QED  BY <2>2, <3>1, <3>2, RaceShrinks
  <2>4. CASE t = request[c].tx
    <3>1. InProgress(t)' = InProgress(t) \ {c} /\ c \in InProgress(t)
      BY <2>1, <2>2, <2>4, ClientAssumption DEF Answer, End, InProgress, TypeOK, Idle
    <3>2. InProgress(t) \in SUBSET Clients
      BY DEF InProgress
    <3>3. /\ Cardinality(InProgress(t)) \in Nat
          /\ Cardinality(InProgress(t)') = Cardinality(InProgress(t)) - 1
      BY <3>1, <3>2, ClientsFinite, FS_RemoveElement
    <3>4. unlocked'[t] = unlocked[t] + 1 /\ unlocked[t] \in Nat /\ racing[t] \in Nat
      BY <2>1, <2>2, <2>4 DEF Answer, TypeOK
    <3> QED  BY <2>2, <3>3, <3>4 DEF NoReplayOnceMarked
  <2> QED  BY <2>3, <2>4
<1>6. CASE Crash \/ FailsElsewhere \/ \E c \in Clients : RequestFails(c)
  <2>1. t \in used /\ unlocked'[t] = unlocked[t] /\ racing'[t] = racing[t]
    BY <1>6 DEF Crash, FailsElsewhere, RequestFails
  <2>2. InProgress(t)' \subseteq InProgress(t)
    BY <1>6, <2>1, ClientAssumption
       DEF Crash, FailsElsewhere, RequestFails, End, InProgress, TypeOK, Idle
  <2> QED  BY <2>1, <2>2, RaceShrinks
<1> QED
  BY <1>1, <1>2, <1>3, <1>4, <1>5, <1>6 DEF Next

\* UnlockDataset redeems a payment only for requests that were in progress when it
\* was first marked: whoever comes later, or again, is refused.
THEOREM MarkedIsNotReplayed == Spec => []NoReplayOnceMarked
<1>1. Init => NoReplayOnceMarked
  BY DEF Init, NoReplayOnceMarked
<1> QED  BY <1>1, NoReplayStep, TypeCorrect, RedeemedCorrect, PTL DEF Spec

-----------------------------------------------------------------------------
(* The composition with quotes implements Unlock                          *)

LEMMA UnlockStep == [DatasetNext]_datasetVars => [Next]_vars
<1> SUFFICES ASSUME DatasetNext PROVE [Next]_vars
  BY DEF datasetVars
<1>1. CASE \E h \in Hash : Register(h) \/ Index(h)
  BY <1>1 DEF Register, Index, Next
<1>2. CASE \E c \in Clients, h \in Hash, a \in Asked : Search(c, MediaType[h], Quantity(a))
  BY <1>2 DEF Search
<1>3. CASE \E c \in Clients, h \in Hash, a \in Asked : Browse(c, MediaType[h], Quantity(a))
  BY <1>3 DEF Browse, Read, Next
<1>4. CASE \E c \in Clients : Select(c)
  BY <1>4 DEF Select, Read, Next
<1>5. CASE \E c \in Clients : Embed(c)
  BY <1>5 DEF Embed, Next
<1>6. CASE \E c \in Clients, t \in Tx : Pay(c, t)
  BY <1>6 DEF Pay, Next
<1>7. CASE \E c \in Clients : ReadUrls(c) \/ ReadUrlsCut(c) \/ Mark(c)
  BY <1>7 DEF ReadUrls, ReadUrlsCut, Mark, Next
<1>8. CASE \E c \in Clients : Deliver(c) \/ UnlockFails(c)
  BY <1>8 DEF Deliver, UnlockFails, Next
<1>9. CASE CrashAll
  BY <1>9 DEF CrashAll, Next
<1> QED
  BY <1>1, <1>2, <1>3, <1>4, <1>5, <1>6, <1>7, <1>8, <1>9 DEF DatasetNext

\* QueryDataset and UnlockDataset together are still UnlockDataset: every step
\* is one of Unlock's or leaves its variables alone.
THEOREM DatasetsImplementUnlock == DatasetSpec => Spec
<1>1. DatasetInit => Init
  BY DEF DatasetInit
<1> QED  BY <1>1, UnlockStep, PTL DEF DatasetSpec, Spec

\* So that whatever quotes and registrations do meanwhile, a payment that was
\* marked is not replayed, and is marked before it is answered.
THEOREM DatasetsNotReplayed == DatasetSpec => [](NoReplayOnceMarked /\ AnsweredIsUsed)
  BY DatasetsImplementUnlock, MarkedIsNotReplayed, AnsweredOnlyIfUsed, PTL
-----------------------------------------------------------------------------
(* What was quoted stays on offer                                          *)

Rows == {"absent", "private", "offered"}

IsQuery(q) == q = [type |-> q.type, max |-> q.max, found |-> q.found, items |-> q.items]

\* The type of rows, searches and quotes, as far as the proofs need it.
RowsAndQuotes ==
    /\ rows \in [Hash -> Rows]
    /\ DOMAIN search = Clients /\ DOMAIN quote = Clients
    /\ \A c \in Clients : IsQuery(search[c])

\* What was selected for a quote is on offer.
Offered ==
    /\ QuotedStaysOnOffer
    /\ \A c \in Clients : Contents(search[c].items) \subseteq OnOffer(search[c].type)

\* A position that was taken is one whose row was read.
LEMMA ItemsOnOffer ==
    ASSUME NEW q, NEW R PROVE Contents(Items(q, R)) \subseteq R
<1> SUFFICES ASSUME NEW h \in Hash, Items(q, R)[h] > 0 PROVE h \in R
  BY DEF Contents
<1>1. Items(q, R)[h] = Cardinality({i \in Taken(q, R) : q.found[i] = h})
  BY DEF Items
<1>2. {i \in Taken(q, R) : q.found[i] = h} # {}
  BY <1>1, FS_EmptySet
<1>3. PICK i \in Kept(q, R) : q.found[i] = h
  BY <1>2 DEF Taken
<1> QED  BY <1>3 DEF Kept

LEMMA NothingIsEmpty == Contents(Nothing) = {} /\ Contents(NoSearch.items) = {}
  BY DEF Contents, Nothing, NoSearch, Query

\* Rows are written once: what is on offer stays so.
LEMMA OfferGrows ==
    ASSUME RowsAndQuotes, [DatasetNext]_datasetVars
    PROVE  /\ \A m : OnOffer(m) \subseteq OnOffer(m)'
           /\ rows' \in [Hash -> Rows]
<1>1. CASE \E h \in Hash : Register(h)
  BY <1>1 DEF Register, NewRow, RowsAndQuotes, Rows, OnOffer
<1>2. CASE UNCHANGED rows
  BY <1>2 DEF OnOffer, RowsAndQuotes
<1> QED
  BY <1>1, <1>2 DEF DatasetNext, datasetVars, dataVars, Index, Search, Browse, Select, Embed,
     Pay, ReadUrls, ReadUrlsCut, Mark, Deliver, UnlockFails, CrashAll

\* The items a step selects for client c.
Selects(c, q, items) ==
    /\ IsQuery(q)
    /\ Selected(c, q, items)
    /\ Contents(items) \subseteq OnOffer(q.type)
    /\ UNCHANGED <<rows, quote>>

\* What a step does to searches and quotes.
LEMMA OfferSteps ==
    ASSUME RowsAndQuotes, [DatasetNext]_datasetVars
    PROVE  \/ UNCHANGED <<search, quote>>
           \/ \E c \in Clients, h \in Hash, a \in Asked : Search(c, MediaType[h], Quantity(a))
           \/ \E c \in Clients : \E q, items : Selects(c, q, items)
           \/ \E c \in Clients : Embed(c)
           \/ CrashAll
<1>1. CASE \E c \in Clients : Select(c)
  <2>1. PICK c \in Clients : Select(c)
    BY <1>1
  <2>2. PICK R \in SUBSET OnOffer(search[c].type) : Selected(c, search[c], Items(search[c], R))
    BY <2>1 DEF Select
  <2>3. Contents(Items(search[c], R)) \subseteq OnOffer(search[c].type)
    BY <2>2, ItemsOnOffer
  <2>4. Selects(c, search[c], Items(search[c], R))
    BY <2>1, <2>2, <2>3 DEF Selects, Select, RowsAndQuotes
  <2> QED  BY <2>4
<1>2. CASE \E c \in Clients, h \in Hash, a \in Asked : Browse(c, MediaType[h], Quantity(a))
  <2>1. PICK c \in Clients, h \in Hash, a \in Asked : Browse(c, MediaType[h], Quantity(a))
    BY <1>2
  <2> DEFINE m == MediaType[h]
             q == Query(m, Quantity(a), <<>>)
             Each(S) == [k \in Hash |-> IF k \in S THEN 1 ELSE 0]
  <2>2. PICK S \in SUBSET OnOffer(m) : Selected(c, q, Each(S))
    BY <2>1 DEF Browse
  <2>3. Contents(Each(S)) \subseteq OnOffer(q.type)
    BY <2>2 DEF Contents, Query
  <2>4. UNCHANGED <<rows, quote>> /\ IsQuery(q)
    BY <2>1 DEF Browse, Query, IsQuery
  <2> HIDE DEF q, Each
  <2>5. Selects(c, q, Each(S))
    BY <2>2, <2>3, <2>4 DEF Selects
  <2> QED  BY <2>5
<1> QED
  BY <1>1, <1>2 DEF DatasetNext, datasetVars, dataVars, Register, Index, Pay, ReadUrls, ReadUrlsCut,
     Mark, Deliver, UnlockFails

\* A selection, and a quote made of one, is on offer.
LEMMA OfferedStep ==
    RowsAndQuotes /\ Offered /\ [DatasetNext]_datasetVars => RowsAndQuotes' /\ Offered'
<1> SUFFICES ASSUME RowsAndQuotes, Offered, [DatasetNext]_datasetVars
             PROVE  RowsAndQuotes' /\ Offered'
  OBVIOUS
<1>0. rows' \in [Hash -> Rows] /\ \A m : OnOffer(m) \subseteq OnOffer(m)'
  BY OfferGrows
<1>1. CASE UNCHANGED <<search, quote>>
  BY <1>0, <1>1 DEF RowsAndQuotes, Offered, QuotedStaysOnOffer
<1>2. CASE \E c \in Clients, h \in Hash, a \in Asked : Search(c, MediaType[h], Quantity(a))
  <2> DEFINE Asks(c, m, n, s) == /\ search' = [search EXCEPT ![c] = Query(m, n, s)]
                                 /\ UNCHANGED quote
  <2>0. PICK c \in Clients, h \in Hash, a \in Asked : Search(c, MediaType[h], Quantity(a))
    BY <1>2
  <2>1. PICK m, n, s : Asks(c, m, n, s)
    <3>1. \E s : Asks(c, MediaType[h], Quantity(a), s)
      BY <2>0 DEF Search
    <3> QED  BY <3>1
  <2>2. Contents(Query(m, n, s).items) = {} /\ IsQuery(Query(m, n, s))
    BY NothingIsEmpty DEF Query, IsQuery
  <2> QED  BY <1>0, <2>1, <2>2 DEF RowsAndQuotes, Offered, QuotedStaysOnOffer
<1>3. CASE \E c \in Clients : \E q, items : Selects(c, q, items)
  <2>0. PICK c \in Clients : \E q, items : Selects(c, q, items)
    BY <1>3
  <2>1. PICK q, items : Selects(c, q, items)
    BY <2>0
  <2>2. PICK r : /\ search' = [search EXCEPT ![c] = r]
                 /\ r = IF items = Nothing THEN NoSearch ELSE [q EXCEPT !.items = items]
    BY <2>1 DEF Selects, Selected
  <2>3. Contents(r.items) \subseteq OnOffer(r.type) /\ IsQuery(r)
    <3>1. CASE items = Nothing
      BY <2>2, <3>1, NothingIsEmpty DEF NoSearch, Query, IsQuery
    <3>2. CASE items # Nothing
      <4>1. Contents(items) \subseteq OnOffer(q.type)
        BY <2>1 DEF Selects
      <4>2. r = [q EXCEPT !.items = items]
        BY <2>2, <3>2
      <4>3. r = [type |-> q.type, max |-> q.max, found |-> q.found, items |-> items]
        BY <2>1, <4>2 DEF Selects, IsQuery
      <4> QED  BY <4>1, <4>3 DEF IsQuery
    <3> QED  BY <3>1, <3>2
  <2>4. UNCHANGED quote
    BY <2>1 DEF Selects
  <2> QED  BY <1>0, <2>2, <2>3, <2>4 DEF RowsAndQuotes, Offered, QuotedStaysOnOffer
<1>4. CASE \E c \in Clients : Embed(c)
  <2>0. PICK c \in Clients : Embed(c)
    BY <1>4
  <2>1. PICK e : /\ quote' = [quote EXCEPT ![c] = Quoted(search[c], e)]
                 /\ search' = [search EXCEPT ![c] = NoSearch]
    BY <2>0 DEF Embed
  <2>2. quote'[c].items = search[c].items /\ quote'[c].type = search[c].type
    BY <2>1 DEF RowsAndQuotes, Quoted
  <2>3. IsQuery(NoSearch)
    BY DEF NoSearch, Query, IsQuery
  <2> QED  BY <1>0, <2>1, <2>2, <2>3, NothingIsEmpty DEF RowsAndQuotes, Offered, QuotedStaysOnOffer
<1>5. CASE CrashAll
  <2>1. search' = [c \in Clients |-> NoSearch] /\ UNCHANGED quote
    BY <1>5 DEF CrashAll
  <2>2. IsQuery(NoSearch)
    BY DEF NoSearch, Query, IsQuery
  <2> QED  BY <1>0, <2>1, <2>2, NothingIsEmpty DEF RowsAndQuotes, Offered, QuotedStaysOnOffer
<1> QED  BY <1>1, <1>2, <1>3, <1>4, <1>5, OfferSteps

LEMMA OfferedInit == DatasetInit => RowsAndQuotes /\ Offered
<1> SUFFICES ASSUME DatasetInit PROVE RowsAndQuotes /\ Offered
  OBVIOUS
<1>1. RowsAndQuotes
  BY DEF DatasetInit, RowsAndQuotes, Rows, NoSearch, Query, IsQuery
<1>2. \A c \in Clients : quote[c].items = Nothing /\ search[c] = NoSearch
  BY DEF DatasetInit, NoQuote
<1>3. Offered
  BY <1>2, NothingIsEmpty DEF QuotedStaysOnOffer, Offered
<1> QED  BY <1>1, <1>3

LEMMA OfferedCorrect == DatasetSpec => [](RowsAndQuotes /\ Offered)
  BY OfferedInit, OfferedStep, PTL DEF DatasetSpec

\* A content that was quoted is on offer, and of the type asked for, from then
\* on: QueryDataset selects rows that never change.
THEOREM QuotesStayOnOffer == DatasetSpec => []QuotedStaysOnOffer
<1>1. Offered => QuotedStaysOnOffer
  BY DEF Offered
<1> QED  BY <1>1, OfferedCorrect, PTL
-----------------------------------------------------------------------------
(* A payment that is marked buys every URL, but for a fault of its own     *)

\* A client that pays has its quote and does not ask for another one.  A request
\* that was read from has every URL of its quote, or its payment is not open any
\* more.  An open payment that is marked has a request on its way.
Paying ==
    /\ DOMAIN urls = Clients
    /\ outcome \in [Tx -> {"open", "spoilt", "whole"}]
    /\ \A c \in Clients : search[c] # NoSearch => request[c] = Idle /\ quote[c] = NoQuote
    /\ \A c \in Clients :
         request[c].at \in {"mark", "answer"} => Whole(c) \/ outcome[request[c].tx] # "open"
    /\ PaidIsDelivered

\* What becomes of a payment's requests when nobody marks or ends one: they are
\* on their way as before.
LEMMA WayStays ==
    ASSUME TypeOK, Paying,
           NEW t \in used, outcome'[t] = "open", outcome[t] = "open",
           \A c \in Clients : OnItsWay(c, t) => OnItsWay(c, t)'
    PROVE  \E c \in Clients : OnItsWay(c, t)'
  BY DEF Paying, PaidIsDelivered

\* Nobody's quote changes while it is paid for.
LEMMA QuoteIsKept ==
    ASSUME TypeOK, RowsAndQuotes, Paying, DatasetNext
    PROVE  /\ \A c \in Clients : request[c] # Idle => quote'[c] = quote[c]
           /\ \A c \in Clients : search'[c] # NoSearch => request'[c] = Idle /\ quote'[c] = NoQuote
<1>0. \A c \in Clients : search[c] # NoSearch => request[c] = Idle /\ quote[c] = NoQuote
  BY DEF Paying
<1>11. NoSearch.found = <<>> /\ NoSearch.items = Nothing
  BY DEF NoSearch, Query
<1> USE DEF TypeOK, Idle, Paying, RowsAndQuotes
<1>1. CASE \E h \in Hash : Register(h) \/ Index(h)
  BY <1>1 DEF Register, Index, FailsElsewhere, vars
<1>2. CASE \E c \in Clients, h \in Hash, a \in Asked : Search(c, MediaType[h], Quantity(a))
  BY <1>2 DEF Search, MayAsk, Free, vars
<1>3. CASE \E c \in Clients, h \in Hash, a \in Asked : Browse(c, MediaType[h], Quantity(a))
  BY <1>3 DEF Browse, Selected, Read, FailsElsewhere, MayAsk, Free, vars
<1>4. CASE \E c \in Clients : Select(c)
  <2>1. PICK c \in Clients : Select(c)
    BY <1>4
  <2>2. search[c] # NoSearch /\ UNCHANGED <<request, quote>>
    <3>1. search[c].found # <<>> /\ UNCHANGED <<request, quote>>
      BY <2>1 DEF Select, Read, FailsElsewhere, vars
    <3> HIDE DEF TypeOK, Idle, Paying, RowsAndQuotes
    <3> QED  BY <1>11, <3>1
  <2>3. \A d \in Clients : d # c => search'[d] = search[d]
    BY <2>1 DEF Select, Selected
  <2>4. \A d \in Clients : search'[d] # NoSearch => search[d] # NoSearch
    BY <2>2, <2>3
  <2> HIDE DEF TypeOK, Idle, Paying, RowsAndQuotes
  <2> QED  BY <1>0, <2>2, <2>4
<1>5. CASE \E c \in Clients : Embed(c)
  <2>1. PICK c \in Clients : Embed(c)
    BY <1>5
  <2>2. search[c] # NoSearch /\ UNCHANGED request
    <3>1. search[c].items # Nothing
      BY <2>1 DEF Embed
    <3>2. UNCHANGED request
      BY <2>1 DEF Embed, FailsElsewhere, vars
    <3> HIDE DEF TypeOK, Idle, Paying, RowsAndQuotes
    <3> QED  BY <1>11, <3>1, <3>2
  <2>3. search'[c] = NoSearch /\ \A d \in Clients : d # c => search'[d] = search[d] /\ quote'[d] = quote[d]
    BY <2>1 DEF Embed
  <2>4. \A d \in Clients : request[d] # Idle => d # c
    BY <1>0, <2>2
  <2>5. \A d \in Clients : search'[d] # NoSearch => d # c /\ search[d] # NoSearch
    BY <2>3
  <2> HIDE DEF TypeOK, Idle, Paying, RowsAndQuotes
  <2> QED  BY <1>0, <2>2, <2>3, <2>4, <2>5
<1>6. CASE \E c \in Clients, t \in Tx : Pay(c, t)
  BY <1>6 DEF Pay, Free, VerifyPayment, Refuse, dataVars, vars
<1>7. CASE \E c \in Clients : ReadUrls(c) \/ ReadUrlsCut(c) \/ Mark(c)
  BY <1>7 DEF ReadUrls, ReadUrlsCut, Mark, QueryUrls, QueryCut, MarkUsed, Go, dataVars
<1>8. CASE \E c \in Clients : Deliver(c) \/ UnlockFails(c)
  BY <1>8 DEF Deliver, UnlockFails, Answer, RequestFails, End
<1>9. CASE CrashAll
  BY <1>9 DEF CrashAll, Crash
<1> QED
  BY <1>1, <1>2, <1>3, <1>4, <1>5, <1>6, <1>7, <1>8, <1>9 DEF DatasetNext

\* The rest of Paying, for one action at a time.
Goes ==
    /\ DOMAIN urls = Clients
    /\ outcome \in [Tx -> {"open", "spoilt", "whole"}]
    /\ \A c \in Clients :
         request[c].at \in {"mark", "answer"} => Whole(c) \/ outcome[request[c].tx] # "open"
    /\ PaidIsDelivered

\* Requests and what they have read stay.
LEMMA GoesStutter ==
    ASSUME TypeOK, Paying, UNCHANGED <<request, used, urls, outcome>>,
           \A c \in Clients : request[c] # Idle => quote'[c] = quote[c]
    PROVE  Goes'
<1>1. \A c \in Clients : request[c] # Idle => (Whole(c) <=> Whole(c)')
  BY DEF Whole
<1>2. ASSUME NEW c \in Clients, request'[c].at \in {"mark", "answer"}
      PROVE  Whole(c)' \/ outcome'[request'[c].tx] # "open"
  <2>1. request[c] # Idle
    BY <1>2 DEF Idle
  <2> QED  BY <1>1, <1>2, <2>1 DEF Paying
<1>3. ASSUME NEW t \in used', outcome'[t] = "open"
      PROVE  \E c \in Clients : OnItsWay(c, t)'
  <2>1. t \in used /\ outcome[t] = "open" /\ t \in Tx
    BY <1>3 DEF TypeOK
  <2>2. ASSUME NEW c \in Clients, OnItsWay(c, t) PROVE OnItsWay(c, t)'
    <3>1. request[c].tx = t /\ request[c] # Idle
      BY <2>1, <2>2, ClientAssumption DEF OnItsWay, Idle
    <3> QED  BY <1>1, <2>2, <3>1 DEF OnItsWay
  <2> QED  BY <1>3, <2>1, <2>2, WayStays
<1> QED  BY <1>2, <1>3 DEF Goes, Paying, PaidIsDelivered

\* Only payments that are spoilt lose a request that was on its way.
LEMMA GoesSpoilt ==
    ASSUME TypeOK, Paying, NEW T, Spoil(T), UNCHANGED <<used, quote>>,
           DOMAIN urls' = Clients,
           request' \in [Clients -> {Idle} \cup [at : {"query", "mark", "answer"}, tx : Tx]],
           \A c \in Clients : \/ request'[c] = request[c] /\ urls'[c] = urls[c]
                              \/ request'[c] = Idle /\ request[c].tx \in T \cup (Tx \ used)
                              \/ request'[c].tx = request[c].tx /\ request[c].tx \in T
    PROVE  Goes'
<1>1. outcome' \in [Tx -> {"open", "spoilt", "whole"}]
  BY DEF Spoil, Paying
<1>2. \A t \in Tx : outcome'[t] = "open" => outcome[t] = "open" /\ t \notin T
  BY DEF Spoil, Paying
<1>3. ASSUME NEW c \in Clients, request'[c].at \in {"mark", "answer"}
      PROVE  Whole(c)' \/ outcome'[request'[c].tx] # "open"
  <2>1. request'[c] # Idle /\ request'[c].tx \in Tx
    BY <1>3 DEF Idle
  <2>2. CASE request'[c] = request[c] /\ urls'[c] = urls[c]
    <3>1. Whole(c) \/ outcome[request[c].tx] # "open"
      BY <1>3, <2>2 DEF Paying
    <3>2. Whole(c) => Whole(c)'
      BY <2>2 DEF Whole
    <3> QED  BY <1>2, <2>1, <2>2, <3>1, <3>2
  <2>3. CASE request'[c].tx = request[c].tx /\ request[c].tx \in T
    BY <1>2, <2>1, <2>3
  <2> QED  BY <2>1, <2>2, <2>3
<1>4. ASSUME NEW t \in used', outcome'[t] = "open"
      PROVE  \E c \in Clients : OnItsWay(c, t)'
  <2>1. t \in used /\ t \in Tx /\ outcome[t] = "open" /\ t \notin T
    BY <1>2, <1>4 DEF TypeOK
  <2>2. ASSUME NEW c \in Clients, OnItsWay(c, t) PROVE OnItsWay(c, t)'
    <3>1. request'[c] = request[c] /\ urls'[c] = urls[c]
      BY <2>1, <2>2 DEF OnItsWay
    <3> QED  BY <2>2, <3>1 DEF OnItsWay, Whole
  <2> QED  BY <1>4, <2>1, <2>2, WayStays
<1> QED  BY <1>1, <1>3, <1>4 DEF Goes, PaidIsDelivered

LEMMA GoesStep ==
    ASSUME TypeOK, RowsAndQuotes, Offered, Paying, DatasetNext
    PROVE  Goes'
<1>0. \A c \in Clients : request[c] # Idle => quote'[c] = quote[c]
  BY QuoteIsKept
<1>1. CASE UNCHANGED <<request, used, urls, outcome>>
  BY <1>0, <1>1, GoesStutter
<1>2. CASE \E c \in Clients, t \in Tx : Pay(c, t) /\ VerifyPayment(c, t)
  <2>1. PICK c \in Clients, u \in Tx : Pay(c, u) /\ VerifyPayment(c, u)
    BY <1>2
  <2>2. /\ request[c].at = "idle" /\ request'[c] = [at |-> "query", tx |-> u]
        /\ \A d \in Clients : d # c => request'[d] = request[d]
        /\ UNCHANGED <<used, urls, outcome, quote>>
    BY <2>1 DEF Pay, VerifyPayment, dataVars, TypeOK
  <2>3. \A d \in Clients : Whole(d) <=> Whole(d)'
    BY <2>2 DEF Whole
  <2>4. ASSUME NEW t \in used', outcome'[t] = "open"
        PROVE  \E d \in Clients : OnItsWay(d, t)'
    <3>1. t \in used /\ t \in Tx /\ outcome[t] = "open"
      BY <2>2, <2>4 DEF TypeOK
    <3>2. ASSUME NEW d \in Clients, OnItsWay(d, t) PROVE OnItsWay(d, t)'
      <4>1. d # c
        BY <2>2, <3>1, <3>2, ClientAssumption DEF OnItsWay, TypeOK, Idle
      <4> QED  BY <2>2, <2>3, <3>2, <4>1 DEF OnItsWay
    <3> QED  BY <2>4, <3>1, <3>2, WayStays
  <2>5. \A d \in Clients :
          request'[d].at \in {"mark", "answer"} => Whole(d)' \/ outcome'[request'[d].tx] # "open"
    BY <2>2, <2>3 DEF Paying
  <2> QED  BY <2>2, <2>4, <2>5 DEF Goes, Paying, PaidIsDelivered
<1>3. CASE \E c \in Clients : ReadUrls(c)
  <2>1. PICK c \in Clients : ReadUrls(c)
    BY <1>3
  <2>2. /\ request[c].at = "query" /\ request'[c].tx = request[c].tx
        /\ \A d \in Clients : d # c => request'[d] = request[d] /\ urls'[d] = urls[d]
        /\ UNCHANGED <<used, outcome, quote>> /\ DOMAIN urls' = Clients
    BY <2>1 DEF ReadUrls, QueryUrls, Go, TypeOK, Idle, Paying
  <2>3. Whole(c)'
    <3>1. urls'[c] = HaveUrl(c)
      BY <2>1 DEF ReadUrls, Paying
    <3>2. HaveUrl(c) = Contents(quote[c].items)
      BY DEF HaveUrl, Offered, QuotedStaysOnOffer, OnOffer, Contents
    <3> QED  BY <2>2, <3>1, <3>2 DEF Whole
  <2>4. \A d \in Clients : d # c => (Whole(d) <=> Whole(d)')
    BY <2>2 DEF Whole
  <2>5. ASSUME NEW t \in used', outcome'[t] = "open"
        PROVE  \E d \in Clients : OnItsWay(d, t)'
    <3>1. t \in used /\ outcome[t] = "open"
      BY <2>2, <2>5
    <3>2. ASSUME NEW d \in Clients, OnItsWay(d, t) PROVE OnItsWay(d, t)'
      BY <2>2, <2>3, <2>4, <3>2 DEF OnItsWay
    <3> QED  BY <2>5, <3>1, <3>2, WayStays
  <2>6. \A d \in Clients :
          request'[d].at \in {"mark", "answer"} => Whole(d)' \/ outcome'[request'[d].tx] # "open"
    BY <2>2, <2>3, <2>4 DEF Paying
  <2> QED  BY <2>2, <2>5, <2>6 DEF Goes, Paying, PaidIsDelivered
<1>4. CASE \E c \in Clients : ReadUrlsCut(c)
  <2>1. PICK c \in Clients : ReadUrlsCut(c)
    BY <1>4
  <2>2. PICK t : t = request[c].tx
    OBVIOUS
  <2>3. /\ request[c].at = "query" /\ request'[c].tx = t /\ t \in Tx
        /\ request' \in [Clients -> {Idle} \cup [at : {"query", "mark", "answer"}, tx : Tx]]
        /\ \A d \in Clients : d # c => request'[d] = request[d] /\ urls'[d] = urls[d]
        /\ UNCHANGED <<used, quote>> /\ DOMAIN urls' = Clients
    BY <2>1, <2>2 DEF ReadUrlsCut, QueryCut, Go, TypeOK, Idle, Paying
  <2>4. Spoil({t})
    BY <2>1, <2>2 DEF ReadUrlsCut
  <2> QED  BY <2>2, <2>3, <2>4, GoesSpoilt
<1>5. CASE \E c \in Clients : Mark(c)
  <2>1. PICK c \in Clients : Mark(c)
    BY <1>5
  <2>2. PICK u : u = request[c].tx
    OBVIOUS
  <2>3. /\ request[c].at = "mark" /\ request'[c].at = "answer" /\ request'[c].tx = u
        /\ \A d \in Clients : d # c => request'[d] = request[d]
        /\ used' = used \cup {u}
        /\ UNCHANGED <<urls, outcome, quote>>
    BY <2>1, <2>2 DEF Mark, MarkUsed, Go, TypeOK, Idle, dataVars
  <2>4. \A d \in Clients : Whole(d) <=> Whole(d)'
    BY <2>3 DEF Whole
  <2>5. ASSUME NEW t \in used', outcome'[t] = "open"
        PROVE  \E d \in Clients : OnItsWay(d, t)'
    <3>1. outcome[t] = "open"
      BY <2>3, <2>5
    <3>2. CASE t = u
      <4>1. Whole(c)
        BY <2>2, <2>3, <3>1, <3>2 DEF Paying
      <4> QED  BY <2>3, <2>4, <3>2, <4>1 DEF OnItsWay
    <3>3. CASE t # u
      <4>1. t \in used
        BY <2>3, <3>3
      <4>2. ASSUME NEW d \in Clients, OnItsWay(d, t) PROVE OnItsWay(d, t)'
        BY <2>2, <2>3, <2>4, <3>3, <4>2 DEF OnItsWay
      <4> QED  BY <2>5, <3>1, <4>1, <4>2, WayStays
    <3> QED  BY <3>2, <3>3
  <2>6. \A d \in Clients :
          request'[d].at \in {"mark", "answer"} => Whole(d)' \/ outcome'[request'[d].tx] # "open"
    BY <2>2, <2>3, <2>4 DEF Paying
  <2> QED  BY <2>3, <2>5, <2>6 DEF Goes, Paying, PaidIsDelivered
<1>6. CASE \E c \in Clients : Deliver(c)
  <2>1. PICK c \in Clients : Deliver(c)
    BY <1>6
  <2>2. PICK u : u = request[c].tx
    OBVIOUS
  <2>3. /\ request[c].at = "answer" /\ u \in Tx /\ request'[c] = Idle
        /\ \A d \in Clients : d # c => request'[d] = request[d] /\ urls'[d] = urls[d]
        /\ UNCHANGED <<used, quote>> /\ DOMAIN urls' = Clients
        /\ outcome' = IF Whole(c) THEN [outcome EXCEPT ![u] = "whole"] ELSE outcome
    BY <2>1, <2>2 DEF Deliver, Answer, End, Gone, TypeOK, Idle, Paying
  <2>4. /\ outcome' \in [Tx -> {"open", "spoilt", "whole"}]
        /\ outcome'[u] # "open"
        /\ \A t \in Tx : outcome'[t] = "open" => outcome[t] = "open"
    <3>1. outcome \in [Tx -> {"open", "spoilt", "whole"}] /\ (Whole(c) \/ outcome[u] # "open")
      BY <2>2, <2>3 DEF Paying
    <3> HIDE DEF Whole
    <3> QED  BY <2>3, <3>1
  <2>5. \A d \in Clients : d # c => (Whole(d) <=> Whole(d)')
    BY <2>3 DEF Whole
  <2>6. ASSUME NEW t \in used', outcome'[t] = "open"
        PROVE  \E d \in Clients : OnItsWay(d, t)'
    <3>1. t \in used /\ t \in Tx /\ outcome[t] = "open" /\ t # u
      BY <2>3, <2>4, <2>6 DEF TypeOK
    <3>2. ASSUME NEW d \in Clients, OnItsWay(d, t) PROVE OnItsWay(d, t)'
      <4>1. d # c
        BY <2>2, <3>1, <3>2 DEF OnItsWay
      <4> QED  BY <2>3, <2>5, <3>2, <4>1 DEF OnItsWay
    <3> QED  BY <2>6, <3>1, <3>2, WayStays
  <2>7. ASSUME NEW d \in Clients, request'[d].at \in {"mark", "answer"}
        PROVE  Whole(d)' \/ outcome'[request'[d].tx] # "open"
    <3>1. d # c /\ request'[d] = request[d]
      BY <2>3, <2>7 DEF Idle
    <3>2. request[d].tx \in Tx
      BY <2>7, <3>1 DEF TypeOK, Idle
    <3> QED  BY <2>4, <2>5, <2>7, <3>1, <3>2 DEF Paying
  <2> QED  BY <2>3, <2>4, <2>6, <2>7 DEF Goes, PaidIsDelivered
<1>7. CASE \E c \in Clients : UnlockFails(c)
  <2>1. PICK c \in Clients : UnlockFails(c)
    BY <1>7
  <2>2. PICK t : t = request[c].tx
    OBVIOUS
  <2>3. /\ request'[c] = Idle /\ t \in Tx
        /\ request' \in [Clients -> {Idle} \cup [at : {"query", "mark", "answer"}, tx : Tx]]
        /\ \A d \in Clients : d # c => request'[d] = request[d] /\ urls'[d] = urls[d]
        /\ UNCHANGED <<used, quote>> /\ DOMAIN urls' = Clients
    BY <2>1, <2>2 DEF UnlockFails, RequestFails, End, Gone, TypeOK, Idle, Paying
  <2>4. Spoil({t} \cap used)
    BY <2>1, <2>2 DEF UnlockFails
  <2>5. t \in ({t} \cap used) \cup (Tx \ used)
    BY <2>3
  <2> QED  BY <2>2, <2>3, <2>4, <2>5, GoesSpoilt
<1>8. CASE CrashAll
  <2> DEFINE T == {t \in used : InProgress(t) # {}}
  <2>1. /\ Spoil(T) /\ UNCHANGED <<used, quote>> /\ DOMAIN urls' = Clients
        /\ request' = [c \in Clients |-> Idle]
    BY <1>8 DEF CrashAll, Crash
  <2>2. \A c \in Clients : request[c] = Idle \/ request[c].tx \in T \cup (Tx \ used)
    BY DEF InProgress, TypeOK
  <2> HIDE DEF T
  <2>3. outcome' \in [Tx -> {"open", "spoilt", "whole"}]
    BY <2>1 DEF Spoil, Paying
  <2>4. ASSUME NEW t \in used', outcome'[t] = "open" PROVE FALSE
    <3>1. t \in used /\ t \in Tx /\ outcome[t] = "open" /\ t \notin T
      BY <2>1, <2>4 DEF TypeOK, Spoil
    <3>2. PICK c \in Clients : request[c].tx = t
      BY <3>1 DEF Paying, PaidIsDelivered, OnItsWay
    <3> QED  BY <2>2, <3>1, <3>2, ClientAssumption DEF Idle
  <2>5. \A c \in Clients : ~(request'[c].at \in {"mark", "answer"})
    BY <2>1 DEF Idle
  <2> QED  BY <2>1, <2>3, <2>4, <2>5 DEF Goes, PaidIsDelivered
<1> QED
  BY <1>1, <1>2, <1>3, <1>4, <1>5, <1>6, <1>7, <1>8
     DEF DatasetNext, Register, Index, Search, Browse, Select, Read, Embed, FailsElsewhere, Pay, Refuse,
     dataVars, vars

LEMMA PayingStep ==
    TypeOK /\ RowsAndQuotes /\ Offered /\ Paying /\ [DatasetNext]_datasetVars => Paying'
<1> SUFFICES ASSUME TypeOK, RowsAndQuotes, Offered, Paying, [DatasetNext]_datasetVars
             PROVE  Paying'
  OBVIOUS
<1>1. CASE DatasetNext
  BY <1>1, GoesStep, QuoteIsKept DEF Paying, Goes
<1>2. CASE UNCHANGED datasetVars
  BY <1>2 DEF Paying, PaidIsDelivered, OnItsWay, Whole, datasetVars, dataVars, vars
<1> QED  BY <1>1, <1>2

\* A payment that is marked buys every URL of the quote, unless a fault hits a
\* request of its own, for any number of contents, clients, payments and faults.
THEOREM PaidQuotesAreDelivered == DatasetSpec => []PaidIsDelivered
<1>1. DatasetInit => Paying
  BY DEF DatasetInit, Init, Paying, PaidIsDelivered, Idle
<1>2. DatasetSpec => []TypeOK
  BY DatasetsImplementUnlock, TypeCorrect, PTL
<1>3. Paying => PaidIsDelivered
  BY DEF Paying
<1> QED  BY <1>1, <1>2, <1>3, PayingStep, OfferedCorrect, PTL DEF DatasetSpec

-----------------------------------------------------------------------------
(* A quote adds up                                                         *)

LEMMA HashFinite == IsFiniteSet(Hash) /\ \A S \in SUBSET Hash : IsFiniteSet(S)
  BY DatasetAssumption, FS_Subset

LEMMA TotalIs ==
    ASSUME NEW items \in [Hash -> Nat]
    PROVE  TotalFound(items) = SumFunctionOnSet(items, Hash) /\ TotalFound(items) \in Nat
  BY HashFinite, SumNat DEF TotalFound, SumFunction

\* What the creators receive and the fee make the total, for any items.
LEMMA AmountsAddUp ==
    ASSUME NEW items \in [Hash -> Nat]
    PROVE  SumFunctionOnSet(Amounts(items), DOMAIN Amounts(items)) + Fee(items) = Total(items)
<1> DEFINE D == {Owner[h] : h \in Contents(items)}
           A == {h \in Hash : Owner[h] \in D}
           share == [c \in D |-> Share(items, c)]
           net == Price - FeePerItem
<1>1. IsFiniteSet(D)
  <2>1. IsFiniteSet(Contents(items))
    BY HashFinite DEF Contents
  <2>2. [h \in Contents(items) |-> Owner[h]] \in Surjection(Contents(items), D)
    BY DEF Surjection
  <2> HIDE DEF D
  <2> QED  BY <2>1, <2>2, FS_Surjection
<1>2. \A c \in D : share[c] = SumFunctionOnSet(items, {h \in Hash : Owner[h] = c})
  BY DEF Share
<1>3. \A c \in D : share[c] \in Int
  <2> SUFFICES ASSUME NEW c \in D PROVE SumFunctionOnSet(items, {h \in Hash : Owner[h] = c}) \in Int
    BY <1>2
  <2> DEFINE H == {h \in Hash : Owner[h] = c}
  <2>1. IsFiniteSet(H) /\ \A h \in H : items[h] \in Int
    BY HashFinite
  <2> QED  BY <2>1, SumType
<1>4. SumFunctionOnSet(share, D) = SumFunctionOnSet(items, A)
  <2>1. \A h \in Hash : items[h] \in Int
    OBVIOUS
  <2> HIDE DEF D, share
  <2> QED  BY <1>1, <1>2, <2>1, HashFinite, SumByClass
<1>5. DOMAIN Amounts(items) = D /\ \A c \in D : Amounts(items)[c] = share[c] * net
  BY DEF Amounts
<1>6. SumFunctionOnSet(Amounts(items), D) = SumFunctionOnSet(share, D) * net
  <2>1. net \in Int
    BY DEF Price, FeePerItem
  <2> HIDE DEF D, share, net
  <2> QED  BY <1>1, <1>3, <1>5, <2>1, SumScaled
<1>7. SumFunctionOnSet(items, A) = TotalFound(items)
  <2>1. A \in SUBSET Hash /\ \A h \in Hash \ A : items[h] = 0
    BY DEF Contents
  <2> HIDE DEF A
  <2>2. IsFiniteSet(A) /\ IsFiniteSet(Hash \ A) /\ A \cup (Hash \ A) = Hash /\ A \cap (Hash \ A) = {}
    BY <2>1, HashFinite
  <2>3. \A h \in A \cup (Hash \ A) : items[h] \in Int
    BY <2>1
  <2>4. SumFunctionOnSet(items, A \cup (Hash \ A))
          = SumFunctionOnSet(items, A) + SumFunctionOnSet(items, Hash \ A)
    BY <2>2, <2>3, SumSplit
  <2>5. SumFunctionOnSet(items, Hash \ A) = 0
    BY <2>1, <2>2, SumOfZeros
  <2>6. SumFunctionOnSet(items, A) \in Int
    BY <2>2, <2>3, SumType
  <2>7. SumFunctionOnSet(items, Hash) = SumFunctionOnSet(items, A) + 0
    BY <2>2, <2>4, <2>5
  <2> QED  BY <2>6, <2>7, TotalIs
<1>8. SumFunctionOnSet(Amounts(items), DOMAIN Amounts(items)) = TotalFound(items) * net
  BY <1>4, <1>5, <1>6, <1>7
<1>9. TotalFound(items) \in Nat
  BY TotalIs
<1> HIDE DEF D, A, share
<1> QED  BY <1>8, <1>9 DEF Fee, Total, Price, FeePerItem

\* A list without a search has as many items as contents.
LEMMA EachOnce ==
    ASSUME NEW S \in SUBSET Hash
    PROVE  LET items == [h \in Hash |-> IF h \in S THEN 1 ELSE 0]
           IN  items \in [Hash -> Nat] /\ TotalFound(items) = Cardinality(S)
<1> DEFINE items == [h \in Hash |-> IF h \in S THEN 1 ELSE 0]
<1>1. items \in [Hash -> Nat] /\ (\A h \in S : items[h] = 1) /\ (\A h \in Hash \ S : items[h] = 0)
  OBVIOUS
<1> HIDE DEF items
<1>2. IsFiniteSet(S) /\ IsFiniteSet(Hash \ S) /\ S \cup (Hash \ S) = Hash /\ S \cap (Hash \ S) = {}
  BY HashFinite
<1>3. \A h \in S \cup (Hash \ S) : items[h] \in Int
  BY <1>1
<1>4. SumFunctionOnSet(items, S) = Cardinality(S) /\ SumFunctionOnSet(items, Hash \ S) = 0
  BY <1>1, <1>2, SumOfOnes, SumOfZeros
<1>5. SumFunctionOnSet(items, S \cup (Hash \ S))
        = SumFunctionOnSet(items, S) + SumFunctionOnSet(items, Hash \ S)
  BY <1>2, <1>3, SumSplit
<1>6. SumFunctionOnSet(items, Hash) = Cardinality(S) + 0
  BY <1>2, <1>4, <1>5
<1>7. Cardinality(S) \in Nat
  BY <1>2, FS_CardinalityType
<1>8. TotalFound(items) = Cardinality(S)
  BY <1>1, <1>6, <1>7, TotalIs
<1> QED  BY <1>1, <1>8 DEF items

-----------------------------------------------------------------------------
(* The first of the positions that are kept                                *)

\* At most m positions have fewer than m before them, and if they are fewer
\* they are all.
LEMMA FirstOnes ==
    ASSUME NEW K \in SUBSET Nat, IsFiniteSet(K), NEW m \in Nat,
           NEW T \in SUBSET K,
           \A i \in K : i \in T <=> Cardinality({j \in K : j < i}) < m
    PROVE  /\ IsFiniteSet(T) /\ Cardinality(T) <= m
           /\ Cardinality(T) < m => T = K
<1>1. IsFiniteSet(T) /\ Cardinality(T) \in Nat /\ T \subseteq K
  BY FS_Subset, FS_CardinalityType
<1>2. Cardinality(T) <= m
  <2>1. CASE T = {}
    <3>1. Cardinality(T) = 0
      BY <2>1, FS_EmptySet
    <3> QED  BY <3>1
  <2>2. CASE T # {}
    <3>1. PICK i \in T : \A j \in T : j <= i
      BY <1>1, <2>2, Greatest
    <3> DEFINE B == {j \in K : j < i}
    <3>2. T \ {i} \subseteq B
      <4>1. ASSUME NEW j \in T, j # i PROVE j \in K /\ j < i
        <5>1. j \in Nat /\ i \in Nat /\ j <= i /\ j \in K
          BY <3>1, <1>1
        <5> QED  BY <4>1, <5>1
      <4> QED  BY <4>1
    <3>3. IsFiniteSet(B) /\ Cardinality(B) < m /\ Cardinality(B) \in Nat
      BY <3>1, FS_Subset, FS_CardinalityType
    <3> HIDE DEF B
    <3>4. Cardinality(T \ {i}) <= Cardinality(B)
      BY <3>2, <3>3, FS_Subset
    <3>5. Cardinality(T \ {i}) = Cardinality(T) - 1
      BY <1>1, <3>1, FS_RemoveElement
    <3> QED  BY <1>1, <3>3, <3>4, <3>5
  <2> QED  BY <2>1, <2>2
<1>3. ASSUME Cardinality(T) < m, T # K
      PROVE  FALSE
  <2>1. K \ T # {} /\ K \ T \in SUBSET Nat
    BY <1>1, <1>3
  <2>2. PICK i \in K \ T : \A j \in K \ T : i <= j
    BY <2>1, Smallest
  <2> DEFINE B == {j \in K : j < i}
  <2>3. B \subseteq T
    <3>1. ASSUME NEW j \in K, j < i PROVE j \in T
      <4>1. j \in Nat /\ i \in Nat
        BY <1>1
      <4>2. ~(i <= j)
        BY <3>1, <4>1
      <4> QED  BY <2>2, <4>2
    <3> QED  BY <3>1
  <2>4. ~(Cardinality(B) < m)
    BY <2>2
  <2>5. IsFiniteSet(B) /\ Cardinality(B) \in Nat
    BY FS_Subset, FS_CardinalityType
  <2> HIDE DEF B
  <2>6. Cardinality(B) <= Cardinality(T)
    BY <1>1, <2>3, FS_Subset
  <2> QED  BY <1>1, <1>3, <2>4, <2>5, <2>6
<1> QED  BY <1>1, <1>2, <1>3


-----------------------------------------------------------------------------
(* What a search finds, and what of it is billed                           *)

\* What the Qdrant search of a request has answered, and what was selected of it.
Searched(q) ==
    /\ q.max \in Nat
    /\ q.found \in Seq(Hash)
    /\ \A i \in DOMAIN q.found : q.found[i] \in indexed
    /\ q.items \in [Hash -> Nat] /\ TotalFound(q.items) <= q.max
    /\ q.found # <<>> => Contents(q.items) \subseteq indexed

LEMMA Positions ==
    ASSUME NEW q, Searched(q), NEW R
    PROVE  /\ Kept(q, R) \in SUBSET Nat /\ IsFiniteSet(Kept(q, R))
           /\ Kept(q, R) \subseteq DOMAIN q.found
           /\ Taken(q, R) \in SUBSET Kept(q, R) /\ IsFiniteSet(Taken(q, R))
           /\ \A i \in Taken(q, R) : q.found[i] \in Hash
           /\ DOMAIN q.found = 1..Len(q.found) /\ Len(q.found) \in Nat
           /\ IsFiniteSet(DOMAIN q.found)
           /\ Cardinality(DOMAIN q.found) = Len(q.found)
<1>1. DOMAIN q.found = 1..Len(q.found) /\ Len(q.found) \in Nat
  BY DEF Searched
<1>2. 1 \in Int /\ Len(q.found) \in Int
  BY <1>1
<1>3. /\ IsFiniteSet(1..Len(q.found))
      /\ Cardinality(1..Len(q.found))
           = IF 1 > Len(q.found) THEN 0 ELSE Len(q.found) - 1 + 1
  BY <1>2, FS_Interval
<1>4. Cardinality(DOMAIN q.found) = Len(q.found)
  BY <1>1, <1>3
<1>5. Kept(q, R) \subseteq DOMAIN q.found /\ Taken(q, R) \subseteq Kept(q, R)
  BY DEF Kept, Taken
<1>6. \A i \in DOMAIN q.found : q.found[i] \in Hash /\ i \in Nat
  BY <1>1 DEF Searched
<1>7. IsFiniteSet(DOMAIN q.found)
  BY <1>1, <1>3
<1>8. IsFiniteSet(Kept(q, R)) /\ IsFiniteSet(Taken(q, R))
  BY <1>5, <1>7, FS_Subset
<1> QED  BY <1>1, <1>4, <1>5, <1>6, <1>7, <1>8

\* Counting positions content by content.
LEMMA CountByContent ==
    ASSUME NEW P, IsFiniteSet(P), NEW own, \A i \in P : own[i] \in Hash,
           NEW f, \A i \in P : f[i] = 1,
           NEW items, \A h \in Hash : items[h] = SumFunctionOnSet(f, {i \in P : own[i] = h})
    PROVE  SumFunctionOnSet(items, Hash) = SumFunctionOnSet(f, P)
<1>1. \A i \in P : f[i] \in Int
  OBVIOUS
<1>2. SumFunctionOnSet(items, Hash) = SumFunctionOnSet(f, Classes(P, own, Hash))
  <2>1. \A h \in Hash : items[h] = SumFunctionOnSet(f, Class(P, own, h))
    BY DEF Class
  <2> QED  BY <1>1, <2>1, HashFinite, SumByLabel
<1>3. Classes(P, own, Hash) = P
  BY DEF Classes
<1> QED  BY <1>2, <1>3

\* As many items are billed as positions are taken: no more than asked, and all
\* that are kept if they are fewer.
LEMMA ItemsTotal ==
    ASSUME NEW q, Searched(q), NEW R
    PROVE  /\ Items(q, R) \in [Hash -> Nat]
           /\ TotalFound(Items(q, R)) = Cardinality(Taken(q, R))
           /\ TotalFound(Items(q, R)) <= q.max
           /\ TotalFound(Items(q, R)) < q.max => Taken(q, R) = Kept(q, R)
<1> DEFINE P == Taken(q, R)
           owner == q.found
           ones == [i \in P |-> 1]
           Of(h) == {i \in P : owner[i] = h}
<1>0. IsFiniteSet(P) /\ \A i \in P : owner[i] \in Hash
  BY Positions
<1>1. \A i \in P : ones[i] = 1
  OBVIOUS
<1> HIDE DEF P, ones
<1>2. \A h \in Hash : /\ Cardinality(Of(h)) \in Nat
                      /\ SumFunctionOnSet(ones, Of(h)) = Cardinality(Of(h))
  <2> SUFFICES ASSUME NEW h \in Hash
               PROVE  /\ Cardinality(Of(h)) \in Nat
                      /\ SumFunctionOnSet(ones, Of(h)) = Cardinality(Of(h))
    OBVIOUS
  <2>1. IsFiniteSet(Of(h)) /\ \A i \in Of(h) : ones[i] = 1
    BY <1>0, <1>1, FS_Subset
  <2> HIDE DEF Of
  <2> QED  BY <2>1, SumOfOnes, FS_CardinalityType
<1>3. Items(q, R) = [h \in Hash |-> Cardinality(Of(h))]
  BY DEF Items, P
<1>4. Items(q, R) \in [Hash -> Nat]
  BY <1>2, <1>3
<1>5. \A h \in Hash : Items(q, R)[h] = SumFunctionOnSet(ones, Of(h))
  BY <1>2, <1>3
<1>8. SumFunctionOnSet(Items(q, R), Hash) = SumFunctionOnSet(ones, P)
  <2>1. \A h \in Hash : Items(q, R)[h] = SumFunctionOnSet(ones, {i \in P : owner[i] = h})
    BY <1>5
  <2> HIDE DEF owner, Of
  <2> QED  BY <1>0, <1>1, <2>1, CountByContent
<1>9. TotalFound(Items(q, R)) = Cardinality(P)
  BY <1>0, <1>1, <1>4, <1>8, SumOfOnes, TotalIs
<1>10. /\ Cardinality(Taken(q, R)) <= q.max
       /\ Cardinality(Taken(q, R)) < q.max => Taken(q, R) = Kept(q, R)
  <2>1. q.max \in Nat
    BY DEF Searched
  <2>2. Kept(q, R) \in SUBSET Nat /\ IsFiniteSet(Kept(q, R)) /\ Taken(q, R) \in SUBSET Kept(q, R)
    BY Positions
  <2>3. \A i \in Kept(q, R) : i \in Taken(q, R) <=> Cardinality({j \in Kept(q, R) : j < i}) < q.max
    BY DEF Taken
  <2> QED  BY <2>1, <2>2, <2>3, FirstOnes
<1> QED  BY <1>4, <1>9, <1>10 DEF P

\* Twice as many as asked: too few are left only if more than the quantity
\* asked for was not on offer.
LEMMA CrowdedOut ==
    ASSUME NEW q, Searched(q) PROVE ShortOnlyIfCrowdedOut(q)
<1> DEFINE R == OnOffer(q.type)
<1> SUFFICES ASSUME Len(q.found) = Limit(q.max), TotalFound(Items(q, R)) < q.max
             PROVE  Cardinality(DOMAIN q.found \ Kept(q, R)) > q.max
  BY DEF ShortOnlyIfCrowdedOut
<1> HIDE DEF R
<1>1. q.max \in Nat /\ Limit(q.max) = 2 * q.max
  BY DEF Searched, Limit
<1>2. Cardinality(Kept(q, R)) < q.max
  BY ItemsTotal
<1> DEFINE K == Kept(q, R)
           D == DOMAIN q.found
<1>3. IsFiniteSet(K) /\ IsFiniteSet(D) /\ K \subseteq D /\ Cardinality(D) = 2 * q.max
  BY <1>1, Positions
<1> HIDE DEF K, D
<1>4. Cardinality(D \ K) = Cardinality(D) - Cardinality(D \cap K)
  BY <1>3, FS_Difference
<1>5. D \cap K = K
  BY <1>3
<1>6. Cardinality(K) \in Nat
  BY <1>3, FS_CardinalityType
<1>7. Cardinality(D \cap K) = Cardinality(K)
  BY <1>5
<1>8. Cardinality(D \ K) > q.max
  BY <1>1, <1>2, <1>3, <1>4, <1>6, <1>7 DEF K
<1> QED  BY <1>8 DEF D, K

-----------------------------------------------------------------------------
(* The vectors of what is billed                                           *)

\* Positive numbers: only all of them are as many as all.
LEMMA AllOfIt ==
    ASSUME NEW S, IsFiniteSet(S), NEW e \in SUBSET S, NEW f,
           \A x \in S : f[x] \in Nat /\ f[x] > 0,
           SumFunctionOnSet(f, e) >= SumFunctionOnSet(f, S)
    PROVE  e = S
<1>1. IsFiniteSet(e) /\ IsFiniteSet(S \ e) /\ e \cap (S \ e) = {} /\ e \cup (S \ e) = S
  BY FS_Subset
<1>2. \A x \in S : f[x] \in Int
  OBVIOUS
<1>3. SumFunctionOnSet(f, e \cup (S \ e)) = SumFunctionOnSet(f, e) + SumFunctionOnSet(f, S \ e)
  BY <1>1, <1>2, SumSplit
<1>4. SumFunctionOnSet(f, S) = SumFunctionOnSet(f, e) + SumFunctionOnSet(f, S \ e)
  BY <1>1, <1>3
<1>5. \A x \in S \ e : f[x] \in Nat
  OBVIOUS
<1>6. \A x \in e : f[x] \in Nat
  OBVIOUS
<1>7. SumFunctionOnSet(f, e) \in Nat /\ SumFunctionOnSet(f, S \ e) \in Nat
  BY <1>1, <1>5, <1>6, SumNat
<1>8. SumFunctionOnSet(f, S \ e) = 0
  BY <1>4, <1>7
<1>9. \A x \in S \ e : f[x] = 0
  BY <1>1, <1>5, <1>8, SumIsZero
<1> QED  BY <1>9

\* Two points per item are enough for contents of at most two points, all of
\* which are indexed.
LEMMA TwoPerItem ==
    ASSUME points \in [Hash -> Nat], NEW items \in [Hash -> Nat], NEW e \in Embeddings(items),
           \A h \in Contents(items) : h \in indexed /\ points[h] <= 2
    PROVE  e = Contents(items)
<1> DEFINE S == Contents(items)
           twice == [h \in Hash |-> items[h] * 2]
           all == SumFunctionOnSet(points, S)
           limit == 2 * TotalFound(items)
<1>1. S = indexed \cap Contents(items)
  OBVIOUS
<1>2. /\ e \in SUBSET S
      /\ SumFunctionOnSet(points, e) >= IF all < limit THEN all ELSE limit
  BY <1>1 DEF Embeddings
<1>3. S \in SUBSET Hash /\ IsFiniteSet(S) /\ IsFiniteSet(e) /\ e \in SUBSET Hash
  BY <1>2, HashFinite DEF Contents
<1>4. \A h \in S : items[h] > 0 /\ points[h] > 0 /\ points[h] <= 2
  BY DEF Contents, indexed
<1> HIDE DEF S
<1>5. \A h \in Hash : points[h] \in Nat /\ items[h] \in Nat
  OBVIOUS
<1>6. \A h \in Hash : twice[h] = items[h] * 2 /\ twice[h] \in Nat
  BY <1>5
<1> HIDE DEF twice
<1>7. all <= SumFunctionOnSet(twice, S)
  <2>1. \A h \in S : points[h] \in Int /\ twice[h] \in Int /\ points[h] <= twice[h]
    BY <1>3, <1>4, <1>5, <1>6
  <2> QED  BY <1>3, <2>1, SumAtMost
<1>8. SumFunctionOnSet(twice, S) <= SumFunctionOnSet(twice, Hash)
  BY <1>3, <1>6, HashFinite, SumOfPart
<1>9. SumFunctionOnSet(twice, Hash) = limit
  <2>1. SumFunctionOnSet(twice, Hash) = SumFunctionOnSet(items, Hash) * 2
    <3>1. 2 \in Int /\ \A h \in Hash : items[h] \in Int /\ twice[h] = items[h] * 2
      BY <1>5, <1>6
    <3> QED  BY <3>1, HashFinite, SumScaled
  <2> QED  BY <2>1, TotalIs
<1>10. all \in Nat /\ SumFunctionOnSet(twice, S) \in Nat /\ SumFunctionOnSet(points, e) \in Nat
  <2>1. \A h \in S : points[h] \in Nat /\ twice[h] \in Nat
    BY <1>3, <1>5, <1>6
  <2>2. \A h \in e : points[h] \in Nat
    BY <1>3, <1>5
  <2> QED  BY <1>3, <2>1, <2>2, SumNat
<1>11. limit \in Nat
  BY TotalIs
<1> HIDE DEF all, limit
<1>12. SumFunctionOnSet(points, e) >= all
  BY <1>2, <1>7, <1>8, <1>9, <1>10, <1>11
<1>13. \A h \in S : points[h] \in Nat /\ points[h] > 0
  BY <1>3, <1>4, <1>5
<1> QED  BY <1>2, <1>3, <1>12, <1>13, AllOfIt DEF all, S


-----------------------------------------------------------------------------
(* Quotes and searches, in every state                                     *)

QuoteFits(q) ==
    /\ q.items \in [Hash -> Nat] /\ TotalFound(q.items) <= q.max
    /\ SumFunctionOnSet(q.amounts, DOMAIN q.amounts) + Fee(q.items) = Total(q.items)
    /\ EmbeddedUnlessCrowdedOut(q)

\* Every request's search has found indexed contents, and every quote fits.
QuotesFit ==
    /\ points \in [Hash -> Nat]
    /\ DOMAIN search = Clients
    /\ \A c \in Clients : Searched(search[c]) /\ QuoteFits(quote[c])

\* A step only adds points and only uses up faults.
Grows ==
    /\ points' \in [Hash -> Nat]
    /\ \A h \in Hash : points[h] <= points'[h]
    /\ faults' \in Nat /\ faults' <= faults

\* So what was found and quoted stays so.
LEMMA FitsStays ==
    ASSUME TypeOK, points \in [Hash -> Nat], Grows, NEW q
    PROVE  /\ Searched(q) => Searched(q)'
           /\ QuoteFits(q) => QuoteFits(q)'
<1>1. indexed \subseteq indexed'
  BY DEF Grows, indexed
<1>2. Searched(q) => Searched(q)'
  BY <1>1 DEF Searched
<1>3. faults < MaxFaults => faults' < MaxFaults
  BY ClientAssumption DEF TypeOK, Grows
<1>4. \A h \in Contents(q.items) : points'[h] <= 2 => points[h] <= 2
  BY DEF Grows, Contents
<1>5. EmbeddedUnlessCrowdedOut(q) => EmbeddedUnlessCrowdedOut(q)'
  BY <1>3, <1>4 DEF EmbeddedUnlessCrowdedOut
<1> QED  BY <1>2, <1>5 DEF QuoteFits

LEMMA StepGrows ==
    ASSUME TypeOK, points \in [Hash -> Nat], DatasetNext
    PROVE  Grows
<1>1. [Next]_vars
  BY UnlockStep
<1>2. faults \in Nat
  BY ClientAssumption DEF TypeOK
<1>3. \/ faults' = faults
      \/ faults > 0 /\ faults' = faults - 1
  BY <1>1 DEF Next, vars, VerifyPayment, Refuse, QueryUrls, QueryCut, MarkUsed, Answer, RequestFails,
     FailsElsewhere, Crash, Fault
<1>4. CASE \E h \in Hash : Index(h)
  <2>1. PICK h \in Hash : points' = [points EXCEPT ![h] = @ + Points[h]]
    BY <1>4 DEF Index
  <2>2. Points[h] \in Nat
    BY DatasetAssumption
  <2> QED  BY <1>2, <1>3, <2>1, <2>2 DEF Grows
<1>5. CASE UNCHANGED points
  BY <1>2, <1>3, <1>5 DEF Grows
<1> QED
  BY <1>4, <1>5 DEF DatasetNext, Register, Search, Browse, Select, Embed,
     Pay, ReadUrls, ReadUrlsCut, Mark, Deliver, UnlockFails, CrashAll, dataVars

LEMMA NothingIsSearched ==
    ASSUME NEW n \in Nat, NEW m
    PROVE  /\ Searched(Query(m, n, <<>>)) /\ Searched(NoSearch)
           /\ Nothing \in [Hash -> Nat] /\ TotalFound(Nothing) = 0
<1>1. /\ Nothing \in [Hash -> Nat]
      /\ TotalFound(Nothing) = 0
  <2>1. Nothing \in [Hash -> Nat] /\ \A h \in Hash : Nothing[h] = 0
    BY DEF Nothing
  <2> HIDE DEF Nothing
  <2> QED  BY <2>1, HashFinite, SumOfZeros, TotalIs
<1>2. \A k \in Nat : \A t : Searched(Query(t, k, <<>>))
  BY <1>1 DEF Searched, Query
<1>3. \A t : Searched(Query(t, 0, <<>>))
  BY <1>2
<1>4. Searched(NoSearch)
  BY <1>3 DEF NoSearch
<1> QED  BY <1>1, <1>2, <1>4

\* What a Qdrant search answers: indexed contents.
LEMMA AnswerIsSearched ==
    ASSUME NEW m, NEW n \in Nat, NEW s \in Answers(n)
    PROVE  Searched(Query(m, n, s))
<1>1. PICK k \in 1..Limit(n) : s \in [1..k -> indexed]
  BY DEF Answers
<1>2. k \in Nat
  BY <1>1 DEF Limit
<1>3. s \in Seq(Hash)
  <2>1. s \in [1..k -> Hash]
    BY <1>1 DEF indexed
  <2> QED  BY <1>2, <2>1, SeqDef
<1>4. \A i \in DOMAIN s : s[i] \in indexed
  BY <1>1
<1> QED  BY <1>3, <1>4, NothingIsSearched, NothingIsEmpty DEF Searched, Query

LEMMA QuantityType == \A n \in Asked : Quantity(n) \in Nat
  BY DatasetAssumption DEF Quantity

\* What is selected of a search fits it.
LEMMA SelectionFits ==
    ASSUME NEW q, Searched(q), IsQuery(q), NEW items \in [Hash -> Nat], TotalFound(items) <= q.max,
           q.found # <<>> => Contents(items) \subseteq indexed
    PROVE  Searched([q EXCEPT !.items = items])
<1>1. [q EXCEPT !.items = items]
        = [type |-> q.type, max |-> q.max, found |-> q.found, items |-> items]
  BY DEF IsQuery
<1> QED  BY <1>1 DEF Searched

\* The search of a step: one is new, one is selected from, one is over, or none
\* changes.
LEMMA SearchedStep ==
    ASSUME TypeOK, RowsAndQuotes, QuotesFit, DatasetNext
    PROVE  /\ DOMAIN search' = Clients
           /\ \A c \in Clients : Searched(search[c])'
<1>1. points \in [Hash -> Nat] /\ Grows
  BY StepGrows DEF QuotesFit
<1>2. ASSUME NEW c \in Clients, NEW q, Searched(q), search'[c] = q
      PROVE  Searched(search[c])'
  <2>1. Searched(q)'
    BY <1>1, <1>2, FitsStays
  <2> QED  BY <1>2, <2>1 DEF Searched
<1>3. ASSUME NEW c \in Clients, NEW q, Searched(q), search' = [search EXCEPT ![c] = q]
      PROVE  /\ DOMAIN search' = Clients
             /\ \A d \in Clients : Searched(search[d])'
  <2>1. ASSUME NEW d \in Clients PROVE Searched(search[d])'
    <3>1. PICK r : r = IF d = c THEN q ELSE search[d]
      OBVIOUS
    <3>2. Searched(r) /\ search'[d] = r
      BY <1>3, <3>1 DEF QuotesFit
    <3> QED  BY <1>2, <3>2
  <2> QED  BY <1>3, <2>1 DEF QuotesFit
<1>4. ASSUME NEW c \in Clients, NEW q, Searched(q), IsQuery(q), NEW items, Selected(c, q, items),
             items \in [Hash -> Nat], TotalFound(items) <= q.max,
             q.found # <<>> => Contents(items) \subseteq indexed
      PROVE  /\ DOMAIN search' = Clients
             /\ \A d \in Clients : Searched(search[d])'
  <2>1. PICK r : /\ r = IF items = Nothing THEN NoSearch ELSE [q EXCEPT !.items = items]
                 /\ search' = [search EXCEPT ![c] = r]
    BY <1>4 DEF Selected
  <2>2. Searched(r)
    BY <1>4, <2>1, SelectionFits, NothingIsSearched
  <2> QED  BY <1>3, <2>1, <2>2
<1>5. CASE \E c \in Clients, h \in Hash, a \in Asked : Search(c, MediaType[h], Quantity(a))
  <2>1. PICK c \in Clients, h \in Hash, a \in Asked : Search(c, MediaType[h], Quantity(a))
    BY <1>5
  <2>2. PICK m : m = MediaType[h]
    OBVIOUS
  <2>3. PICK s \in Answers(Quantity(a)) : search' = [search EXCEPT ![c] = Query(m, Quantity(a), s)]
    BY <2>1, <2>2 DEF Search
  <2>4. Searched(Query(m, Quantity(a), s))
    BY <2>3, QuantityType, AnswerIsSearched
  <2> QED  BY <1>3, <2>3, <2>4
<1>6. CASE \E c \in Clients : Select(c)
  <2>1. PICK c \in Clients : Select(c)
    BY <1>6
  <2>2. PICK q : q = search[c]
    OBVIOUS
  <2>3. PICK R \in SUBSET OnOffer(q.type) : Selected(c, q, Items(q, R))
    BY <2>1, <2>2 DEF Select
  <2>4. PICK items : items = Items(q, R)
    OBVIOUS
  <2>5. Searched(q) /\ IsQuery(q)
    BY <2>2 DEF QuotesFit, RowsAndQuotes
  <2>6. items \in [Hash -> Nat] /\ TotalFound(items) <= q.max
    BY <2>4, <2>5, ItemsTotal
  <2>7. Contents(items) \subseteq indexed
    <3> SUFFICES ASSUME NEW h \in Contents(items) PROVE h \in indexed
      OBVIOUS
    <3>1. {i \in Taken(q, R) : q.found[i] = h} # {}
      BY <2>4, FS_EmptySet DEF Contents, Items
    <3>2. PICK i \in DOMAIN q.found : q.found[i] = h
      BY <3>1, <2>5, Positions
    <3> QED  BY <2>5, <3>2 DEF Searched
  <2> QED  BY <1>4, <2>3, <2>4, <2>5, <2>6, <2>7
<1>7. CASE \E c \in Clients, h \in Hash, a \in Asked : Browse(c, MediaType[h], Quantity(a))
  <2>1. PICK c \in Clients, h \in Hash, a \in Asked : Browse(c, MediaType[h], Quantity(a))
    BY <1>7
  <2>2. PICK m : m = MediaType[h]
    OBVIOUS
  <2>3. PICK n \in Nat : n = Quantity(a)
    BY QuantityType
  <2> DEFINE q == Query(m, n, <<>>)
             Each(S) == [k \in Hash |-> IF k \in S THEN 1 ELSE 0]
  <2>4. PICK R \in SUBSET OnOffer(m), S \in SUBSET OnOffer(m) :
              Cardinality(R) <= n /\ Read(R, S) /\ Selected(c, q, Each(S))
    BY <2>1, <2>2, <2>3 DEF Browse
  <2>5. S \subseteq R /\ R \in SUBSET Hash /\ S \in SUBSET Hash
    BY <2>4 DEF Read, OnOffer
  <2>6. Each(S) \in [Hash -> Nat] /\ TotalFound(Each(S)) = Cardinality(S)
    BY <2>5, EachOnce
  <2>7. Cardinality(S) <= n
    <3>1. IsFiniteSet(R)
      BY <2>5, HashFinite
    <3>2. Cardinality(S) <= Cardinality(R) /\ Cardinality(S) \in Nat /\ Cardinality(R) \in Nat
      BY <2>5, <3>1, FS_Subset, FS_CardinalityType
    <3> QED  BY <2>4, <3>2
  <2>8. Searched(q) /\ IsQuery(q) /\ q.max = n /\ ~(q.found # <<>>)
    BY NothingIsSearched DEF Query, IsQuery
  <2> HIDE DEF q, Each
  <2> QED  BY <1>4, <2>4, <2>6, <2>7, <2>8
<1>8. CASE \E c \in Clients : Embed(c)
  <2>1. PICK c \in Clients : search' = [search EXCEPT ![c] = NoSearch]
    BY <1>8 DEF Embed
  <2> QED  BY <1>3, <2>1, NothingIsSearched
<1>9. CASE CrashAll
  <2>1. /\ DOMAIN search' = Clients
        /\ \A c \in Clients : search'[c] = NoSearch
    BY <1>9 DEF CrashAll
  <2> QED  BY <1>2, <2>1, NothingIsSearched
<1>10. CASE UNCHANGED search
  <2>1. ASSUME NEW c \in Clients PROVE Searched(search[c])'
    <3>1. PICK r : r = search[c]
      OBVIOUS
    <3>2. Searched(r) /\ search'[c] = r
      BY <1>10, <3>1 DEF QuotesFit
    <3> QED  BY <1>2, <3>2
  <2> QED  BY <1>10, <2>1 DEF QuotesFit
<1> QED
  BY <1>5, <1>6, <1>7, <1>8, <1>9, <1>10
     DEF DatasetNext, Register, Index, Pay, ReadUrls, ReadUrlsCut, Mark, Deliver, UnlockFails, dataVars

\* The quote of a step: one is new, or none changes.
LEMMA QuoteStep ==
    ASSUME TypeOK, RowsAndQuotes, QuotesFit, DatasetNext
    PROVE  \A c \in Clients : QuoteFits(quote[c])'
<1>1. points \in [Hash -> Nat] /\ Grows
  BY StepGrows DEF QuotesFit
<1>2. ASSUME NEW c \in Clients, quote'[c] = quote[c]
      PROVE  QuoteFits(quote[c])'
  <2>1. PICK q : q = quote[c]
    OBVIOUS
  <2>2. QuoteFits(q) /\ (quote[c])' = q
    BY <1>2, <2>1 DEF QuotesFit
  <2>3. QuoteFits(q)'
    BY <1>1, <2>2, FitsStays
  <2> QED  BY <2>2, <2>3 DEF QuoteFits, EmbeddedUnlessCrowdedOut
<1>3. CASE UNCHANGED quote
  BY <1>2, <1>3
<1>4. CASE \E c \in Clients : Embed(c)
  <2>1. PICK c \in Clients : Embed(c)
    BY <1>4
  <2>2. PICK q : q = search[c]
    OBVIOUS
  <2>3. PICK e : /\ \/ e \in Embeddings(q.items) /\ UNCHANGED vars
                    \/ e = {} /\ FailsElsewhere
                 /\ quote' = [quote EXCEPT ![c] = Quoted(q, e)]
                 /\ UNCHANGED points
    BY <2>1, <2>2 DEF Embed
  <2>4. Searched(q)
    BY <2>2 DEF QuotesFit
  <2>5. PICK r : r = Quoted(q, e)
    OBVIOUS
  <2>6. /\ r.items = q.items /\ r.max = q.max /\ r.embedded = e
        /\ r.amounts = Amounts(q.items) /\ r.searched = (q.found # <<>>)
    BY <2>5 DEF Quoted
  <2>7. r.items \in [Hash -> Nat] /\ TotalFound(r.items) <= r.max
    BY <2>4, <2>6 DEF Searched
  <2>8. SumFunctionOnSet(r.amounts, DOMAIN r.amounts) + Fee(r.items) = Total(r.items)
    BY <2>4, <2>6, AmountsAddUp DEF Searched
  <2>9. EmbeddedUnlessCrowdedOut(r)'
    <3> SUFFICES ASSUME q.found # <<>>, \A h \in Contents(q.items) : points[h] <= 2
                 PROVE  \/ e = Contents(q.items)
                        \/ e = {} /\ faults' < MaxFaults
      BY <2>3, <2>6 DEF EmbeddedUnlessCrowdedOut
    <3>1. CASE e \in Embeddings(q.items)
      BY <1>1, <2>4, <3>1, TwoPerItem DEF Searched
    <3>2. CASE e = {} /\ FailsElsewhere
      BY <3>2, ClientAssumption DEF FailsElsewhere, Fault, TypeOK
    <3> QED  BY <2>3, <3>1, <3>2
  <2>10. QuoteFits(r)'
    BY <2>7, <2>8, <2>9 DEF QuoteFits
  <2>11. ASSUME NEW d \in Clients PROVE QuoteFits(quote[d])'
    <3>1. CASE d = c
      <4>1. (quote[d])' = r
        BY <2>3, <2>5, <3>1 DEF RowsAndQuotes
      <4> QED  BY <2>10, <4>1 DEF QuoteFits, EmbeddedUnlessCrowdedOut
    <3>2. CASE d # c
      <4>1. quote'[d] = quote[d]
        BY <2>3, <3>2 DEF RowsAndQuotes
      <4> QED  BY <1>2, <4>1
    <3> QED  BY <3>1, <3>2
  <2> QED  BY <2>11
<1> QED
  BY <1>3, <1>4
     DEF DatasetNext, Register, Index, Search, Browse, Select, Pay, ReadUrls, ReadUrlsCut, Mark, Deliver,
     UnlockFails, CrashAll, dataVars

LEMMA FitsInit == DatasetInit => QuotesFit
<1> SUFFICES ASSUME DatasetInit PROVE QuotesFit
  OBVIOUS
<1>1. points \in [Hash -> Nat] /\ DOMAIN search = Clients /\ \A c \in Clients : search[c] = NoSearch
  BY DEF DatasetInit
<1>2. /\ Nothing \in [Hash -> Nat]
      /\ TotalFound(Nothing) = 0
      /\ Searched(NoSearch)
  BY NothingIsSearched
<1>3. /\ NoQuote.items = Nothing /\ NoQuote.max = 0 /\ NoQuote.searched = FALSE
      /\ DOMAIN NoQuote.amounts = {}
  BY DEF NoQuote
<1>4. SumFunctionOnSet(NoQuote.amounts, {}) = 0
  BY SumOfNone
<1>5. QuoteFits(NoQuote)
  <2>1. SumFunctionOnSet(NoQuote.amounts, DOMAIN NoQuote.amounts) = 0
    BY <1>3, <1>4
  <2>2. Fee(Nothing) = 0 /\ Total(Nothing) = 0
    BY <1>2 DEF Fee, Total, FeePerItem, Price
  <2> HIDE DEF NoQuote
  <2> QED  BY <1>2, <1>3, <2>1, <2>2 DEF QuoteFits, EmbeddedUnlessCrowdedOut
<1>6. \A c \in Clients : quote[c] = NoQuote
  BY DEF DatasetInit
<1> QED  BY <1>1, <1>2, <1>5, <1>6 DEF QuotesFit

LEMMA FitsStep == TypeOK /\ RowsAndQuotes /\ QuotesFit /\ [DatasetNext]_datasetVars => QuotesFit'
<1> SUFFICES ASSUME TypeOK, RowsAndQuotes, QuotesFit, [DatasetNext]_datasetVars
             PROVE  QuotesFit'
  OBVIOUS
<1>1. CASE DatasetNext
  BY <1>1, SearchedStep, QuoteStep, StepGrows DEF QuotesFit, Grows
<1>2. CASE UNCHANGED datasetVars
  <2>1. UNCHANGED <<points, search, quote, faults>>
    BY <1>2 DEF datasetVars, dataVars, vars
  <2> QED
    BY <2>1 DEF QuotesFit, Searched, QuoteFits, EmbeddedUnlessCrowdedOut, indexed
<1> QED  BY <1>1, <1>2

LEMMA FitsCorrect == DatasetSpec => []QuotesFit
<1>1. DatasetSpec => []TypeOK
  BY DatasetsImplementUnlock, TypeCorrect, PTL
<1> QED  BY <1>1, FitsInit, FitsStep, OfferedCorrect, PTL DEF DatasetSpec

\* QueryDataset never quotes more than was asked for, and the amounts of the
\* creators and the fee make the total.
THEOREM QuotesAddUp == DatasetSpec => []QuoteAddsUp
<1>1. QuotesFit => QuoteAddsUp
  BY DEF QuotesFit, QuoteFits, QuoteAddsUp
<1> QED  BY <1>1, FitsCorrect, PTL

\* Asking Qdrant for twice the quantity, and for two points per item, is enough
\* unless more than the quantity is not on offer or contents have more points.
THEOREM TwiceAsManyAreEnough == DatasetSpec => []TwiceIsEnough
<1>1. QuotesFit => TwiceIsEnough
  BY CrowdedOut DEF QuotesFit, QuoteFits, TwiceIsEnough
<1> QED  BY <1>1, FitsCorrect, PTL
=============================================================================
