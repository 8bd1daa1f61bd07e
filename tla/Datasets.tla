------------------------------ MODULE Datasets ------------------------------
(***************************************************************************)
(* The enterprise API (internal/api): QueryDataset quotes a dataset, found *)
(* by a search in Qdrant or listed from Postgres, and UnlockDataset        *)
(* (module Unlock) answers a payment with the URLs of what was quoted.     *)
(* Registrations go on meanwhile: a row is written once and never changes, *)
(* and its points are indexed after it (module Registry).                  *)
(***************************************************************************)
EXTENDS Unlock, SequencesExt

CONSTANTS
    Hash,            \* contents registered on the chain
    Owner,           \* creator_address of each content
    MediaType,       \* media_type of each content
    Training,        \* contents whose metadata allows AI training
    Points,          \* semantic points each delivery of a content adds
    Asked,           \* quantities asked for; one that is no number counts as 0
    DefaultQuantity  \* 100

ASSUME DatasetAssumption ==
    /\ IsFiniteSet(Hash)
    /\ Training \subseteq Hash
    /\ Points \in [Hash -> Nat]
    /\ Asked \subseteq Nat
    /\ DefaultQuantity \in Nat \ {0}

\* In units of a millionth of a USDC: 1 USDC, of which 5 percent is the fee.
Price == 1000000
FeePerItem == 50000

VARIABLES
    rows,     \* content_records: "absent", "private" or "offered" for training
    points,   \* points of each content in the collection of semantics
    search,   \* each request's query: the parents Qdrant found, the items selected
    quote,    \* the quote each client holds
    urls,     \* contents whose URL each request has read
    outcome   \* history: whether a payment was answered in full, or spoilt by a fault

dataVars == <<rows, points, search, quote, urls, outcome>>
datasetVars == <<vars, dataVars>>

Nothing == [h \in Hash |-> 0]
Query(m, n, s) == [type |-> m, max |-> n, found |-> s, items |-> Nothing]
NoSearch == Query("", 0, <<>>)
NoQuote == [type |-> "", max |-> 0, searched |-> FALSE, items |-> Nothing,
            amounts |-> <<>>, embedded |-> {}]

DatasetInit ==
    /\ Init
    /\ rows = [h \in Hash |-> "absent"]
    /\ points = [h \in Hash |-> 0]
    /\ search = [c \in Clients |-> NoSearch]
    /\ quote = [c \in Clients |-> NoQuote]
    /\ urls = [c \in Clients |-> {}]
    /\ outcome = [t \in Tx |-> "open"]

-----------------------------------------------------------------------------
(* Registration, as far as datasets see it                                 *)

\* The row says what the metadata allow, and nothing if they were not found.
NewRow(h) == IF h \in Training THEN {"offered", "private"} ELSE {"private"}

\* Mutant: a redelivered event overwrites the row.
Upsert(h) ==
    /\ \E r \in NewRow(h) : rows' = [rows EXCEPT ![h] = r]
    /\ UNCHANGED <<vars, points, search, quote, urls, outcome>>

Register(h) ==
    /\ rows[h] = "absent"
    /\ \E r \in NewRow(h) : rows' = [rows EXCEPT ![h] = r]
    /\ UNCHANGED <<vars, points, search, quote, urls, outcome>>

indexed == {h \in Hash : points[h] > 0}

\* A point's id is random: an event delivered again, which takes a fault of the
\* listener, adds its points once more.
Index(h) ==
    /\ rows[h] # "absent"
    /\ points' = [points EXCEPT ![h] = @ + Points[h]]
    /\ \/ h \notin indexed /\ UNCHANGED vars
       \/ h \in indexed /\ FailsElsewhere
    /\ UNCHANGED <<rows, search, quote, urls, outcome>>

-----------------------------------------------------------------------------
(* QueryDataset                                                            *)

Quantity(n) == IF n = 0 THEN DefaultQuantity ELSE n

Times(s, h) == Cardinality({i \in DOMAIN s : s[i] = h})

\* Mutant: as many points as items.
LimitOnce(n) == n

\* The search is for twice the quantity, as some of it will not be on offer.
Limit(n) == 2 * n

\* Qdrant's answer: the parents of the points above the threshold, best first,
\* of every media type.
Answers(n) ==
    UNION {{s \in [1..k -> indexed] : \A h \in indexed : Times(s, h) <= points[h]} :
             k \in 1..Limit(n)}

OnOffer(m) == {h \in Hash : rows[h] = "offered" /\ MediaType[h] = m}

\* The items of a quote are counted by content, each as often as it was found.
Contents(items) == {h \in Hash : items[h] > 0}
TotalFound(items) == SumFunction(items)

\* Mutant: a creator is paid once for a content that is billed several times.
ShareOfContents(items, c) == Cardinality({h \in Contents(items) : Owner[h] = c})

\* creatorCounts: the items of a creator.
Share(items, c) == SumFunctionOnSet(items, {h \in Hash : Owner[h] = c})

Total(items) == TotalFound(items) * Price
Fee(items) == TotalFound(items) * FeePerItem

Amounts(items) ==
    [c \in {Owner[h] : h \in Contents(items)} |-> Share(items, c) * (Price - FeePerItem)]

\* The vectors are read again, by content: at most two points per item, of
\* whichever contents.
Embeddings(items) ==
    LET S == indexed \cap Contents(items)
        limit == 2 * TotalFound(items)
        all == SumFunctionOnSet(points, S)
    IN  {e \in SUBSET S :
           /\ Cardinality(e) <= limit
           /\ SumFunctionOnSet(points, e) >= IF all < limit THEN all ELSE limit}

Quoted(q, e) ==
    [type |-> q.type, max |-> q.max, searched |-> q.found # <<>>,
     items |-> q.items, amounts |-> Amounts(q.items), embedded |-> e]

\* Reading rows: all of R, or any part of them if the connection is lost in
\* between, if a row does not scan or if the query fails.
Read(R, S) ==
    \/ S = R /\ UNCHANGED vars
    \/ S \subseteq R /\ FailsElsewhere

Free(c) == request[c] = Idle /\ search[c] = NoSearch

\* A client asks for one quote; another quote is another client's.
MayAsk(c) == Free(c) /\ quote[c] = NoQuote

\* If the embedding service or Qdrant fails, or finds nothing, there is no data.
Search(c, m, n) ==
    /\ MayAsk(c)
    /\ \E s \in Answers(n) : search' = [search EXCEPT ![c] = Query(m, n, s)]
    /\ UNCHANGED <<vars, rows, points, quote, urls, outcome>>

\* Positions of what was found and whose rows, R, were read, and the first of them.
Kept(q, R) == {i \in DOMAIN q.found : q.found[i] \in R}
Taken(q, R) == {i \in Kept(q, R) : Cardinality({j \in Kept(q, R) : j < i}) < q.max}

Items(q, R) == [h \in Hash |-> Cardinality({i \in Taken(q, R) : q.found[i] = h})]

\* The request goes on with what was selected; nothing, also after an error, is
\* answered as "no data found".
Selected(c, q, items) ==
    search' = [search EXCEPT ![c] = IF items = Nothing THEN NoSearch
                                    ELSE [q EXCEPT !.items = items]]

\* Postgres says which of the contents found are on offer.
Select(c) ==
    /\ search[c].found # <<>> /\ search[c].items = Nothing
    /\ \E R \in SUBSET OnOffer(search[c].type) :
         /\ Read(OnOffer(search[c].type), R)
         /\ Selected(c, search[c], Items(search[c], R))
    /\ UNCHANGED <<rows, points, quote, urls, outcome>>

\* Without a search: any n of the contents on offer, or fewer if fewer are read.
Browse(c, m, n) ==
    /\ MayAsk(c)
    /\ \E R, S \in SUBSET OnOffer(m) :
         /\ Cardinality(R) <= n
         /\ Cardinality(R) = n \/ R = OnOffer(m)
         /\ Read(R, S)
         /\ Selected(c, Query(m, n, <<>>), [h \in Hash |-> IF h \in S THEN 1 ELSE 0])
    /\ UNCHANGED <<rows, points, quote, urls, outcome>>

\* The answer to a request with items: a quote whose vectors cannot be read is
\* answered without them.
Embed(c) ==
    /\ search[c].items # Nothing
    /\ \E e \in SUBSET Hash :
         /\ \/ e \in Embeddings(search[c].items) /\ UNCHANGED vars
            \/ e = {} /\ FailsElsewhere
         /\ quote' = [quote EXCEPT ![c] = Quoted(search[c], e)]
    /\ search' = [search EXCEPT ![c] = NoSearch]
    /\ UNCHANGED <<rows, points, urls, outcome>>

-----------------------------------------------------------------------------
(* UnlockDataset, for the contents of a quote                              *)

Pay(c, t) ==
    /\ Free(c)
    /\ quote[c] # NoQuote
    /\ VerifyPayment(c, t) \/ Refuse(c, t)
    /\ UNCHANGED dataVars

\* Mutant: only the first row of the answer is read.
ReadOneUrl(c) ==
    /\ QueryUrls(c)
    /\ urls' = [urls EXCEPT ![c] = {CHOOSE h \in Contents(quote[c].items) : TRUE}]
    /\ UNCHANGED <<rows, points, search, quote, outcome>>

\* The contents of the quote that have a row, on offer or not; their URL may be
\* empty.
HaveUrl(c) == {h \in Contents(quote[c].items) : rows[h] # "absent"}

ReadUrls(c) ==
    /\ QueryUrls(c)
    /\ urls' = [urls EXCEPT ![c] = HaveUrl(c)]
    /\ UNCHANGED <<rows, points, search, quote, outcome>>

\* History: what a fault leaves of payments that were not answered in full.
Spoil(T) == outcome' = [t \in Tx |-> IF t \in T /\ outcome[t] = "open" THEN "spoilt" ELSE outcome[t]]

\* Some of the URLs are read, and taken for all of them.
ReadUrlsCut(c) ==
    /\ QueryCut(c)
    /\ \E S \in SUBSET HaveUrl(c) : urls' = [urls EXCEPT ![c] = S]
    /\ Spoil({request[c].tx})
    /\ UNCHANGED <<rows, points, search, quote>>

Mark(c) == MarkUsed(c) /\ UNCHANGED dataVars

Whole(c) == urls[c] = Contents(quote[c].items)

Gone(c) == urls' = [urls EXCEPT ![c] = {}]

Deliver(c) ==
    /\ Answer(c)
    /\ outcome' = IF Whole(c) THEN [outcome EXCEPT ![request[c].tx] = "whole"] ELSE outcome
    /\ Gone(c)
    /\ UNCHANGED <<rows, points, search, quote>>

\* A payment that is marked by then is spoilt; one that is not can be used again.
UnlockFails(c) ==
    /\ RequestFails(c)
    /\ Spoil({request[c].tx} \cap used)
    /\ Gone(c)
    /\ UNCHANGED <<rows, points, search, quote>>

\* The process dies with its requests; the clients keep their quotes.
CrashAll ==
    /\ Crash
    /\ Spoil({t \in used : InProgress(t) # {}})
    /\ search' = [c \in Clients |-> NoSearch]
    /\ urls' = [c \in Clients |-> {}]
    /\ UNCHANGED <<rows, points, quote>>

DatasetNext ==
    \/ \E h \in Hash : Register(h) \/ Index(h)
    \/ \E c \in Clients :
         \/ \E h \in Hash, a \in Asked :
              \/ Search(c, MediaType[h], Quantity(a))
              \/ Browse(c, MediaType[h], Quantity(a))
         \/ Select(c) \/ Embed(c)
         \/ \E t \in Tx : Pay(c, t)
         \/ ReadUrls(c) \/ ReadUrlsCut(c) \/ Mark(c) \/ Deliver(c) \/ UnlockFails(c)
    \/ CrashAll

DatasetSpec == DatasetInit /\ [][DatasetNext]_datasetVars

-----------------------------------------------------------------------------
(* Properties                                                              *)

\* A quote is never larger than asked, and adds up: what its creators receive
\* and the fee make the total.
QuoteAddsUp ==
    \A c \in Clients :
        LET q == quote[c]
        IN  /\ TotalFound(q.items) <= q.max
            /\ SumFunctionOnSet(q.amounts, DOMAIN q.amounts) + Fee(q.items) = Total(q.items)

\* A quote may wait for its payment, and rows are written meanwhile: what was
\* quoted allows training, and is of the type asked for, then and later.
QuotedStaysOnOffer ==
    \A c \in Clients : Contents(quote[c].items) \subseteq OnOffer(quote[c].type)

\* A search that reached its limit bills fewer items than asked, if all rows are
\* read, only if more than half of what it found is not on offer.
ShortOnlyIfCrowdedOut(q) ==
    LET R == OnOffer(q.type)
    IN  Len(q.found) = Limit(q.max) /\ TotalFound(Items(q, R)) < q.max
            => Cardinality(DOMAIN q.found \ Kept(q, R)) > q.max

\* Every item that was searched for comes with its vector, unless others have
\* more than two points each or no vector could be read.
EmbeddedUnlessCrowdedOut(q) ==
    q.searched /\ (\A h \in Contents(q.items) : points[h] <= 2)
        => \/ q.embedded = Contents(q.items)
           \/ q.embedded = {} /\ faults < MaxFaults

\* QueryDataset asks Qdrant twice for two points per item, and that is enough,
\* except where other contents or other points, also those of a content that was
\* delivered again, crowd the items out.
TwiceIsEnough ==
    \A c \in Clients :
        ShortOnlyIfCrowdedOut(search[c]) /\ EmbeddedUnlessCrowdedOut(quote[c])

\* A request that still has every URL of its quote to send, or to read.
OnItsWay(c, t) ==
    /\ request[c].tx = t
    /\ request[c].at = "query" \/ Whole(c)

\* A payment that UnlockDataset has marked buys the whole dataset: it was answered
\* with every content of the quote, a request is on its way to do so, or a fault
\* hit a request of this payment itself, cutting its rows (enterprise.go:335) or
\* ending it after the insert (:354).  No other request costs a payer the data.
PaidIsDelivered ==
    \A t \in used : outcome[t] = "open" => \E c \in Clients : OnItsWay(c, t)
=============================================================================
