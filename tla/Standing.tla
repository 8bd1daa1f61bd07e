------------------------------ MODULE Standing ------------------------------
(***************************************************************************)
(* What the registry knows of a content beyond its row: the flags users    *)
(* raised, the publishers that proved their domain, the whitelist and the  *)
(* record on the chain, and the creators of its derivatives.  VerifyExact  *)
(* (internal/content) gathers them one read at a time, takes every read    *)
(* that fails for nothing, and derives a confidence; GenerateCertificate   *)
(* calls it too.  Meanwhile contents are registered and flagged, and       *)
(* publishers verified.                                                    *)
(*                                                                         *)
(* A wallet's address is written in several ways (upper and lower case).   *)
(* The tables keep what they are given; only some queries compare with     *)
(* LOWER.                                                                  *)
(***************************************************************************)
EXTENDS Naturals, FiniteSets

CONSTANTS
    Hash,       \* contents on the chain
    NoHash,     \* no content
    Parent,     \* parent_sha256 of each content, or NoHash
    Wallet,     \* owners of addresses
    Address,    \* addresses as they are written
    WalletOf,   \* whose address it is: equal under LOWER
    Creator,    \* creator_address of each content, as the event spells it
    Seeds,      \* publishers inserted by migration 8
    Requests,   \* requests of VerifyExact or GenerateCertificate at a time
    Domains,    \* requests of VerifyPublisherDomain at a time
    MaxFlags,   \* bound on the flags of a content
    MaxFaults   \* bound on failed calls and crashes

ASSUME StandingAssumption ==
    /\ NoHash \notin Hash
    /\ Parent \in [Hash -> Hash \cup {NoHash}]
    /\ WalletOf \in [Address -> Wallet]
    /\ Creator \in [Hash -> Address]
    /\ Seeds \subseteq Address
    /\ IsFiniteSet(Seeds)
    /\ MaxFlags \in Nat
    /\ MaxFaults \in Nat

VARIABLES
    rows,       \* content_records
    flags,      \* content_flags: the reporters of each content
    publishers, \* verified_publishers, all of them 'active'
    whitelist,  \* wallets the contract says are publishers
    domain,     \* what each VerifyPublisherDomain is about to save
    request,    \* what each VerifyExact is reading, and has read
    faults      \* how many more faults may happen

tables == <<rows, flags, publishers>>
vars == <<tables, whitelist, domain, request, faults>>

NoAddress == "none"

\* was: what held when the request began; failed: whether a read of it failed.
NoAnswer == [onChain |-> FALSE, flags |-> 0, consensus |-> 0, verified |-> FALSE,
             publisherFlags |-> 0, was |-> [verified |-> FALSE, flagged |-> FALSE],
             failed |-> FALSE]
Idle == [at |-> "idle", hash |-> NoHash, answer |-> NoAnswer]

Fault == faults > 0 /\ faults' = faults - 1

Init ==
    /\ rows = {}
    /\ flags = [h \in Hash |-> {}]
    /\ publishers = Seeds
    /\ whitelist \in SUBSET Wallet
    /\ domain = [d \in Domains |-> NoAddress]
    /\ request = [r \in Requests |-> Idle]
    /\ faults = MaxFaults

-----------------------------------------------------------------------------
(* The tables                                                              *)

Register(h) ==
    /\ rows' = rows \cup {h}
    /\ UNCHANGED <<flags, publishers, whitelist, domain, request, faults>>

\* FlagContent: only a registered content has flags, one per reporter.
FlagContent(h, a) ==
    /\ h \in rows
    /\ Cardinality(flags[h] \cup {a}) <= MaxFlags
    /\ flags' = [flags EXCEPT ![h] = @ \cup {a}]
    /\ UNCHANGED <<rows, publishers, whitelist, domain, request, faults>>

\* VerifyPublisherDomain: the file at the domain names the address asked for, in
\* whatever spelling, and the domain.  If not, or if nobody answers within five
\* seconds, it is an error.
FetchFile(d, a) ==
    /\ domain[d] = NoAddress
    /\ domain' = [domain EXCEPT ![d] = a]
    /\ UNCHANGED <<tables, whitelist, request, faults>>

\* SaveVerifiedPublisher, under the address as it was asked for; if Postgres
\* fails it is an error.
SavePublisher(d) ==
    /\ domain[d] # NoAddress
    /\ \/ publishers' = publishers \cup {domain[d]} /\ UNCHANGED faults
       \/ Fault /\ UNCHANGED publishers
    /\ domain' = [domain EXCEPT ![d] = NoAddress]
    /\ UNCHANGED <<rows, flags, whitelist, request>>

\* The owner of the contract changes its whitelist.
Whitelist(w) ==
    /\ whitelist' = IF w \in whitelist THEN whitelist \ {w} ELSE whitelist \cup {w}
    /\ UNCHANGED <<tables, domain, request, faults>>

-----------------------------------------------------------------------------
(* Queries                                                                 *)

Written(w) == {a \in Address : WalletOf[a] = w}

GetFlagCount(h) == Cardinality(flags[h])

\* Creators are told apart as they are written, but the chain writes them alike.
GetConsensusCount(h) ==
    Cardinality({Creator[k] : k \in {k \in rows : k = h \/ Parent[k] = h}})

GetVerifiedPublisher(a) == publishers \cap Written(WalletOf[a]) # {}

\* Mutants: the spelling is compared; the reporter is not.
PublisherFlagsSpelled(h) == Cardinality(flags[h] \cap publishers)
PublisherFlagsOfAll(h) == Cardinality(flags[h] \X publishers)

\* An inner join: a flag counts once per row of its reporter's wallet.
GetVerifiedPublisherFlagCount(h) ==
    Cardinality({x \in flags[h] \X publishers : WalletOf[x[1]] = WalletOf[x[2]]})

-----------------------------------------------------------------------------
(* VerifyExact of a registered content, read by read                       *)

\* From one read to the next, with its result; or without, when it fails.
Read(r, from, to, result) ==
    /\ request[r].at = from
    /\ request' = [request EXCEPT ![r].at = to, ![r].answer = result]
    /\ UNCHANGED <<tables, whitelist, domain>>

ReadOrFail(r, from, to, result) ==
    \/ Read(r, from, to, result) /\ UNCHANGED faults
    \/ Read(r, from, to, [request[r].answer EXCEPT !.failed = TRUE]) /\ Fault

\* The content is found in Redis or Postgres; otherwise there is no match, and
\* no certificate.
Begin(r, h) ==
    /\ request[r].at = "idle"
    /\ h \in rows
    /\ request' = [request EXCEPT ![r] =
         [at |-> "chain", hash |-> h,
          answer |-> [NoAnswer EXCEPT !.was =
            [verified |-> \E a \in publishers : WalletOf[a] = WalletOf[Creator[h]],
             flagged  |-> \E a \in flags[h], b \in publishers : WalletOf[a] = WalletOf[b]]]]]
    /\ UNCHANGED <<tables, whitelist, domain, faults>>

\* crossCheckBlockchain: the row came from the chain, so the CIDs agree; a call
\* that fails is reported as a content that is not there.
CrossCheck(r) ==
    ReadOrFail(r, "chain", "flags", [request[r].answer EXCEPT !.onChain = TRUE])

CountFlags(r) ==
    ReadOrFail(r, "flags", "consensus",
               [request[r].answer EXCEPT !.flags = GetFlagCount(request[r].hash)])

CountConsensus(r) ==
    ReadOrFail(r, "consensus", "whitelist",
               [request[r].answer EXCEPT !.consensus = GetConsensusCount(request[r].hash)])

\* Mutant: the table is asked only if the contract cannot be.
ResolveOnChainOnly(r) ==
    \/ /\ Read(r, "whitelist", "publisherFlags",
               [request[r].answer EXCEPT !.verified = WalletOf[Creator[request[r].hash]] \in whitelist])
       /\ UNCHANGED faults
    \/ /\ Read(r, "whitelist", "publisher", request[r].answer)
       /\ Fault

\* resolvePublisher: the contract first; if it says no, or fails, the table.
ResolveOnChain(r) ==
    \/ /\ Read(r, "whitelist", "publisherFlags", [request[r].answer EXCEPT !.verified = TRUE])
       /\ WalletOf[Creator[request[r].hash]] \in whitelist
       /\ UNCHANGED faults
    \/ /\ Read(r, "whitelist", "publisher", request[r].answer)
       /\ IF WalletOf[Creator[request[r].hash]] \in whitelist THEN Fault ELSE UNCHANGED faults

Resolve(r) ==
    ReadOrFail(r, "publisher", "publisherFlags",
               [request[r].answer EXCEPT !.verified = GetVerifiedPublisher(Creator[request[r].hash])])

CountPublisherFlags(r) ==
    ReadOrFail(r, "publisherFlags", "answer",
               [request[r].answer EXCEPT
                  !.publisherFlags = GetVerifiedPublisherFlagCount(request[r].hash)])

\* The answer, or the certificate made of it.
Answer(r) ==
    /\ request[r].at = "answer"
    /\ request' = [request EXCEPT ![r] = Idle]
    /\ UNCHANGED <<tables, whitelist, domain, faults>>

\* The confidence of an exact match, verified publisher or not.
Confidence(a) == IF a.publisherFlags > 0 THEN 50 ELSE 100

Crash ==
    /\ Fault
    /\ domain' = [d \in Domains |-> NoAddress]
    /\ request' = [r \in Requests |-> Idle]
    /\ UNCHANGED <<tables, whitelist>>

VerifyStep(r) ==
    \/ \E h \in Hash : Begin(r, h)
    \/ CrossCheck(r) \/ CountFlags(r) \/ CountConsensus(r)
    \/ ResolveOnChain(r) \/ Resolve(r) \/ CountPublisherFlags(r) \/ Answer(r)

Next ==
    \/ \E h \in Hash : Register(h) \/ \E a \in Address : FlagContent(h, a)
    \/ \E d \in Domains : SavePublisher(d) \/ \E a \in Address : FetchFile(d, a)
    \/ \E w \in Wallet : Whitelist(w)
    \/ \E r \in Requests : VerifyStep(r)
    \/ Crash

Spec == Init /\ [][Next]_vars

-----------------------------------------------------------------------------
(* Properties                                                              *)

Answers == [onChain : BOOLEAN, flags : Nat, consensus : Nat, verified : BOOLEAN,
            publisherFlags : Nat,
            was : [verified : BOOLEAN, flagged : BOOLEAN], failed : BOOLEAN]

\* Type invariant of the tables, and of the requests in progress.
TypeOK ==
    /\ rows \subseteq Hash
    /\ flags \in [Hash -> SUBSET Address]
    /\ publishers \subseteq Address
    /\ whitelist \subseteq Wallet
    /\ domain \in [Domains -> Address \cup {NoAddress}]
    /\ request \in [Requests -> [at : {"idle", "chain", "flags", "consensus", "whitelist",
                                       "publisher", "publisherFlags", "answer"},
                                 hash : Hash \cup {NoHash}, answer : Answers]]
    /\ \A r \in Requests : request[r].at = "idle" => request[r] = Idle
    /\ faults \in 0..MaxFaults

Answered(r) == request[r].at = "answer"

\* A content that a verified publisher had flagged before the request came does
\* not keep its full confidence, however the publisher's address is written,
\* unless a read of the request failed.
FlaggedLosesConfidence ==
    \A r \in Requests :
        LET a == request[r].answer
        IN  Answered(r) /\ a.was.flagged => Confidence(a) = 50 \/ a.failed

\* The contents of a publisher that proved its domain are answered as such from
\* then on, whatever the contract's whitelist says or fails to say, unless a
\* read failed.
VerifiedOnceSaved ==
    \A r \in Requests :
        LET a == request[r].answer
        IN  Answered(r) /\ a.was.verified => a.verified \/ a.failed

\* The flags of publishers are among the flags of the same answer.  There are
\* more of them only if the two queries did not see the same flags, or a wallet
\* was verified under more than one spelling.
PublisherFlagsAmongFlags ==
    \A r \in Requests :
        LET a == request[r].answer
        IN  Answered(r) /\ a.publisherFlags > a.flags
                => \/ GetFlagCount(request[r].hash) > a.flags
                   \/ \E w \in Wallet : Cardinality(publishers \cap Written(w)) > 1
=============================================================================
