------------------------------- MODULE Unlock -------------------------------
(***************************************************************************)
(* UnlockDataset (internal/api): a request names a payment transaction and *)
(* is answered with the URLs of a dataset, unless the table                *)
(* used_transactions already holds the transaction.  The look-up, the      *)
(* query for the URLs and the insert are three statements outside of any   *)
(* database transaction, and requests run concurrently.                    *)
(***************************************************************************)
EXTENDS Naturals, FiniteSets

CONSTANTS
    Tx,         \* payment transactions
    NoTx,       \* what an idle connection holds
    Clients,    \* requests served at the same time
    MaxFaults   \* bound on failed statements and crashes

ASSUME ClientAssumption ==
    /\ NoTx \notin Tx
    /\ IsFiniteSet(Clients)
    /\ MaxFaults \in Nat

VARIABLES
    used,      \* used_transactions in Postgres
    request,   \* what each request is doing, for which transaction
    unlocked,  \* history: answers with URLs, per transaction
    racing,    \* history: requests in progress when a transaction was first marked
    faults     \* how many more faults may happen

vars == <<used, request, unlocked, racing, faults>>

Idle == [at |-> "idle", tx |-> NoTx]

Fault == faults > 0 /\ faults' = faults - 1

Init ==
    /\ used = {}
    /\ request = [c \in Clients |-> Idle]
    /\ unlocked = [t \in Tx |-> 0]
    /\ racing = [t \in Tx |-> 0]
    /\ faults = MaxFaults

Go(c, from, to) == request[c].at = from /\ request' = [request EXCEPT ![c].at = to]

InProgress(t) == {c \in Clients : request[c].tx = t}

End(c) == request' = [request EXCEPT ![c] = Idle]

\* Mutant: the answer of the look-up is ignored.
AnyTx(t) == TRUE

\* verifyPayment: the transaction has not been redeemed.
Redeemable(t) == t \notin used

VerifyPayment(c, t) ==
    /\ request[c].at = "idle"
    /\ Redeemable(t)
    /\ request' = [request EXCEPT ![c] = [at |-> "query", tx |-> t]]
    /\ UNCHANGED <<used, unlocked, racing, faults>>

\* The transaction has been redeemed: an error, and nothing changes.
Refuse(c, t) ==
    /\ request[c].at = "idle"
    /\ ~Redeemable(t)
    /\ UNCHANGED vars

\* The URLs are read; the hashes asked for are not compared with the payment.
QueryUrls(c) ==
    /\ Go(c, "query", "mark")
    /\ UNCHANGED <<used, unlocked, racing, faults>>

\* The connection is lost between two rows, or a row does not scan: neither
\* rows.Err() nor the error of Scan is looked at, and the request goes on.
QueryCut(c) ==
    /\ Go(c, "query", "mark")
    /\ Fault
    /\ UNCHANGED <<used, unlocked, racing>>

\* Mutant: the answer is sent although the transaction could not be marked.
MarkUsedOrNot(c) ==
    /\ Go(c, "mark", "answer")
    /\ \/ used' = used \cup {request[c].tx} /\ UNCHANGED faults
       \/ Fault /\ UNCHANGED used
    /\ UNCHANGED <<unlocked, racing>>

\* INSERT ... ON CONFLICT DO NOTHING: no error if another request was faster.
MarkUsed(c) ==
    /\ Go(c, "mark", "answer")
    /\ LET t == request[c].tx
       IN  /\ used' = used \cup {t}
           /\ racing' = IF t \in used THEN racing
                        ELSE [racing EXCEPT ![t] = Cardinality(InProgress(t))]
    /\ UNCHANGED <<unlocked, faults>>

Answer(c) ==
    /\ request[c].at = "answer"
    /\ unlocked' = [unlocked EXCEPT ![request[c].tx] = @ + 1]
    /\ End(c)
    /\ UNCHANGED <<used, racing, faults>>

\* A statement fails, or the client is gone before the answer: an error, and
\* what was inserted stays.
RequestFails(c) ==
    /\ request[c].at # "idle"
    /\ Fault
    /\ End(c)
    /\ UNCHANGED <<used, unlocked, racing>>

Crash ==
    /\ Fault
    /\ request' = [c \in Clients |-> Idle]
    /\ UNCHANGED <<used, unlocked, racing>>

\* A call of another request of the API fails.
FailsElsewhere ==
    /\ Fault
    /\ UNCHANGED <<used, request, unlocked, racing>>

Next ==
    \/ \E c \in Clients :
         \/ \E t \in Tx : VerifyPayment(c, t) \/ Refuse(c, t)
         \/ QueryUrls(c) \/ QueryCut(c) \/ MarkUsed(c) \/ Answer(c)
         \/ RequestFails(c)
    \/ FailsElsewhere
    \/ Crash

Spec == Init /\ [][Next]_vars

-----------------------------------------------------------------------------
(* Properties                                                              *)

\* Type invariant of the table and of the requests of UnlockDataset.
TypeOK ==
    /\ used \subseteq Tx
    /\ request \in [Clients -> {Idle} \cup [at : {"query", "mark", "answer"}, tx : Tx]]
    /\ unlocked \in [Tx -> Nat]
    /\ racing \in [Tx -> Nat]
    /\ faults \in 0..MaxFaults

\* A payment cannot be replayed once it was redeemed (enterprise.go:343): it
\* unlocks no more often than there were requests for it in progress when it was
\* first marked, whatever requests come later and however they fail.
NoReplayOnceMarked ==
    \A t \in used : unlocked[t] + Cardinality(InProgress(t)) <= racing[t]

\* What enterprise.go:362 calls double-spend protection: one payment unlocks one
\* dataset.  It does not hold of requests that overlap.
UnlockedOnce == \A t \in Tx : unlocked[t] <= 1

\* Once an answer has been sent, the transaction is redeemed, and stays so
\* across restarts: every later look-up refuses it.
AnsweredIsUsed == \A t \in Tx : unlocked[t] > 0 => t \in used
=============================================================================
