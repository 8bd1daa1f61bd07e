----------------------------- MODULE EVMListener -----------------------------
(***************************************************************************)
(* The goroutine started by EVMListener.Start (internal/listener): it      *)
(* reads its checkpoint from Postgres, fetches the logs it missed in       *)
(* batches of blocks, then subscribes to new logs, and hands every         *)
(* ContentRegistered log to the pipeline's workers through the bounded     *)
(* channel eventLog.  The chain, the connection and the process itself are *)
(* the environment: blocks are mined at any time, any external call may    *)
(* fail, the subscription may end, the process may die and be restarted.   *)
(*                                                                         *)
(* A log is identified by its block and its index in the block; both the   *)
(* answers of FilterLogs and the subscription deliver logs in that order,  *)
(* so what is still to be delivered is a set.                              *)
(***************************************************************************)
EXTENDS Naturals, Sequences

CONSTANTS
    Event,       \* the ContentRegistered logs the contract ever emits
    Undecodable, \* those processLog cannot unpack (bad data, fewer than 3 topics)
    Seed,        \* checkpoint row inserted by migration 3, head at deployment
    MaxBlock,    \* bound on the height of the chain
    BatchSize,   \* blocks per FilterLogs call: 10 in the code
    MaxGap,      \* gap beyond which history is skipped: 10000 in the code
    ChanCap,     \* capacity of the channel eventLog: 100 in the code
    MaxFaults    \* bound on failed calls, lost connections and crashes

ASSUME ChainAssumption ==
    /\ Seed \in Nat \ {0}
    /\ MaxBlock \in Nat
    /\ Seed <= MaxBlock
    /\ Event \subseteq [block : (Seed + 1)..MaxBlock, index : Nat]
    /\ Undecodable \subseteq Event

ASSUME BoundsAssumption ==
    /\ BatchSize \in Nat \ {0}
    /\ MaxGap \in Nat
    /\ ChanCap \in Nat \ {0}
    /\ MaxFaults \in Nat

VARIABLES
    head,        \* height of the chain
    checkpoint,  \* sync_checkpoints["evm_listener"] in Postgres
    faults,      \* how many more faults the environment may inject
    pc,          \* where the goroutine is
    lastBlock,   \* local lastBlock, then fromBlock - 1 of the history loop
    currentHead, \* local currentHead
    batch,       \* logs in hand that processLog has not been called for
    saveAt,      \* block number the next SaveCheckpoint call writes
    live,        \* logs the subscription holds for logsChan
    subscribed,  \* the subscription is alive
    eventLog,    \* the channel to the workers
    handed,      \* history: times each log was sent on eventLog
    missed       \* history: logs a step left behind, by cause

localVars  == <<lastBlock, currentHead, saveAt>>
subVars    == <<live, subscribed>>
handVars   == <<batch, eventLog, handed>>
vars == <<head, checkpoint, faults, pc, lastBlock, currentHead, batch, saveAt,
          live, subscribed, eventLog, handed, missed>>

Decodable == Event \ Undecodable

\* The logs of the blocks from..to.
LogsIn(from, to) == {e \in Event : from <= e.block /\ e.block <= to}

Precedes(e, f) == \/ e.block < f.block
                  \/ e.block = f.block /\ e.index <= f.index

\* Mutant: the logs are handed over in any order.
AnyOf(e, S) == e \in S

\* e is the log a reader of S gets first.
IsFirst(e, S) == e \in S /\ \A f \in S : Precedes(e, f)

Goto(from, to) == pc = from /\ pc' = to

Fault == faults > 0 /\ faults' = faults - 1

Miss(cause, S) == missed' = [missed EXCEPT ![cause] = @ \cup S]

Causes == {"window", "reset", "dropped"}

Init ==
    /\ head = Seed
    /\ checkpoint = Seed
    /\ faults = MaxFaults
    /\ pc = "connect"
    /\ lastBlock = 0
    /\ currentHead = 0
    /\ batch = {}
    /\ saveAt = 0
    /\ live = {}
    /\ subscribed = FALSE
    /\ eventLog = <<>>
    /\ handed = [e \in Event |-> 0]
    /\ missed = [c \in Causes |-> {}]

-----------------------------------------------------------------------------
(* The goroutine                                                           *)

\* ethclient.Dial at the top of the loop; when the client is still set
\* (BlockNumber failed) the loop re-enters at "checkpoint".
Dial ==
    /\ Goto("connect", "checkpoint")
    /\ UNCHANGED <<head, checkpoint, faults, localVars, subVars, handVars, missed>>

DialFails ==
    /\ Goto("connect", "connect")
    /\ Fault
    /\ UNCHANGED <<head, checkpoint, localVars, subVars, handVars, missed>>

\* Mutant: an error falls back to the block the migration seeds.
ReadCheckpointOrSeed ==
    /\ Goto("checkpoint", "head")
    /\ \/ lastBlock' = checkpoint /\ UNCHANGED faults
       \/ lastBlock' = Seed /\ Fault
    /\ UNCHANGED <<head, checkpoint, currentHead, saveAt, subVars, handVars, missed>>

\* GetCheckpoint: an error is treated as an absent checkpoint.
ReadCheckpoint ==
    /\ Goto("checkpoint", "head")
    /\ \/ lastBlock' = checkpoint /\ UNCHANGED faults
       \/ lastBlock' = 0 /\ Fault
    /\ UNCHANGED <<head, checkpoint, currentHead, saveAt, subVars, handVars, missed>>

\* Without a checkpoint, or too far behind, the listener starts from the head.
TooFar == lastBlock = 0 \/ (lastBlock < head /\ head - lastBlock > MaxGap)

\* BlockNumber and the choice between a reset, the history and the subscription.
ReadHead ==
    /\ pc = "head"
    /\ currentHead' = head
    /\ \/ /\ TooFar
          /\ lastBlock' = head
          /\ saveAt' = head
          /\ pc' = "reset"
          /\ Miss("reset", LogsIn(checkpoint + 1, head))
       \/ /\ ~TooFar
          /\ pc' = IF lastBlock < head THEN "fetch" ELSE "subscribe"
          /\ UNCHANGED <<lastBlock, saveAt, missed>>
    /\ UNCHANGED <<head, checkpoint, faults, subVars, handVars>>

ReadHeadFails ==
    /\ Goto("head", "checkpoint")
    /\ Fault
    /\ UNCHANGED <<head, checkpoint, localVars, subVars, handVars, missed>>

\* Mutants: the last block is fetched again; the batch is not cut at the head.
FromLastBlock == lastBlock
FullBatch == lastBlock + BatchSize

\* The next batch of the history loop.
FromBlock == lastBlock + 1
ToBlock == IF lastBlock + BatchSize > currentHead
           THEN currentHead ELSE lastBlock + BatchSize

\* FilterLogs for the blocks fromBlock..toBlock.
FetchLogs ==
    /\ Goto("fetch", "history")
    /\ saveAt' = ToBlock
    /\ batch' = LogsIn(FromBlock, ToBlock)
    /\ UNCHANGED <<head, checkpoint, faults, lastBlock, currentHead, subVars,
                   eventLog, handed, missed>>

FetchLogsFails ==
    /\ Goto("fetch", "connect")
    /\ Fault
    /\ UNCHANGED <<head, checkpoint, localVars, subVars, handVars, missed>>

\* Mutant: a log that does not decode is sent all the same.
ProcessLogUnchecked ==
    /\ pc \in {"history", "deliver"}
    /\ \E e \in batch :
         /\ IsFirst(e, batch)
         /\ batch' = batch \ {e}
         /\ Len(eventLog) < ChanCap
         /\ eventLog' = Append(eventLog, e)
         /\ handed' = [handed EXCEPT ![e] = @ + 1]
    /\ UNCHANGED <<head, checkpoint, faults, pc, localVars, subVars, missed>>

\* Mutant: a log is dropped when the channel is full.
ProcessLogOrDrop ==
    /\ pc \in {"history", "deliver"}
    /\ \E e \in batch :
         /\ IsFirst(e, batch)
         /\ batch' = batch \ {e}
         /\ IF e \in Undecodable \/ Len(eventLog) = ChanCap
            THEN UNCHANGED <<eventLog, handed>>
            ELSE /\ eventLog' = Append(eventLog, e)
                 /\ handed' = [handed EXCEPT ![e] = @ + 1]
    /\ UNCHANGED <<head, checkpoint, faults, pc, localVars, subVars, missed>>

\* processLog: a log that does not decode is dropped, any other is sent on
\* eventLog, and the send blocks while the channel is full.
ProcessLog ==
    /\ pc \in {"history", "deliver"}
    /\ \E e \in batch :
         /\ IsFirst(e, batch)
         /\ batch' = batch \ {e}
         /\ \/ /\ e \in Undecodable
               /\ UNCHANGED <<eventLog, handed>>
            \/ /\ e \notin Undecodable
               /\ Len(eventLog) < ChanCap
               /\ eventLog' = Append(eventLog, e)
               /\ handed' = [handed EXCEPT ![e] = @ + 1]
    /\ UNCHANGED <<head, checkpoint, faults, pc, localVars, subVars, missed>>

\* SaveCheckpoint, once every log in hand has been sent.  A failure is
\* logged and the loop goes on as after a success.
SaveCheckpoint ==
    /\ batch = {}
    /\ \/ checkpoint' = saveAt /\ UNCHANGED faults
       \/ Fault /\ UNCHANGED checkpoint
    /\ \/ Goto("reset", "subscribe") /\ UNCHANGED lastBlock
       \/ /\ pc = "history"
          /\ lastBlock' = saveAt
          /\ pc' = IF saveAt < currentHead THEN "fetch" ELSE "subscribe"
       \/ Goto("deliver", "live") /\ UNCHANGED lastBlock
    /\ UNCHANGED <<head, currentHead, saveAt, subVars, handVars, missed>>

\* SubscribeFilterLogs: the subscription starts with the next block mined.
\* What was mined since BlockNumber was read is neither history nor live.
Subscribe ==
    /\ Goto("subscribe", "live")
    /\ subscribed' = TRUE
    /\ live' = {}
    /\ Miss("window", LogsIn(currentHead + 1, head))
    /\ UNCHANGED <<head, checkpoint, faults, localVars, handVars>>

SubscribeFails ==
    /\ Goto("subscribe", "connect")
    /\ Fault
    /\ UNCHANGED <<head, checkpoint, localVars, subVars, handVars, missed>>

\* The select takes a log from logsChan.
ReceiveLog ==
    /\ Goto("live", "deliver")
    /\ \E e \in live :
         /\ IsFirst(e, live)
         /\ live' = live \ {e}
         /\ batch' = {e}
         /\ saveAt' = e.block
    /\ UNCHANGED <<head, checkpoint, faults, lastBlock, currentHead, subscribed,
                   eventLog, handed, missed>>

\* Mutant: the error is read and the select is entered again.
NoticeDropAndStay ==
    /\ Goto("live", "live")
    /\ ~subscribed
    /\ UNCHANGED <<head, checkpoint, faults, localVars, subVars, handVars, missed>>

\* The select takes errChan: unsubscribe, close the client, connect again.
NoticeDrop ==
    /\ Goto("live", "connect")
    /\ ~subscribed
    /\ UNCHANGED <<head, checkpoint, faults, localVars, subVars, handVars, missed>>

ListenerStep ==
    \/ Dial \/ DialFails
    \/ ReadCheckpoint
    \/ ReadHead \/ ReadHeadFails
    \/ FetchLogs \/ FetchLogsFails
    \/ ProcessLog
    \/ SaveCheckpoint
    \/ Subscribe \/ SubscribeFails
    \/ ReceiveLog
    \/ NoticeDrop

-----------------------------------------------------------------------------
(* Its environment                                                         *)

\* A block is mined; the node pushes its logs to a live subscription.
Mine ==
    /\ head < MaxBlock
    /\ head' = head + 1
    /\ live' = IF subscribed THEN live \cup LogsIn(head', head') ELSE live
    /\ UNCHANGED <<checkpoint, faults, pc, localVars, subscribed, handVars, missed>>

\* The subscription ends; the logs it still held are never delivered.
ConnectionLost ==
    /\ subscribed
    /\ Fault
    /\ subscribed' = FALSE
    /\ live' = {}
    /\ Miss("dropped", live)
    /\ UNCHANGED <<head, checkpoint, pc, localVars, handVars>>

\* The process dies and is started again: only Postgres and the chain remain.
Crash ==
    /\ Fault
    /\ pc' = "connect"
    /\ lastBlock' = 0
    /\ currentHead' = 0
    /\ saveAt' = 0
    /\ batch' = {}
    /\ live' = {}
    /\ subscribed' = FALSE
    /\ eventLog' = <<>>
    /\ Miss("dropped", batch \cup live)
    /\ UNCHANGED <<head, checkpoint, handed>>

\* A worker of the pipeline takes the oldest event.
Receive ==
    /\ eventLog # <<>>
    /\ eventLog' = Tail(eventLog)
    /\ UNCHANGED <<head, checkpoint, faults, pc, localVars, subVars, batch,
                   handed, missed>>

\* The bounded chain has ended and everyone waits for the next log.
Idle ==
    /\ head = MaxBlock
    /\ subscribed /\ pc = "live" /\ live = {} /\ eventLog = <<>>
    /\ UNCHANGED vars

Next ==
    \/ ListenerStep
    \/ Mine
    \/ ConnectionLost
    \/ Crash
    \/ Receive
    \/ Idle

Spec == Init /\ [][Next]_vars

\* The goroutine is scheduled and the workers keep receiving.  Nothing is
\* assumed of the chain or of the faults, of which there are MaxFaults.
FairSpec == Spec /\ WF_vars(ListenerStep) /\ WF_vars(Receive)

-----------------------------------------------------------------------------
(* Properties                                                              *)

\* Type invariant of the listener's locals, its tables and the history
\* variables of EVMListener.Start.
TypeOK ==
    /\ head \in Seed..MaxBlock
    /\ checkpoint \in Nat
    /\ faults \in 0..MaxFaults
    /\ pc \in {"connect", "checkpoint", "head", "reset", "fetch", "history",
               "subscribe", "live", "deliver"}
    /\ lastBlock \in Nat
    /\ currentHead \in Nat
    /\ batch \subseteq Event
    /\ saveAt \in Nat
    /\ live \subseteq Event
    /\ subscribed \in BOOLEAN
    /\ eventLog \in Seq(Decodable)
    /\ handed \in [Event -> Nat]
    /\ missed \in [Causes -> SUBSET Event]

\* The three writers of the checkpoint (reset, history, live log) never move
\* it backwards, whatever calls fail in between and however often the loop
\* of EVMListener.Start is re-entered with a stale lastBlock.
CheckpointMonotone == [][checkpoint' >= checkpoint]_vars

\* The checkpoint never runs ahead of the chain: it names mined blocks only.
CheckpointMined == Seed <= checkpoint /\ checkpoint <= head

Missed == missed["window"] \cup missed["reset"] \cup missed["dropped"]

\* A log at or below the checkpoint is never fetched again after a restart.
\* It was sent to the workers, is in the listener's hands, or was left behind
\* in one of three ways only: mined between BlockNumber and
\* SubscribeFilterLogs, skipped by a reset to the head, or held by a
\* subscription or a process that died.
Accounted ==
    \A e \in Decodable :
        e.block <= checkpoint =>
            \/ handed[e] > 0
            \/ e \in batch \cup live
            \/ e \in Missed

\* A log reaches the workers more than once only because something failed in
\* between: at most once more per failed call, lost connection or crash.
OneDeliveryPerFault ==
    \A e \in Event : handed[e] <= 1 + (MaxFaults - faults)

\* The workers are sent the logs in the order of the chain, across history
\* batches and the live subscription, as long as no call has failed.
SentInChainOrder ==
    [][\A e, f \in Event :
          faults = MaxFaults /\ handed[e] > 0 /\ handed'[f] > handed[f]
          => Precedes(e, f)]_vars

\* Every decodable log that is mined ends up with the workers or among the
\* logs left behind, once faults stop: the retry loop of EVMListener.Start
\* never gives up and never blocks for good on the channel.
EventuallyAccounted ==
    \A e \in Decodable :
        (e.block <= head) ~> (handed[e] > 0 \/ e \in Missed)

\* The listener ends up subscribed for good.
EventuallyLive == <>[](subscribed /\ pc \in {"live", "deliver"})

\* README.md:37: the listener "runs constantly" and "when it detects
\* ContentRegistered" the event is downloaded and written.  As a claim on the
\* listener: a log covered by the checkpoint was sent to the workers or is in
\* the listener's hands.
NoMissedEvent ==
    \A e \in Decodable :
        e.block <= checkpoint => handed[e] > 0 \/ e \in batch \cup live
=============================================================================
