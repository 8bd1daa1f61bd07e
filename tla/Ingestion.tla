------------------------------ MODULE Ingestion ------------------------------
(***************************************************************************)
(* The listener composed with the pipeline of internal/listener: a fixed   *)
(* number of workers, each taking one event at a time from eventLog and    *)
(* calling Register for it.  A failed Register is logged and the event is  *)
(* gone.  How Register itself works is module Registry; here it either     *)
(* returns nil or an error.                                                *)
(***************************************************************************)
EXTENDS EVMListener, FiniteSets

CONSTANTS
    Workers,   \* the workers started by Pipeline.Start: 5 in main
    NoEvent,   \* what an idle worker holds
    MaxErrors  \* bound on the calls of Register that return an error

ASSUME WorkersAssumption ==
    /\ NoEvent \notin Event
    /\ IsFiniteSet(Workers)
    /\ MaxErrors \in Nat

VARIABLES
    work,      \* the event each worker is processing
    stored,    \* events for which Register has returned nil
    errors     \* how many more calls of Register may fail

ingestVars == <<vars, work, stored, errors>>

IngestInit ==
    /\ Init
    /\ work = [w \in Workers |-> NoEvent]
    /\ stored = {}
    /\ errors = MaxErrors

\* Mutant: a busy worker drops its event for the next one.
TakeWhileBusy(w) ==
    /\ Receive
    /\ work' = [work EXCEPT ![w] = Head(eventLog)]
    /\ UNCHANGED <<stored, errors>>

\* A worker takes the oldest event from the channel.
Take(w) ==
    /\ work[w] = NoEvent
    /\ Receive
    /\ work' = [work EXCEPT ![w] = Head(eventLog)]
    /\ UNCHANGED <<stored, errors>>

\* processEvent returns nil.
Finish(w) ==
    /\ work[w] # NoEvent
    /\ stored' = stored \cup {work[w]}
    /\ work' = [work EXCEPT ![w] = NoEvent]
    /\ UNCHANGED <<vars, errors>>

\* processEvent returns an error: the worker logs it and takes the next event.
Fail(w) ==
    /\ work[w] # NoEvent
    /\ errors > 0
    /\ errors' = errors - 1
    /\ work' = [work EXCEPT ![w] = NoEvent]
    /\ UNCHANGED <<vars, stored>>

\* The workers die with the process.
CrashAll ==
    /\ Crash
    /\ work' = [w \in Workers |-> NoEvent]
    /\ UNCHANGED <<stored, errors>>

WorkerStep(w) == Take(w) \/ Finish(w) \/ Fail(w)

ListenerAlone ==
    /\ ListenerStep \/ Mine \/ ConnectionLost
    /\ UNCHANGED <<work, stored, errors>>

\* The bounded chain has ended and everyone waits.
AllIdle ==
    /\ Idle
    /\ \A w \in Workers : work[w] = NoEvent
    /\ UNCHANGED <<work, stored, errors>>

IngestNext ==
    \/ ListenerAlone
    \/ \E w \in Workers : WorkerStep(w)
    \/ CrashAll
    \/ AllIdle

IngestSpec == IngestInit /\ [][IngestNext]_ingestVars

\* The goroutines are scheduled; the gateways answer within their timeout, and
\* a call to the node or a store returns, at the latest when its connection ends.
FairIngestSpec ==
    /\ IngestSpec
    /\ WF_ingestVars(ListenerStep /\ UNCHANGED <<work, stored, errors>>)
    /\ \A w \in Workers : WF_ingestVars(WorkerStep(w))

-----------------------------------------------------------------------------
(* Refinement of EventDelivery                                             *)

InFlight == {e \in Event :
                \/ e \in batch \cup live
                \/ \E i \in DOMAIN eventLog : eventLog[i] = e
                \/ \E w \in Workers : work[w] = e}

StatusOf(e) ==
    IF e \in stored THEN "registered"
    ELSE IF e.block > head THEN "future"
    ELSE IF e \in InFlight THEN "flight"
    ELSE IF e.block > checkpoint THEN "mined"
    ELSE "lost"

Delivery == INSTANCE EventDelivery
            WITH Event <- Decodable, status <- [e \in Decodable |-> StatusOf(e)]

\* The listener and its workers implement EventDelivery: a log is lost or
\* registered for good, and leaves the hands of Start and processEvent.
DeliverySpec == Delivery!Spec

-----------------------------------------------------------------------------
(* Properties                                                              *)

\* Type invariant of the workers of Pipeline.Start.
IngestTypeOK ==
    /\ work \in [Workers -> Decodable \cup {NoEvent}]
    /\ stored \subseteq Decodable
    /\ errors \in 0..MaxErrors

\* A log that was sent waits in the channel, is with a worker, or has been
\* registered.  A failed Register takes one log away, a crash at most what the
\* channel and the workers held, and nothing else takes any.
Forfeited == {e \in Decodable : handed[e] > 0 /\ e \notin InFlight \cup stored}

LossPerFault ==
    Cardinality(Forfeited) <= (ChanCap + Cardinality(Workers)) * (MaxFaults - faults)
                                + (MaxErrors - errors)

\* Every log the listener sends is registered in the end, as long as nothing
\* fails: no worker gives an event up, and none waits for ever.
RegisteredUnlessFault ==
    \A e \in Decodable :
        (handed[e] > 0) ~> \/ e \in stored
                           \/ faults < MaxFaults
                           \/ errors < MaxErrors
=============================================================================
