-------------------------- MODULE Ingestion_proofs --------------------------
(***************************************************************************)
(* Proofs about EVMListener and Ingestion, for every chain, batch size,    *)
(* gap, channel capacity, number of workers and of faults.  The listener   *)
(* on its own first.  Then the composition: putting the worker pool where  *)
(* EVMListener has an anonymous receiver changes nothing for the listener, *)
(* so everything proved of it holds of the composition; what a fault       *)
(* costs; and that a log is settled at most as EventDelivery allows.       *)
(***************************************************************************)
EXTENDS Ingestion, FiniteSetTheorems, TLAPS

-----------------------------------------------------------------------------
(* The listener                                                            *)

\* Blocks and indices of the logs are numbers after the seed.
LEMMA EventType ==
    \A e \in Event : /\ e.block \in Nat /\ e.index \in Nat
                     /\ Seed < e.block /\ e.block <= MaxBlock
  <1>1. Event \subseteq [block : (Seed + 1)..MaxBlock, index : Nat]
    BY ChainAssumption
  <1>2. Seed \in Nat /\ MaxBlock \in Nat
    BY ChainAssumption
  <1> QED  BY <1>1, <1>2

\* The type invariant is inductive.
LEMMA TypeInit == Init => TypeOK
  <1> SUFFICES ASSUME Init PROVE TypeOK
    OBVIOUS
  <1>1. missed \in [Causes -> SUBSET Event]
    BY DEF Init
  <1>2. handed \in [Event -> Nat]
    BY DEF Init
  <1>3. eventLog \in Seq(Decodable)
    BY DEF Init
  <1>4. /\ head \in Seed..MaxBlock /\ checkpoint \in Nat /\ faults \in 0..MaxFaults
        /\ lastBlock \in Nat /\ currentHead \in Nat /\ saveAt \in Nat
    BY ChainAssumption, BoundsAssumption DEF Init
  <1>5. pc = "connect" /\ batch = {} /\ live = {} /\ subscribed = FALSE
    BY DEF Init
  <1> QED  BY <1>1, <1>2, <1>3, <1>4, <1>5 DEF TypeOK

\* Adding logs to one cause keeps the type of missed.
LEMMA MissType ==
    ASSUME missed \in [Causes -> SUBSET Event],
           NEW c \in Causes, NEW S \in SUBSET Event, Miss(c, S)
    PROVE  missed' \in [Causes -> SUBSET Event]
  BY DEF Miss

\* LogsIn selects events.
LEMMA LogsType == ASSUME NEW from, NEW to PROVE LogsIn(from, to) \in SUBSET Event
  BY DEF LogsIn

LEMMA TypeStep == TypeOK /\ [Next]_vars => TypeOK'
  <1> SUFFICES ASSUME TypeOK, [Next]_vars PROVE TypeOK'
    OBVIOUS
  <1> USE ChainAssumption, BoundsAssumption DEF TypeOK
  <1> USE DEF localVars, subVars, handVars, Goto, Fault
  <1>1. CASE Dial \/ DialFails \/ ReadCheckpoint
    BY <1>1 DEF Dial, DialFails, ReadCheckpoint
  <1>2. CASE ReadHead
    <2>1. missed' \in [Causes -> SUBSET Event]
      BY <1>2, MissType, LogsType DEF ReadHead, Causes
    <2> QED  BY <1>2, <2>1 DEF ReadHead
  <1>3. CASE ReadHeadFails \/ FetchLogsFails \/ SubscribeFails \/ NoticeDrop
    BY <1>3 DEF ReadHeadFails, FetchLogsFails, SubscribeFails, NoticeDrop
  <1>4. CASE FetchLogs
    BY <1>4 DEF FetchLogs, FromBlock, ToBlock, LogsIn
  <1>5. CASE ProcessLog
    <2> PICK e \in batch :
            /\ batch' = batch \ {e}
            /\ \/ /\ e \in Undecodable
                  /\ UNCHANGED <<eventLog, handed>>
               \/ /\ e \notin Undecodable
                  /\ eventLog' = Append(eventLog, e)
                  /\ handed' = [handed EXCEPT ![e] = @ + 1]
      BY <1>5 DEF ProcessLog
    <2>1. e \in Event
      OBVIOUS
    <2>2. eventLog' \in Seq(Decodable)
      <3>1. CASE e \in Undecodable
        BY <3>1
      <3>2. CASE e \notin Undecodable
        <4>1. e \in Decodable /\ eventLog' = Append(eventLog, e)
          BY <2>1, <3>2 DEF Decodable
        <4>2. eventLog \in Seq(Decodable)
          OBVIOUS
        <4> HIDE DEF TypeOK
        <4> QED  BY <4>1, <4>2
      <3> QED  BY <3>1, <3>2
    <2>3. handed' \in [Event -> Nat]
      <3>1. handed \in [Event -> Nat] /\ (handed' = handed \/ handed' = [handed EXCEPT ![e] = @ + 1])
        OBVIOUS
      <3> HIDE DEF TypeOK
      <3> QED  BY <2>1, <3>1
    <2> QED  BY <1>5, <2>2, <2>3 DEF ProcessLog
  <1>6. CASE SaveCheckpoint
    BY <1>6 DEF SaveCheckpoint
  <1>7. CASE Subscribe
    <2>1. missed' \in [Causes -> SUBSET Event]
      BY <1>7, MissType, LogsType DEF Subscribe, Causes
    <2> QED  BY <1>7, <2>1 DEF Subscribe
  <1>8. CASE ReceiveLog
    <2> PICK e \in live : /\ live' = live \ {e} /\ batch' = {e} /\ saveAt' = e.block
      BY <1>8 DEF ReceiveLog
    <2> QED  BY <1>8, EventType DEF ReceiveLog
  <1>9. CASE Mine
    BY <1>9 DEF Mine, LogsIn
  <1>10. CASE ConnectionLost
    <2>1. missed' \in [Causes -> SUBSET Event]
      BY <1>10, MissType DEF ConnectionLost, Causes
    <2>2. faults' \in 0..MaxFaults
      BY <1>10 DEF ConnectionLost
    <2>3. live' = {} /\ subscribed' = FALSE
      BY <1>10 DEF ConnectionLost
    <2>4. UNCHANGED <<head, checkpoint, pc, lastBlock, currentHead, saveAt, batch,
                      eventLog, handed>>
      BY <1>10 DEF ConnectionLost
    <2> QED  BY <2>1, <2>2, <2>3, <2>4
  <1>11. CASE Crash
    <2>1. missed' \in [Causes -> SUBSET Event]
      <3>1. Miss("dropped", batch \cup live) /\ batch \cup live \in SUBSET Event
        BY <1>11 DEF Crash
      <3> QED  BY <3>1, MissType DEF Causes
    <2>2. faults' \in 0..MaxFaults
      BY <1>11 DEF Crash
    <2>3. /\ pc' = "connect" /\ lastBlock' = 0 /\ currentHead' = 0 /\ saveAt' = 0
          /\ batch' = {} /\ live' = {} /\ subscribed' = FALSE /\ eventLog' = <<>>
          /\ UNCHANGED <<head, checkpoint, handed>>
      BY <1>11 DEF Crash
    <2>4. eventLog' \in Seq(Decodable)
      BY <2>3
    <2> QED  BY <2>1, <2>2, <2>3, <2>4
  <1>12. CASE Receive
    BY <1>12 DEF Receive
  <1>13. CASE Idle \/ UNCHANGED vars
    BY <1>13 DEF Idle, vars
  <1> QED  BY <1>1, <1>2, <1>3, <1>4, <1>5, <1>6, <1>7, <1>8, <1>9, <1>10,
              <1>11, <1>12, <1>13 DEF Next, ListenerStep

\* The listener's locals, its checkpoint and the channel keep their types.
THEOREM TypeCorrect == Spec => []TypeOK
  BY TypeInit, TypeStep, PTL DEF Spec
-----------------------------------------------------------------------------
(* Where the listener stands                                               *)

\* The checkpoint stays between the seed and the head, and the block the
\* goroutine works at is never behind it: this is why no save moves it back.
Position ==
    /\ Seed <= checkpoint /\ checkpoint <= head /\ currentHead <= head
    /\ pc \notin {"history", "deliver"} => batch = {}
    /\ subscribed => pc \in {"live", "deliver"}
    /\ ~subscribed => live = {}
    /\ pc = "head" => lastBlock \in {0, checkpoint}
    /\ pc = "reset" => saveAt = currentHead /\ checkpoint <= saveAt
    /\ pc \in {"fetch", "history"} => checkpoint <= lastBlock /\ lastBlock < currentHead
    /\ pc = "history" =>
          /\ lastBlock < saveAt /\ saveAt <= currentHead
          /\ \A e \in batch : lastBlock < e.block /\ e.block <= saveAt
    /\ pc = "subscribe" => checkpoint <= currentHead
    /\ pc = "deliver" =>
          /\ checkpoint <= saveAt /\ saveAt <= head
          /\ \A e \in batch : e.block = saveAt
          /\ \A e \in live : saveAt <= e.block /\ e \notin batch
    /\ \A e \in live : checkpoint <= e.block /\ e.block <= head

LEMMA PositionInit == Init => Position
  BY ChainAssumption DEF Init, Position

LEMMA PositionStep == TypeOK /\ TypeOK' /\ Position /\ [Next]_vars => Position'
  <1> SUFFICES ASSUME TypeOK, TypeOK', Position, [Next]_vars PROVE Position'
    OBVIOUS
  <1> USE ChainAssumption, BoundsAssumption DEF Position
  <1> USE DEF localVars, subVars, handVars, Goto, Fault
  <1>0. /\ head \in Nat /\ checkpoint \in Nat /\ lastBlock \in Nat
        /\ currentHead \in Nat /\ saveAt \in Nat
        /\ batch \subseteq Event /\ live \subseteq Event
    BY DEF TypeOK
  <1>1. CASE Dial \/ DialFails \/ ReadCheckpoint
    BY <1>0, <1>1 DEF Dial, DialFails, ReadCheckpoint
  <1>2. CASE ReadHead
    BY <1>0, <1>2 DEF ReadHead, TooFar
  <1>3. CASE ReadHeadFails \/ FetchLogsFails \/ SubscribeFails \/ NoticeDrop
    BY <1>0, <1>3 DEF ReadHeadFails, FetchLogsFails, SubscribeFails, NoticeDrop
  <1>4. CASE FetchLogs
    <2>1. lastBlock < saveAt' /\ saveAt' <= currentHead
      BY <1>0, <1>4 DEF FetchLogs, FromBlock, ToBlock
    <2>2. \A e \in batch' : lastBlock < e.block /\ e.block <= saveAt'
      BY <1>0, <1>4, EventType DEF FetchLogs, FromBlock, ToBlock, LogsIn
    <2> QED  BY <1>0, <1>4, <2>1, <2>2 DEF FetchLogs, FromBlock, ToBlock
  <1>5. CASE ProcessLog
    <2>1. batch' \subseteq batch
      BY <1>5 DEF ProcessLog
    <2>2. UNCHANGED <<head, checkpoint, pc, lastBlock, currentHead, saveAt, live,
                      subscribed>>
      BY <1>5 DEF ProcessLog
    <2>3. pc \in {"history", "deliver"}
      BY <1>5 DEF ProcessLog
    <2> QED  BY <1>0, <2>1, <2>2, <2>3
  <1>6. CASE SaveCheckpoint
    <2>1. checkpoint' \in {checkpoint, saveAt} /\ batch' = {}
      BY <1>6 DEF SaveCheckpoint
    <2>2. UNCHANGED <<head, currentHead, saveAt, live, subscribed>>
      BY <1>6 DEF SaveCheckpoint
    <2>3. CASE pc = "reset"
      BY <1>0, <1>6, <2>1, <2>2, <2>3 DEF SaveCheckpoint
    <2>4. CASE pc = "history"
      BY <1>0, <1>6, <2>1, <2>2, <2>4 DEF SaveCheckpoint
    <2>5. CASE pc = "deliver"
      BY <1>0, <1>6, <2>1, <2>2, <2>5 DEF SaveCheckpoint
    <2> QED  BY <1>6, <2>3, <2>4, <2>5 DEF SaveCheckpoint
  <1>7. CASE Subscribe
    BY <1>0, <1>7 DEF Subscribe
  <1>8. CASE ReceiveLog
    <2> PICK e \in live : /\ IsFirst(e, live)
                          /\ live' = live \ {e} /\ batch' = {e} /\ saveAt' = e.block
      BY <1>8 DEF ReceiveLog
    <2>1. UNCHANGED <<head, checkpoint, currentHead, subscribed>> /\ pc = "live" /\ pc' = "deliver"
      BY <1>8 DEF ReceiveLog
    <2>2. \A f \in live : e.block <= f.block
      BY <1>0, EventType DEF IsFirst, Precedes
    <2> QED  BY <1>0, <2>1, <2>2
  <1>9. CASE Mine
    <2>1. /\ head' = head + 1
          /\ UNCHANGED <<checkpoint, pc, lastBlock, currentHead, saveAt, batch, subscribed>>
      BY <1>9 DEF Mine
    <2>2. \A e \in live' : checkpoint <= e.block /\ e.block <= head'
      BY <1>0, <1>9, <2>1, EventType DEF Mine, LogsIn
    <2>3. pc = "deliver" => \A e \in live' : saveAt <= e.block /\ e \notin batch
      BY <1>0, <1>9, <2>1, EventType DEF Mine, LogsIn
    <2>4. ~subscribed => live' = {}
      BY <1>9 DEF Mine
    <2> QED  BY <1>0, <2>1, <2>2, <2>3, <2>4
  <1>10. CASE ConnectionLost
    BY <1>0, <1>10 DEF ConnectionLost
  <1>11. CASE Crash
    BY <1>0, <1>11 DEF Crash
  <1>12. CASE Receive \/ Idle \/ UNCHANGED vars
    BY <1>0, <1>12 DEF Receive, Idle, vars
  <1> QED  BY <1>1, <1>2, <1>3, <1>4, <1>5, <1>6, <1>7, <1>8, <1>9, <1>10,
              <1>11, <1>12 DEF Next, ListenerStep

LEMMA PositionCorrect == Spec => [](TypeOK /\ Position)
  <1>1. Init => TypeOK /\ Position
    BY TypeInit, PositionInit
  <1>2. TypeOK /\ Position /\ [Next]_vars => TypeOK' /\ Position'
    BY TypeStep, PositionStep
  <1> QED  BY <1>1, <1>2, PTL DEF Spec

\* The checkpoint only names blocks that have been mined.
THEOREM CheckpointIsMined == Spec => []CheckpointMined
  <1>1. Position => CheckpointMined
    BY DEF Position, CheckpointMined
  <1> QED  BY <1>1, PositionCorrect, PTL

\* No writer of the checkpoint ever moves it backwards.
THEOREM CheckpointNeverGoesBack == Spec => CheckpointMonotone
  <1>1. TypeOK /\ Position /\ [Next]_vars => [checkpoint' >= checkpoint]_vars
    <2> SUFFICES ASSUME TypeOK, Position, Next PROVE checkpoint' >= checkpoint
      OBVIOUS
    <2>0. checkpoint \in Nat /\ saveAt \in Nat /\ lastBlock \in Nat
      BY DEF TypeOK
    <2>1. CASE SaveCheckpoint
      <3>1. checkpoint <= saveAt
        BY <2>0, <2>1 DEF SaveCheckpoint, Position, Goto
      <3> QED  BY <2>0, <2>1, <3>1 DEF SaveCheckpoint
    <2>2. CASE ~SaveCheckpoint
      <3>1. checkpoint' = checkpoint
        BY <2>2 DEF Next, ListenerStep, Dial, DialFails, ReadCheckpoint, ReadHead,
             ReadHeadFails, FetchLogs, FetchLogsFails, ProcessLog, Subscribe,
             SubscribeFails, ReceiveLog, NoticeDrop, Mine, ConnectionLost, Crash,
             Receive, Idle, vars
      <3> QED  BY <2>0, <3>1
    <2> QED  BY <2>1, <2>2
  <1> QED  BY <1>1, PositionCorrect, PTL DEF Spec, CheckpointMonotone
-----------------------------------------------------------------------------
(* No log is left behind without a cause                                   *)

Safe(e) == handed[e] > 0 \/ e \in batch \cup live \/ e \in Missed

SafeUpTo(b) == \A e \in Decodable : e.block <= b => Safe(e)

\* How far the logs are accounted for in each phase: the next value of the
\* checkpoint, and the whole chain while the subscription is alive.
Reach ==
    /\ SafeUpTo(checkpoint)
    /\ pc \in {"reset", "history", "deliver"} => SafeUpTo(saveAt)
    /\ pc = "fetch" => SafeUpTo(lastBlock)
    /\ pc = "subscribe" => SafeUpTo(currentHead)
    /\ subscribed => SafeUpTo(head)

\* Adding logs to one cause removes none from the others.
LEMMA MissGrows ==
    ASSUME missed \in [Causes -> SUBSET Event],
           NEW c \in Causes, NEW S \in SUBSET Event, Miss(c, S)
    PROVE  Missed \subseteq Missed' /\ S \subseteq Missed'
  <1>1. \A d \in Causes : missed'[d] = IF d = c THEN missed[d] \cup S ELSE missed[d]
    BY DEF Miss
  <1>2. c \in {"window", "reset", "dropped"}
    BY DEF Causes
  <1> QED  BY <1>1, <1>2 DEF Missed, Causes

\* A log that is accounted for stays so.
LEMMA SafeStep ==
    ASSUME TypeOK, Position, [Next]_vars, NEW e \in Decodable, Safe(e)
    PROVE  Safe(e)'
  <1> USE DEF Safe, localVars, subVars, handVars, Goto
  <1>0. /\ missed \in [Causes -> SUBSET Event] /\ handed \in [Event -> Nat]
        /\ batch \subseteq Event /\ live \subseteq Event /\ e \in Event
        /\ e \notin Undecodable
    BY DEF TypeOK, Decodable
  <1>1. CASE Dial \/ DialFails \/ ReadCheckpoint \/ ReadHeadFails \/ FetchLogsFails
             \/ SaveCheckpoint \/ SubscribeFails \/ NoticeDrop \/ Receive \/ Idle
             \/ UNCHANGED vars
    <2>1. UNCHANGED <<batch, live, handed, missed>>
      BY <1>1 DEF Dial, DialFails, ReadCheckpoint, ReadHeadFails, FetchLogsFails,
           SaveCheckpoint, SubscribeFails, NoticeDrop, Receive, Idle, vars
    <2> QED  BY <2>1 DEF Missed
  <1>2. CASE ReadHead
    <2>1. UNCHANGED <<batch, live, handed>>
      BY <1>2 DEF ReadHead
    <2>2. Missed \subseteq Missed'
      <3>1. CASE TooFar
        <4>1. Miss("reset", LogsIn(checkpoint + 1, head))
          BY <1>2, <3>1 DEF ReadHead
        <4> QED  BY <4>1, <1>0, MissGrows, LogsType DEF Causes
      <3>2. CASE ~TooFar
        BY <1>2, <3>2 DEF ReadHead, Missed
      <3> QED  BY <3>1, <3>2
    <2> QED  BY <2>1, <2>2
  <1>3. CASE FetchLogs
    <2>1. batch = {} /\ UNCHANGED <<live, handed, missed>>
      BY <1>3 DEF FetchLogs, FromBlock, ToBlock, Position
    <2> QED  BY <2>1 DEF Missed
  <1>4. CASE ProcessLog
    <2> PICK f \in batch :
            /\ batch' = batch \ {f}
            /\ \/ /\ f \in Undecodable
                  /\ UNCHANGED <<eventLog, handed>>
               \/ /\ f \notin Undecodable
                  /\ handed' = [handed EXCEPT ![f] = @ + 1]
      BY <1>4 DEF ProcessLog
    <2>1. UNCHANGED <<live, missed>>
      BY <1>4 DEF ProcessLog
    <2>2. e = f => handed'[e] > 0
      BY <1>0
    <2>3. handed[e] > 0 => handed'[e] > 0
      BY <1>0
    <2> QED  BY <1>0, <2>1, <2>2, <2>3 DEF Missed
  <1>5. CASE Subscribe
    <2>1. live = {} /\ UNCHANGED <<batch, handed>>
      BY <1>5 DEF Subscribe, Position
    <2>2. Missed \subseteq Missed'
      <3>1. Miss("window", LogsIn(currentHead + 1, head))
        BY <1>5 DEF Subscribe
      <3> QED  BY <3>1, <1>0, MissGrows, LogsType DEF Causes
    <2> QED  BY <2>1, <2>2
  <1>6. CASE ReceiveLog
    <2>1. batch = {} /\ batch' \cup live' = live /\ UNCHANGED <<handed, missed>>
      BY <1>6 DEF ReceiveLog, Position
    <2> QED  BY <2>1 DEF Missed
  <1>7. CASE Mine
    <2>1. live \subseteq live' /\ UNCHANGED <<batch, handed, missed>>
      BY <1>7 DEF Mine
    <2> QED  BY <2>1 DEF Missed
  <1>8. CASE ConnectionLost
    <2>1. Miss("dropped", live) /\ UNCHANGED <<batch, handed>>
      BY <1>8 DEF ConnectionLost
    <2>2. Missed \subseteq Missed' /\ live \subseteq Missed'
      BY <2>1, <1>0, MissGrows DEF Causes
    <2> QED  BY <2>1, <2>2
  <1>9. CASE Crash
    <2>1. Miss("dropped", batch \cup live) /\ UNCHANGED handed
      BY <1>9 DEF Crash
    <2>2. batch \cup live \in SUBSET Event
      BY <1>0
    <2>3. Missed \subseteq Missed' /\ batch \cup live \subseteq Missed'
      BY <2>1, <2>2, <1>0, MissGrows DEF Causes
    <2> QED  BY <2>1, <2>3
  <1> QED  BY <1>1, <1>2, <1>3, <1>4, <1>5, <1>6, <1>7, <1>8, <1>9
           DEF Next, ListenerStep

LEMMA ReachInit == Init => Reach
  <1> SUFFICES ASSUME Init PROVE Reach
    OBVIOUS
  <1>1. SafeUpTo(checkpoint)
    BY EventType, ChainAssumption DEF Init, SafeUpTo, Decodable
  <1> QED  BY <1>1 DEF Init, Reach

\* What was accounted for up to a block stays accounted for up to it.
LEMMA SafeUpToStep ==
    ASSUME TypeOK, Position, [Next]_vars, NEW b, SafeUpTo(b)
    PROVE  \A e \in Decodable : e.block <= b => Safe(e)'
  BY SafeStep DEF SafeUpTo

LEMMA ReachStep == TypeOK /\ Position /\ Position' /\ Reach /\ [Next]_vars => Reach'
  <1> SUFFICES ASSUME TypeOK, Position, Position', Reach, [Next]_vars PROVE Reach'
    OBVIOUS
  <1> USE DEF localVars, subVars, handVars, Goto
  <1>0. /\ head \in Nat /\ checkpoint \in Nat /\ lastBlock \in Nat
        /\ currentHead \in Nat /\ saveAt \in Nat /\ BatchSize \in Nat
        /\ missed \in [Causes -> SUBSET Event]
        /\ \A e \in Decodable : e \in Event /\ e.block \in Nat
    BY EventType, ChainAssumption, BoundsAssumption DEF TypeOK, Decodable
  <1>a. \A e \in Decodable : e.block <= checkpoint => Safe(e)'
    BY SafeUpToStep DEF Reach
  <1>b. subscribed => \A e \in Decodable : e.block <= head => Safe(e)'
    BY SafeUpToStep DEF Reach
  <1>c. pc \in {"reset", "history", "deliver"} =>
            \A e \in Decodable : e.block <= saveAt => Safe(e)'
    BY SafeUpToStep DEF Reach
  <1>d. pc = "fetch" => \A e \in Decodable : e.block <= lastBlock => Safe(e)'
    BY SafeUpToStep DEF Reach
  <1>e. pc = "subscribe" => \A e \in Decodable : e.block <= currentHead => Safe(e)'
    BY SafeUpToStep DEF Reach
  <1> USE DEF Reach, SafeUpTo
  <1>1. CASE Dial \/ DialFails \/ ReadCheckpoint \/ ReadHeadFails \/ FetchLogsFails
             \/ SubscribeFails \/ NoticeDrop \/ Receive \/ Idle \/ ProcessLog
             \/ UNCHANGED vars
    <2>1. /\ UNCHANGED <<head, checkpoint, saveAt, currentHead, subscribed>>
          /\ pc' = pc \/ pc' \in {"connect", "checkpoint", "head"}
          /\ pc = "fetch" /\ pc' = pc => lastBlock' = lastBlock
      BY <1>1 DEF Dial, DialFails, ReadCheckpoint, ReadHeadFails, FetchLogsFails,
           SubscribeFails, NoticeDrop, Receive, Idle, ProcessLog, vars
    <2> QED  BY <2>1, <1>a, <1>b, <1>c, <1>d, <1>e
  <1>2. CASE ReadHead
    <2>1. /\ UNCHANGED <<head, checkpoint, subscribed>> /\ currentHead' = head
          /\ ~subscribed
      BY <1>2 DEF ReadHead, Position
    <2>2. CASE TooFar
      <3>1. pc' = "reset" /\ saveAt' = head /\ Miss("reset", LogsIn(checkpoint + 1, head))
        BY <1>2, <2>2 DEF ReadHead
      <3>2. LogsIn(checkpoint + 1, head) \subseteq Missed'
        BY <3>1, <1>0, MissGrows, LogsType DEF Causes
      <3>3. \A e \in Decodable : e.block <= saveAt' => Safe(e)'
        <4> SUFFICES ASSUME NEW e \in Decodable, e.block <= head PROVE Safe(e)'
          BY <3>1
        <4>1. CASE e.block <= checkpoint
          BY <4>1, <1>a
        <4>2. CASE ~(e.block <= checkpoint)
          <5>1. e \in LogsIn(checkpoint + 1, head)
            BY <4>2, <1>0 DEF LogsIn
          <5> QED  BY <5>1, <3>2 DEF Safe
        <4> QED  BY <4>1, <4>2
      <3> QED  BY <2>1, <3>1, <3>3, <1>a
    <2>3. CASE ~TooFar
      <3>1. lastBlock = checkpoint /\ lastBlock' = lastBlock /\ saveAt' = saveAt
        BY <1>2, <2>3 DEF ReadHead, Position, TooFar
      <3>2. pc' \in {"fetch", "subscribe"} /\ (pc' = "subscribe" => ~(lastBlock < head))
        BY <1>2, <2>3 DEF ReadHead
      <3>3. pc' = "subscribe" => \A e \in Decodable : e.block <= currentHead' => Safe(e)'
        BY <1>0, <1>a, <2>1, <3>1, <3>2
      <3>4. pc' = "fetch" => \A e \in Decodable : e.block <= lastBlock' => Safe(e)'
        BY <1>a, <3>1
      <3> QED  BY <2>1, <3>2, <3>3, <3>4, <1>a
    <2> QED  BY <2>2, <2>3
  <1>3. CASE FetchLogs
    <2>1. /\ UNCHANGED <<head, checkpoint, currentHead, subscribed>>
          /\ pc = "fetch" /\ pc' = "history" /\ batch' = LogsIn(lastBlock + 1, saveAt')
      BY <1>3 DEF FetchLogs, FromBlock, ToBlock
    <2>2. \A e \in Decodable : e.block <= saveAt' => Safe(e)'
      <3> SUFFICES ASSUME NEW e \in Decodable, e.block <= saveAt' PROVE Safe(e)'
        OBVIOUS
      <3>1. CASE e.block <= lastBlock
        BY <3>1, <2>1, <1>d
      <3>2. CASE ~(e.block <= lastBlock)
        <4>1. e \in batch'
          BY <3>2, <2>1, <1>0 DEF LogsIn
        <4> QED  BY <4>1 DEF Safe
      <3> QED  BY <3>1, <3>2
    <2> QED  BY <2>1, <2>2, <1>a, <1>b
  <1>4. CASE SaveCheckpoint
    <2>1. /\ checkpoint' \in {checkpoint, saveAt}
          /\ UNCHANGED <<head, currentHead, saveAt, subscribed>>
          /\ pc \in {"reset", "history", "deliver"}
      BY <1>4 DEF SaveCheckpoint
    <2>2. \A e \in Decodable : e.block <= checkpoint' => Safe(e)'
      BY <2>1, <1>a, <1>c
    <2>3. pc' = "fetch" => lastBlock' = saveAt
      BY <1>4 DEF SaveCheckpoint
    <2>4. pc' = "subscribe" => saveAt = currentHead
      BY <1>4, <1>0 DEF SaveCheckpoint, Position
    <2>5. pc' \in {"subscribe", "fetch", "live"}
      BY <1>4 DEF SaveCheckpoint
    <2> QED  BY <2>1, <2>2, <2>3, <2>4, <2>5, <1>b, <1>c
  <1>5. CASE Subscribe
    <2>1. UNCHANGED <<head, checkpoint>> /\ pc = "subscribe" /\ pc' = "live"
      BY <1>5 DEF Subscribe
    <2>2. LogsIn(currentHead + 1, head) \subseteq Missed'
      <3>1. Miss("window", LogsIn(currentHead + 1, head))
        BY <1>5 DEF Subscribe
      <3> QED  BY <3>1, <1>0, MissGrows, LogsType DEF Causes
    <2>3. \A e \in Decodable : e.block <= head => Safe(e)'
      <3> SUFFICES ASSUME NEW e \in Decodable, e.block <= head PROVE Safe(e)'
        OBVIOUS
      <3>1. CASE e.block <= currentHead
        BY <3>1, <2>1, <1>e
      <3>2. CASE ~(e.block <= currentHead)
        <4>1. e \in LogsIn(currentHead + 1, head)
          BY <3>2, <1>0 DEF LogsIn
        <4> QED  BY <4>1, <2>2 DEF Safe
      <3> QED  BY <3>1, <3>2
    <2> QED  BY <2>1, <2>3, <1>a
  <1>6. CASE ReceiveLog
    <2>1. /\ UNCHANGED <<head, checkpoint, subscribed>>
          /\ pc' = "deliver" /\ subscribed /\ saveAt' <= head
      <3>1. PICK e \in live : saveAt' = e.block
        BY <1>6 DEF ReceiveLog
      <3> QED  BY <1>6, <3>1 DEF ReceiveLog, Position
    <2>2. \A e \in Decodable : e.block <= saveAt' => e.block <= head
      <3>1. saveAt' \in Nat
        BY <1>6, EventType DEF ReceiveLog, TypeOK
      <3> QED  BY <1>0, <2>1, <3>1
    <2> QED  BY <2>1, <2>2, <1>a, <1>b
  <1>7. CASE Mine
    <2>1. /\ head' = head + 1
          /\ UNCHANGED <<checkpoint, pc, lastBlock, currentHead, saveAt, subscribed>>
          /\ subscribed => live' = live \cup LogsIn(head', head')
      BY <1>7 DEF Mine
    <2>2. subscribed => \A e \in Decodable : e.block <= head' => Safe(e)'
      <3> SUFFICES ASSUME subscribed, NEW e \in Decodable, e.block <= head'
                   PROVE  Safe(e)'
        OBVIOUS
      <3>1. CASE e.block <= head
        BY <3>1, <1>b
      <3>2. CASE ~(e.block <= head)
        <4>1. e \in LogsIn(head', head')
          BY <3>2, <2>1, <1>0 DEF LogsIn
        <4> QED  BY <4>1, <2>1 DEF Safe
      <3> QED  BY <3>1, <3>2
    <2> QED  BY <2>1, <2>2, <1>a, <1>c, <1>d, <1>e
  <1>8. CASE ConnectionLost
    <2>1. UNCHANGED <<checkpoint, pc, lastBlock, currentHead, saveAt>> /\ subscribed' = FALSE
      BY <1>8 DEF ConnectionLost
    <2> QED  BY <2>1, <1>a, <1>c, <1>d, <1>e
  <1>9. CASE Crash
    <2>1. checkpoint' = checkpoint /\ pc' = "connect" /\ subscribed' = FALSE
      BY <1>9 DEF Crash
    <2> QED  BY <2>1, <1>a
  <1> QED  BY <1>1, <1>2, <1>3, <1>4, <1>5, <1>6, <1>7, <1>8, <1>9
           DEF Next, ListenerStep

\* Whatever fails, a log behind the checkpoint that never reached the workers
\* was mined in the window, skipped by a reset, or dropped by a failure.
THEOREM NothingLeftBehindUnseen == Spec => []Accounted
  <1>1. Init => TypeOK /\ Position /\ Reach
    BY TypeInit, PositionInit, ReachInit
  <1>2. TypeOK /\ Position /\ Reach /\ [Next]_vars => (TypeOK /\ Position /\ Reach)'
    BY TypeStep, PositionStep, ReachStep
  <1>3. Reach => Accounted
    BY DEF Reach, SafeUpTo, Safe, Accounted
  <1> QED  BY <1>1, <1>2, <1>3, PTL DEF Spec
-----------------------------------------------------------------------------
(* At most one more delivery per fault                                     *)

\* The logs the goroutine can still hand over before the next fault.  A
\* subscription that has ended counts as a fault whose new session has not
\* begun: then every log but the one in hand is one that can come again.
Ahead(e) ==
    \/ pc \in {"connect", "checkpoint", "head", "reset"}
    \/ pc = "fetch" /\ e.block > lastBlock
    \/ pc = "history" /\ (e \in batch \/ e.block > saveAt)
    \/ pc = "subscribe" /\ e.block > currentHead
    \/ pc \in {"live", "deliver"} /\ subscribed /\ (e \in batch \cup live \/ e.block > head)
    \/ pc \in {"live", "deliver"} /\ ~subscribed /\ e \notin batch

\* A log that is ahead was handed over at most once per fault so far, any
\* other log once more; the log in hand after a lost connection has been
\* handed over less often still, because the next session may fetch it.
Deliveries ==
    \A e \in Event :
        /\ handed[e] + faults <= MaxFaults + 1
        /\ Ahead(e) => handed[e] + faults <= MaxFaults
        /\ pc = "deliver" /\ ~subscribed /\ e \in batch => handed[e] + faults < MaxFaults

LEMMA DeliveriesInit == Init => Deliveries
  <1> SUFFICES ASSUME Init, NEW e \in Event
               PROVE  /\ handed[e] + faults <= MaxFaults + 1
                      /\ handed[e] + faults <= MaxFaults
                      /\ pc # "deliver"
    BY DEF Deliveries
  <1>1. handed[e] = 0 /\ faults = MaxFaults /\ pc = "connect"
    BY DEF Init
  <1> QED  BY <1>1, BoundsAssumption

\* A step that hands nothing over keeps the bounds if what is ahead after it
\* was ahead before it, or if it used up a fault.
LEMMA QuietStep ==
    ASSUME TypeOK, TypeOK', Deliveries, UNCHANGED handed,
           faults' <= faults,
           \A e \in Event :
               /\ Ahead(e)' => Ahead(e) \/ faults' < faults
               /\ (pc = "deliver" /\ ~subscribed /\ e \in batch)' =>
                     \/ pc = "deliver" /\ ~subscribed /\ e \in batch
                     \/ Ahead(e) /\ faults' < faults
    PROVE  Deliveries'
  <1>0. /\ faults \in Nat /\ faults' \in Nat /\ MaxFaults \in Nat
        /\ handed \in [Event -> Nat]
    BY BoundsAssumption DEF TypeOK
  <1> SUFFICES ASSUME NEW e \in Event
               PROVE  /\ handed[e] + faults' <= MaxFaults + 1
                      /\ Ahead(e)' => handed[e] + faults' <= MaxFaults
                      /\ (pc = "deliver" /\ ~subscribed /\ e \in batch)'
                            => handed[e] + faults' < MaxFaults
    BY DEF Deliveries
  <1>1. handed[e] \in Nat
    BY <1>0
  <1>2. /\ handed[e] + faults <= MaxFaults + 1
        /\ Ahead(e) => handed[e] + faults <= MaxFaults
        /\ pc = "deliver" /\ ~subscribed /\ e \in batch => handed[e] + faults < MaxFaults
    BY DEF Deliveries
  <1>3. Ahead(e)' => handed[e] + faults' <= MaxFaults
    BY <1>0, <1>1, <1>2
  <1>4. (pc = "deliver" /\ ~subscribed /\ e \in batch)' => handed[e] + faults' < MaxFaults
    BY <1>0, <1>1, <1>2
  <1> QED  BY <1>0, <1>1, <1>2, <1>3, <1>4

LEMMA DeliveriesStep ==
    TypeOK /\ TypeOK' /\ Position /\ Deliveries /\ [Next]_vars => Deliveries'
  <1> SUFFICES ASSUME TypeOK, TypeOK', Position, Deliveries, [Next]_vars
               PROVE  Deliveries'
    OBVIOUS
  <1> USE DEF localVars, subVars, handVars, Goto, Fault
  <1>0. /\ head \in Nat /\ checkpoint \in Nat /\ lastBlock \in Nat
        /\ currentHead \in Nat /\ saveAt \in Nat /\ BatchSize \in Nat
        /\ faults \in Nat /\ faults' \in Nat
        /\ batch \subseteq Event /\ live \subseteq Event
        /\ \A e \in Event : e \in Event /\ e.block \in Nat
    BY EventType, BoundsAssumption, ChainAssumption DEF TypeOK
  <1> USE DEF Ahead
  <1>1. CASE Dial \/ DialFails \/ ReadCheckpoint \/ ReadHeadFails \/ FetchLogsFails
             \/ SubscribeFails
    <2>1. /\ UNCHANGED handed /\ faults' <= faults
          /\ pc' \in {"connect", "checkpoint", "head"}
          /\ pc \in {"connect", "checkpoint", "head"} \/ faults' < faults
      BY <1>0, <1>1 DEF Dial, DialFails, ReadCheckpoint, ReadHeadFails, FetchLogsFails,
           SubscribeFails
    <2> QED  BY <2>1, QuietStep
  <1>2. CASE ReadHead
    <2>1. /\ UNCHANGED <<handed, faults>> /\ pc = "head"
          /\ pc' \in {"reset", "fetch", "subscribe"}
      BY <1>2 DEF ReadHead
    <2> QED  BY <1>0, <2>1, QuietStep
  <1>3. CASE FetchLogs
    <2>1. /\ UNCHANGED <<handed, faults>> /\ pc = "fetch" /\ pc' = "history"
          /\ batch' = LogsIn(lastBlock + 1, saveAt')
      BY <1>3 DEF FetchLogs, FromBlock, ToBlock
    <2>2. saveAt' > lastBlock
      BY <1>0, <1>3, BoundsAssumption DEF FetchLogs, FromBlock, ToBlock, Position
    <2>3. saveAt' \in Nat
      BY DEF TypeOK
    <2>4. \A e \in Event : Ahead(e)' => Ahead(e)
      BY <1>0, <2>1, <2>2, <2>3 DEF LogsIn
    <2> QED  BY <1>0, <2>1, <2>4, QuietStep
  <1>4. CASE SaveCheckpoint
    <2>1. /\ UNCHANGED <<handed, head, saveAt, currentHead, live, subscribed>>
          /\ faults' <= faults /\ batch = {} /\ batch' = {}
      BY <1>0, <1>4 DEF SaveCheckpoint
    <2>2. CASE pc = "reset"
      BY <1>0, <1>4, <2>1, <2>2, QuietStep DEF SaveCheckpoint
    <2>3. CASE pc = "history"
      <3>0. \/ pc' = "fetch" /\ lastBlock' = saveAt
            \/ pc' = "subscribe" /\ ~(saveAt < currentHead)
        BY <1>4, <2>3 DEF SaveCheckpoint
      <3>1. \/ pc' = "fetch" /\ lastBlock' = saveAt
            \/ pc' = "subscribe" /\ saveAt = currentHead
        BY <1>0, <2>3, <3>0 DEF Position
      <3>2. \A e \in Event : Ahead(e)' => Ahead(e)
        BY <1>0, <2>1, <2>3, <3>1
      <3> QED  BY <2>1, <3>1, <3>2, QuietStep
    <2>4. CASE pc = "deliver"
      <3>1. pc' = "live"
        BY <1>4, <2>4 DEF SaveCheckpoint
      <3> QED  BY <1>0, <2>1, <2>4, <3>1, QuietStep
    <2> QED  BY <1>4, <2>2, <2>3, <2>4 DEF SaveCheckpoint
  <1>5. CASE Subscribe
    <2>1. /\ UNCHANGED <<handed, faults, head, batch>> /\ pc = "subscribe" /\ pc' = "live"
          /\ live' = {} /\ batch = {} /\ subscribed' = TRUE /\ currentHead <= head
      BY <1>5 DEF Subscribe, Position
    <2> QED  BY <1>0, <2>1, QuietStep
  <1>6. CASE ReceiveLog
    <2> PICK f \in live : live' = live \ {f} /\ batch' = {f}
      BY <1>6 DEF ReceiveLog
    <2>1. /\ UNCHANGED <<handed, faults, head, subscribed>> /\ pc = "live" /\ pc' = "deliver"
          /\ subscribed
      BY <1>6 DEF ReceiveLog, Position
    <2> QED  BY <1>0, <2>1, QuietStep
  <1>7. CASE NoticeDrop
    <2>1. /\ UNCHANGED <<handed, faults, batch>> /\ pc = "live" /\ pc' = "connect"
          /\ batch = {} /\ ~subscribed
      BY <1>7 DEF NoticeDrop, Position
    <2> QED  BY <1>0, <2>1, QuietStep
  <1>8. CASE Mine
    <2>1. /\ UNCHANGED <<handed, faults, pc, lastBlock, currentHead, saveAt, batch, subscribed>>
          /\ head' = head + 1
          /\ live' \subseteq live \cup LogsIn(head', head')
      BY <1>8 DEF Mine
    <2>2. \A e \in Event : Ahead(e)' => Ahead(e)
      BY <1>0, <2>1 DEF LogsIn
    <2> QED  BY <1>0, <2>1, <2>2, QuietStep
  <1>9. CASE ConnectionLost
    <2>1. /\ UNCHANGED <<handed, pc, batch>> /\ subscribed /\ subscribed' = FALSE
          /\ faults' < faults /\ pc \in {"live", "deliver"}
      BY <1>0, <1>9 DEF ConnectionLost, Position
    <2> QED  BY <1>0, <2>1, QuietStep
  <1>10. CASE Crash
    <2>1. UNCHANGED handed /\ faults' < faults /\ pc' = "connect"
      BY <1>0, <1>10 DEF Crash
    <2> QED  BY <1>0, <2>1, QuietStep
  <1>11. CASE Receive \/ Idle \/ UNCHANGED vars
    <2>1. UNCHANGED <<handed, faults, pc, lastBlock, currentHead, saveAt, batch, live, head,
                      subscribed>>
      BY <1>11 DEF Receive, Idle, vars
    <2> QED  BY <1>0, <2>1, QuietStep
  <1>12. CASE ProcessLog
    <2> PICK f \in batch :
            /\ batch' = batch \ {f}
            /\ \/ /\ f \in Undecodable
                  /\ UNCHANGED <<eventLog, handed>>
               \/ /\ f \notin Undecodable
                  /\ handed' = [handed EXCEPT ![f] = @ + 1]
      BY <1>12 DEF ProcessLog
    <2>1. /\ UNCHANGED <<faults, pc, lastBlock, currentHead, saveAt, live, head, subscribed>>
          /\ pc \in {"history", "deliver"}
      BY <1>12 DEF ProcessLog
    <2> SUFFICES ASSUME NEW e \in Event
                 PROVE  /\ handed'[e] + faults <= MaxFaults + 1
                        /\ Ahead(e)' => handed'[e] + faults <= MaxFaults
                        /\ (pc = "deliver" /\ ~subscribed /\ e \in batch)'
                              => handed'[e] + faults < MaxFaults
      BY <2>1 DEF Deliveries
    <2>2. MaxFaults \in Nat /\ faults \in Nat /\ handed[e] \in Nat
      BY <1>0, BoundsAssumption DEF TypeOK
    <2>3. /\ handed[e] + faults <= MaxFaults + 1
          /\ Ahead(e) => handed[e] + faults <= MaxFaults
          /\ pc = "deliver" /\ ~subscribed /\ e \in batch => handed[e] + faults < MaxFaults
      BY DEF Deliveries
    <2>4. CASE e # f
      <3>1. handed'[e] = handed[e]
        BY <2>4 DEF TypeOK
      <3>2. (Ahead(e)' => Ahead(e)) /\ (e \in batch' => e \in batch)
        BY <2>1, <2>4
      <3> QED  BY <2>1, <2>2, <2>3, <3>1, <3>2
    <2>5. CASE e = f
      <3>1. handed'[e] \in {handed[e], handed[e] + 1} /\ e \notin batch'
        BY <2>5 DEF TypeOK
      <3>2. pc = "history" => e.block <= saveAt
        BY <2>5 DEF Position
      <3>3. subscribed /\ pc = "deliver" => e.block <= head /\ e \notin live
        BY <1>0, <2>5 DEF Position
      <3>4. Ahead(e) \/ (pc = "deliver" /\ ~subscribed /\ e \in batch)
        BY <2>1, <2>5
      <3>5. handed[e] + faults <= MaxFaults
        BY <2>2, <2>3, <3>4
      <3>6. Ahead(e)' => pc = "deliver" /\ ~subscribed /\ e \in batch
        BY <1>0, <2>1, <2>5, <3>1, <3>2, <3>3
      <3>7. Ahead(e)' => handed'[e] + faults <= MaxFaults
        BY <2>2, <2>3, <3>1, <3>6
      <3> QED  BY <2>2, <3>1, <3>5, <3>7
    <2> QED  BY <2>4, <2>5
  <1> QED  BY <1>1, <1>2, <1>3, <1>4, <1>5, <1>6, <1>7, <1>8, <1>9, <1>10, <1>11,
              <1>12 DEF Next, ListenerStep

\* A log reaches the workers at most once more than there were faults.
THEOREM DeliveredOncePerFault == Spec => []OneDeliveryPerFault
  <1>1. Init => TypeOK /\ Position /\ Deliveries
    BY TypeInit, PositionInit, DeliveriesInit
  <1>2. TypeOK /\ Position /\ Deliveries /\ [Next]_vars
            => (TypeOK /\ Position /\ Deliveries)'
    BY TypeStep, PositionStep, DeliveriesStep
  <1>3. TypeOK /\ Deliveries => OneDeliveryPerFault
    <2> SUFFICES ASSUME TypeOK, Deliveries, NEW e \in Event
                 PROVE  handed[e] <= 1 + (MaxFaults - faults)
      BY DEF OneDeliveryPerFault
    <2>1. handed[e] \in Nat /\ faults \in Nat /\ MaxFaults \in Nat
      BY BoundsAssumption DEF TypeOK
    <2>2. handed[e] + faults <= MaxFaults + 1
      BY DEF Deliveries
    <2> QED  BY <2>1, <2>2
  <1> QED  BY <1>1, <1>2, <1>3, PTL DEF Spec

-----------------------------------------------------------------------------
(* The order of the chain                                                  *)

\* Until a call fails the goroutine goes round once: nothing has been handed
\* over before it fetches or subscribes, what it has handed over precedes all
\* that is ahead, and the log in hand precedes those the subscription holds.
InOrder ==
    faults = MaxFaults =>
        /\ pc \in {"live", "deliver"} => subscribed
        /\ pc \in {"connect", "checkpoint", "head", "reset"} => \A e \in Event : handed[e] = 0
        /\ pc = "deliver" => \A e \in batch, f \in live : Precedes(e, f)
        /\ \A e, f \in Event : handed[e] > 0 /\ Ahead(f) => Precedes(e, f)

LEMMA InOrderInit == Init => InOrder
  BY DEF Init, InOrder

\* The number of faults left only falls.
LEMMA NoFaultYet ==
    ASSUME TypeOK, [Next]_vars, faults' = MaxFaults
    PROVE  faults = MaxFaults /\ ~Fault /\ UNCHANGED faults
  <1>1. Fault \/ UNCHANGED faults
    BY DEF Next, ListenerStep, Dial, DialFails, ReadCheckpoint, ReadHead, ReadHeadFails,
       FetchLogs, FetchLogsFails, ProcessLog, SaveCheckpoint, Subscribe, SubscribeFails,
       ReceiveLog, NoticeDrop, Mine, ConnectionLost, Crash, Receive, Idle, vars
  <1>2. faults \in 0..MaxFaults /\ MaxFaults \in Nat
    BY BoundsAssumption DEF TypeOK
  <1> QED  BY <1>1, <1>2 DEF Fault

\* A step that hands nothing over, after which no more is ahead than before.
LEMMA OrderKept ==
    ASSUME InOrder, faults = MaxFaults, UNCHANGED handed,
           pc' \in {"live", "deliver"} => subscribed',
           \/ pc' \notin {"connect", "checkpoint", "head", "reset"}
           \/ pc \in {"connect", "checkpoint", "head", "reset"},
           (pc = "deliver" => \A e \in batch, f \in live : Precedes(e, f))',
           \/ \A e \in Event : Ahead(e)' => Ahead(e)
           \/ \A e \in Event : handed[e] = 0
    PROVE  InOrder'
  <1>1. \A e \in Event : handed[e] = 0 => ~(handed[e] > 0)
    OBVIOUS
  <1> QED  BY <1>1 DEF InOrder

LEMMA InOrderStep == TypeOK /\ TypeOK' /\ Position /\ InOrder /\ [Next]_vars => InOrder'
  <1> SUFFICES ASSUME TypeOK, TypeOK', Position, InOrder, [Next]_vars, faults' = MaxFaults
               PROVE  InOrder'
    BY DEF InOrder
  <1> USE DEF localVars, subVars, handVars, Goto
  <1>0. /\ head \in Nat /\ lastBlock \in Nat /\ currentHead \in Nat /\ saveAt \in Nat
        /\ batch \subseteq Event /\ live \subseteq Event
        /\ \A e \in Event : e.block \in Nat /\ e.index \in Nat
    BY EventType, ChainAssumption DEF TypeOK
  <1>f. faults = MaxFaults /\ ~Fault /\ UNCHANGED faults
    BY NoFaultYet
  <1>1. CASE Dial \/ ReadCheckpoint
    BY <1>1, <1>f, OrderKept DEF Dial, ReadCheckpoint, Ahead
  <1>2. CASE ReadHead
    <2>1. \A e \in Event : handed[e] = 0
      BY <1>2, <1>f DEF ReadHead, InOrder
    <2>2. pc = "head" /\ pc' \in {"reset", "fetch", "subscribe"} /\ UNCHANGED handed
      BY <1>2 DEF ReadHead
    <2> QED  BY <1>f, <2>1, <2>2, OrderKept
  <1>3. CASE FetchLogs
    <2>1. /\ UNCHANGED handed /\ pc = "fetch" /\ pc' = "history"
          /\ batch' = LogsIn(lastBlock + 1, saveAt')
      BY <1>3 DEF FetchLogs, FromBlock, ToBlock
    <2>2. saveAt' > lastBlock
      BY <1>0, <1>3, BoundsAssumption DEF FetchLogs, FromBlock, ToBlock, Position
    <2>3. saveAt' \in Nat
      BY DEF TypeOK
    <2>4. \A e \in Event : Ahead(e)' => Ahead(e)
      BY <1>0, <2>1, <2>2, <2>3 DEF LogsIn, Ahead
    <2> QED  BY <1>f, <2>1, <2>4, OrderKept
  <1>4. CASE SaveCheckpoint
    <2>1. /\ UNCHANGED <<handed, head, saveAt, currentHead, live, subscribed>>
          /\ batch = {} /\ batch' = {}
      BY <1>4 DEF SaveCheckpoint
    <2>2. CASE pc = "reset"
      <3>1. pc' = "subscribe" /\ \A e \in Event : handed[e] = 0
        BY <1>4, <1>f, <2>2 DEF SaveCheckpoint, InOrder
      <3> QED  BY <1>f, <2>1, <3>1, OrderKept
    <2>3. CASE pc = "history"
      <3>0. \/ pc' = "fetch" /\ lastBlock' = saveAt
            \/ pc' = "subscribe" /\ ~(saveAt < currentHead)
        BY <1>4, <2>3 DEF SaveCheckpoint
      <3>1. \/ pc' = "fetch" /\ lastBlock' = saveAt
            \/ pc' = "subscribe" /\ saveAt = currentHead
        BY <1>0, <2>3, <3>0 DEF Position
      <3>2. \A e \in Event : Ahead(e)' => Ahead(e)
        BY <1>0, <2>1, <2>3, <3>1 DEF Ahead
      <3> QED  BY <1>f, <2>1, <3>1, <3>2, OrderKept
    <2>4. CASE pc = "deliver"
      <3>1. pc' = "live"
        BY <1>4, <2>4 DEF SaveCheckpoint
      <3>2. \A e \in Event : Ahead(e)' => Ahead(e)
        BY <1>0, <2>1, <2>4, <3>1 DEF Ahead
      <3>3. subscribed'
        BY <1>f, <2>1, <2>4 DEF InOrder
      <3> QED  BY <1>f, <2>1, <3>1, <3>2, <3>3, OrderKept
    <2> QED  BY <1>4, <2>2, <2>3, <2>4 DEF SaveCheckpoint
  <1>5. CASE Subscribe
    <2>1. /\ UNCHANGED <<handed, head, batch>> /\ pc = "subscribe" /\ pc' = "live"
          /\ live' = {} /\ batch = {} /\ subscribed' = TRUE /\ currentHead <= head
      BY <1>5 DEF Subscribe, Position
    <2>2. \A e \in Event : Ahead(e)' => Ahead(e)
      BY <1>0, <2>1 DEF Ahead
    <2> QED  BY <1>f, <2>1, <2>2, OrderKept
  <1>6. CASE ReceiveLog
    <2> PICK g \in live : IsFirst(g, live) /\ live' = live \ {g} /\ batch' = {g}
      BY <1>6 DEF ReceiveLog
    <2>1. /\ UNCHANGED <<handed, head, subscribed>> /\ pc = "live" /\ pc' = "deliver"
          /\ subscribed
      BY <1>6 DEF ReceiveLog, Position
    <2>2. \A e \in Event : Ahead(e)' => Ahead(e)
      BY <1>0, <2>1 DEF Ahead
    <2>3. \A e \in batch', f \in live' : Precedes(e, f)
      BY DEF IsFirst
    <2> QED  BY <1>f, <2>1, <2>2, <2>3, OrderKept
  <1>7. CASE Mine
    <2>1. /\ UNCHANGED <<handed, pc, lastBlock, currentHead, saveAt, batch, subscribed>>
          /\ head' = head + 1
          /\ live' \subseteq live \cup LogsIn(head', head')
      BY <1>7 DEF Mine
    <2>2. \A e \in Event : Ahead(e)' => Ahead(e)
      BY <1>0, <2>1 DEF LogsIn, Ahead
    <2>3. ASSUME pc = "deliver", NEW e \in batch, NEW f \in live'
          PROVE  Precedes(e, f)
      <3>1. CASE f \in live
        BY <1>f, <2>3, <3>1 DEF InOrder
      <3>2. CASE f \in LogsIn(head', head')
        <4>1. e.block = saveAt /\ saveAt <= head
          BY <2>3 DEF Position
        <4>2. f.block = head + 1
          BY <1>0, <2>1, <3>2 DEF LogsIn
        <4> QED  BY <1>0, <4>1, <4>2 DEF Precedes
      <3> QED  BY <2>1, <2>3, <3>1, <3>2
    <2> QED  BY <1>f, <2>1, <2>2, <2>3, OrderKept DEF InOrder
  <1>8. CASE Receive \/ Idle \/ UNCHANGED vars
    <2>1. UNCHANGED <<handed, pc, lastBlock, currentHead, saveAt, batch, live, head, subscribed>>
      BY <1>8 DEF Receive, Idle, vars
    <2> QED  BY <1>f, <2>1 DEF InOrder, Ahead
  <1>9. CASE ProcessLog
    <2>0. PICK g \in batch :
            /\ IsFirst(g, batch)
            /\ batch' = batch \ {g}
            /\ handed' = handed \/ handed' = [handed EXCEPT ![g] = @ + 1]
      BY <1>9 DEF ProcessLog
    <2>1. /\ UNCHANGED <<pc, lastBlock, currentHead, saveAt, live, head, subscribed>>
          /\ pc \in {"history", "deliver"}
      BY <1>9 DEF ProcessLog
    <2>2. \A e \in Event : Ahead(e)' => Ahead(e)
      <3>1. batch' \subseteq batch
        BY <2>0
      <3>2. pc = "deliver" => subscribed
        BY <1>f DEF InOrder
      <3> QED  BY <2>1, <3>1, <3>2 DEF Ahead
    <2>3. \A e \in Event : handed'[e] > 0 => e = g \/ handed[e] > 0
      BY <2>0 DEF TypeOK
    <2>4. ASSUME NEW f \in Event, Ahead(f)'
          PROVE  Precedes(g, f)
      <3>1. f \in batch \/ (pc = "history" /\ f.block > saveAt)
               \/ (pc = "deliver" /\ (f \in live \/ f.block > head))
        BY <1>f, <2>0, <2>1, <2>4 DEF Ahead, InOrder
      <3>2. CASE f \in batch
        BY <2>0, <3>2 DEF IsFirst
      <3>3. CASE pc = "history" /\ f.block > saveAt
        BY <1>0, <2>0, <3>3 DEF Position, Precedes
      <3>4. CASE pc = "deliver" /\ f \in live
        BY <1>f, <2>0, <3>4 DEF InOrder
      <3>5. CASE pc = "deliver" /\ f.block > head
        BY <1>0, <2>0, <3>5 DEF Position, Precedes
      <3> QED  BY <3>1, <3>2, <3>3, <3>4, <3>5
    <2>5. \A e, f \in Event : handed'[e] > 0 /\ Ahead(f)' => Precedes(e, f)
      BY <1>f, <2>2, <2>3, <2>4 DEF InOrder
    <2>6. pc = "deliver" => \A e \in batch', f \in live' : Precedes(e, f)
      BY <1>f, <2>0, <2>1 DEF InOrder
    <2> QED  BY <1>f, <2>1, <2>5, <2>6 DEF InOrder
  <1>10. CASE NoticeDrop
    BY <1>10, <1>f DEF NoticeDrop, InOrder
  <1> QED
    BY <1>1, <1>2, <1>3, <1>4, <1>5, <1>6, <1>7, <1>8, <1>9, <1>10, <1>f
       DEF Next, ListenerStep, DialFails, ReadHeadFails, FetchLogsFails, SubscribeFails,
           ConnectionLost, Crash

\* The workers get the logs in the order of the chain until a call fails.
THEOREM LogsAreSentInOrder == Spec => SentInChainOrder
  <1>1. TypeOK /\ Position /\ InOrder /\ [Next]_vars =>
           [\A e, f \in Event :
               faults = MaxFaults /\ handed[e] > 0 /\ handed'[f] > handed[f]
               => Precedes(e, f)]_vars
    <2> SUFFICES ASSUME TypeOK, InOrder, Next, faults = MaxFaults,
                        NEW e \in Event, NEW f \in Event,
                        handed[e] > 0, handed'[f] > handed[f]
                 PROVE  Precedes(e, f)
      OBVIOUS
    <2>1. handed[f] \in Nat
      BY DEF TypeOK
    <2>2. CASE ProcessLog
      <3>1. PICK g \in batch : handed' = handed \/ handed' = [handed EXCEPT ![g] = @ + 1]
        BY <2>2 DEF ProcessLog
      <3>2. f = g
        BY <2>1, <3>1 DEF TypeOK
      <3>3. Ahead(f)
        BY <2>2, <3>2 DEF ProcessLog, InOrder, Ahead
      <3> QED  BY <3>3 DEF InOrder
    <2>3. CASE UNCHANGED handed
      BY <2>1, <2>3
    <2> QED
      BY <2>2, <2>3 DEF Next, ListenerStep, Dial, DialFails, ReadCheckpoint, ReadHead,
         ReadHeadFails, FetchLogs, FetchLogsFails, SaveCheckpoint, Subscribe, SubscribeFails,
         ReceiveLog, NoticeDrop, Mine, ConnectionLost, Crash, Receive, Idle, vars, handVars
  <1>2. Init => TypeOK /\ Position /\ InOrder
    BY TypeInit, PositionInit, InOrderInit
  <1>3. TypeOK /\ Position /\ InOrder /\ [Next]_vars => (TypeOK /\ Position /\ InOrder)'
    BY TypeStep, PositionStep, InOrderStep
  <1> QED  BY <1>1, <1>2, <1>3, PTL DEF Spec, SentInChainOrder

-----------------------------------------------------------------------------
(* The worker pool in its place                                            *)

\* Every step of the composition is a step of the listener or leaves it alone.
LEMMA ListenerStepOrStutter == IngestNext => [Next]_vars
  <1> SUFFICES ASSUME IngestNext PROVE [Next]_vars
    OBVIOUS
  <1>1. CASE ListenerAlone
    BY <1>1 DEF ListenerAlone, Next
  <1>2. CASE \E w \in Workers : WorkerStep(w)
    BY <1>2 DEF WorkerStep, Take, Finish, Fail, Next
  <1>3. CASE CrashAll \/ AllIdle
    BY <1>3 DEF CrashAll, AllIdle, Next
  <1> QED  BY <1>1, <1>2, <1>3 DEF IngestNext

\* The listener with its worker pool implements the listener on its own.
THEOREM IngestionImplementsListener == IngestSpec => Spec
  <1>1. IngestInit => Init
    BY DEF IngestInit
  <1>2. [IngestNext]_ingestVars => [Next]_vars
    BY ListenerStepOrStutter DEF ingestVars
  <1> QED  BY <1>1, <1>2, PTL DEF IngestSpec, Spec

\* The listener's types carry over.
LEMMA ListenerTyped == IngestSpec => []TypeOK
  BY IngestionImplementsListener, TypeCorrect, PTL

-----------------------------------------------------------------------------
(* What the workers hold                                                   *)

LEMMA NoEventUndecoded == NoEvent \notin Decodable
  BY WorkersAssumption DEF Decodable

\* A worker takes what was sent, and the channel never holds more than it can.
Pool == IngestTypeOK /\ Len(eventLog) <= ChanCap

LEMMA PoolInit == IngestInit => Pool
  BY WorkersAssumption, BoundsAssumption
  DEF IngestInit, Init, Pool, IngestTypeOK, Decodable

LEMMA PoolStep == TypeOK /\ Pool /\ [IngestNext]_ingestVars => Pool'
<1> SUFFICES ASSUME TypeOK, Pool, [IngestNext]_ingestVars
             PROVE  Pool'
  OBVIOUS
<1> USE BoundsAssumption, WorkersAssumption
<1>t. /\ eventLog \in Seq(Decodable)
      /\ Len(eventLog) \in Nat
      /\ Len(eventLog) <= ChanCap
      /\ IngestTypeOK
  BY DEF TypeOK, Pool
<1>1. CASE ProcessLog /\ UNCHANGED <<work, stored, errors>>
  <2>1. PICK e \in batch : \/ UNCHANGED eventLog
                           \/ Len(eventLog) < ChanCap /\ eventLog' = Append(eventLog, e)
    BY <1>1 DEF ProcessLog
  <2>2. CASE UNCHANGED eventLog
    BY <2>2, <1>1, <1>t DEF Pool, IngestTypeOK
  <2>3. CASE Len(eventLog) < ChanCap /\ eventLog' = Append(eventLog, e)
    <3>1. Len(Append(eventLog, e)) = Len(eventLog) + 1
      BY <1>t
    <3> QED  BY <2>3, <3>1, <1>1, <1>t DEF Pool, IngestTypeOK
  <2> QED  BY <2>1, <2>2, <2>3
<1>2. CASE /\ ListenerAlone
           /\ ~ProcessLog
  <2>1. UNCHANGED <<eventLog, work, stored, errors>>
    BY <1>2
    DEF ListenerAlone, ListenerStep, Dial, DialFails, ReadCheckpoint, ReadHead, ReadHeadFails,
        FetchLogs, FetchLogsFails, SaveCheckpoint, Subscribe, SubscribeFails, ReceiveLog,
        NoticeDrop, Mine, ConnectionLost, handVars
  <2> QED  BY <2>1, <1>t DEF Pool, IngestTypeOK
<1>3. ASSUME NEW w \in Workers, Take(w)
      PROVE  Pool'
  <2>1. /\ eventLog # <<>>
        /\ eventLog' = Tail(eventLog)
        /\ work' = [work EXCEPT ![w] = Head(eventLog)]
        /\ UNCHANGED <<stored, errors>>
    BY <1>3 DEF Take, Receive
  <2>2. Head(eventLog) \in Decodable /\ Len(Tail(eventLog)) = Len(eventLog) - 1
    BY <2>1, <1>t
  <2> QED  BY <2>1, <2>2, <1>t DEF Pool, IngestTypeOK
<1>4. ASSUME NEW w \in Workers, Finish(w)
      PROVE  Pool'
  <2>1. work[w] \in Decodable
    BY <1>4, <1>t DEF Finish, IngestTypeOK
  <2> QED  BY <2>1, <1>4, <1>t DEF Finish, Pool, IngestTypeOK, vars
<1>5. ASSUME NEW w \in Workers, Fail(w)
      PROVE  Pool'
  BY <1>5, <1>t DEF Fail, Pool, IngestTypeOK, vars
<1>6. CASE CrashAll
  <2>1. Len(eventLog') = 0
    BY <1>6 DEF CrashAll, Crash
  <2> QED  BY <2>1, <1>6, <1>t DEF CrashAll, Pool, IngestTypeOK
<1>7. CASE AllIdle \/ UNCHANGED ingestVars
  BY <1>7, <1>t DEF AllIdle, Idle, ingestVars, vars, Pool, IngestTypeOK
<1> QED
  <2>1. CASE ListenerAlone
    BY <2>1, <1>1, <1>2 DEF ListenerAlone
  <2> QED  BY <2>1, <1>3, <1>4, <1>5, <1>6, <1>7 DEF IngestNext, WorkerStep

LEMMA PoolCorrect == IngestSpec => [](TypeOK /\ Pool)
<1>1. IngestSpec => []Pool
  <2>1. IngestSpec => []TypeOK
    BY ListenerTyped
  <2> QED  BY <2>1, PoolInit, PoolStep, PTL DEF IngestSpec
<1> QED  BY <1>1, ListenerTyped, PTL

\* The workers hold decodable logs, and errors are counted down.
THEOREM IngestTypeCorrect == IngestSpec => []IngestTypeOK
<1>1. Pool => IngestTypeOK
  BY DEF Pool
<1> QED  BY <1>1, PoolCorrect, PTL

-----------------------------------------------------------------------------
(* What a fault costs                                                      *)

\* The logs in the channel and with the workers.
Carried(log, held) == {log[i] : i \in DOMAIN log} \cup {held[w] : w \in Workers}

\* Logs that were sent and are neither carried nor registered.  Unlike those of
\* Forfeited they may be sent again, but only what was carried joins them.
Loose(sent, log, held, kept) ==
    {e \in Decodable : sent[e] > 0 /\ e \notin Carried(log, held) \cup kept}

Lost == Loose(handed, eventLog, work, stored)

MostCarried == ChanCap + Cardinality(Workers)

Allowed(f, n) == MostCarried * (MaxFaults - f) + (MaxErrors - n)

Bounded == IsFiniteSet(Lost) /\ Cardinality(Lost) <= Allowed(faults, errors)

LEMMA MostCarriedType == MostCarried \in Nat /\ Cardinality(Workers) \in Nat
  BY WorkersAssumption, BoundsAssumption, FS_CardinalityType DEF MostCarried

\* Channel and workers hold no more than their number.
LEMMA CarriedBound ==
    ASSUME NEW log \in Seq(Decodable), Len(log) <= ChanCap,
           NEW held \in [Workers -> Decodable \cup {NoEvent}]
    PROVE  IsFiniteSet(Carried(log, held)) /\ Cardinality(Carried(log, held)) <= MostCarried
<1> DEFINE L == {log[i] : i \in DOMAIN log}
           W == {held[w] : w \in Workers}
           f == [i \in 1..Len(log) |-> log[i]]
<1>1. IsFiniteSet(L) /\ Cardinality(L) <= ChanCap /\ Cardinality(L) \in Nat
  <2>1. Len(log) \in Nat /\ DOMAIN log = 1..Len(log)
    OBVIOUS
  <2>2. f \in Surjection(1..Len(log), L)
    BY <2>1 DEF Surjection
  <2>3. IsFiniteSet(1..Len(log)) /\ Cardinality(1..Len(log)) = Len(log)
    <3>1. 1 \in Int /\ Len(log) \in Int
      BY <2>1
    <3>2. /\ IsFiniteSet(1..Len(log))
          /\ Cardinality(1..Len(log)) = IF 1 > Len(log) THEN 0 ELSE Len(log) - 1 + 1
      BY <3>1, FS_Interval
    <3> QED  BY <2>1, <3>2
  <2> HIDE DEF f, L
  <2>4. IsFiniteSet(L) /\ Cardinality(L) <= Len(log)
    BY <2>2, <2>3, FS_Surjection
  <2> QED  BY <2>1, <2>4, FS_CardinalityType, BoundsAssumption
<1>2. IsFiniteSet(W) /\ Cardinality(W) <= Cardinality(Workers) /\ Cardinality(W) \in Nat
  <2>1. held \in Surjection(Workers, W)
    BY DEF Surjection
  <2> HIDE DEF W
  <2> QED  BY <2>1, FS_Surjection, FS_CardinalityType, WorkersAssumption
<1> HIDE DEF L, W
<1>3. /\ IsFiniteSet(L \cup W)
      /\ Cardinality(L \cup W) = Cardinality(L) + Cardinality(W) - Cardinality(L \cap W)
  BY <1>1, <1>2, FS_Union
<1>4. Cardinality(L \cap W) \in Nat
  BY <1>1, FS_Intersection, FS_CardinalityType
<1>5. Cardinality(L \cup W) <= MostCarried
  BY <1>1, <1>2, <1>3, <1>4, MostCarriedType, BoundsAssumption DEF MostCarried
<1> QED  BY <1>3, <1>5 DEF Carried, L, W

\* A set that is joined by few elements grows by few.
LEMMA GrowsBy ==
    ASSUME NEW S, NEW T, NEW D, NEW k \in Nat, NEW d \in Nat,
           IsFiniteSet(S), Cardinality(S) <= k,
           IsFiniteSet(D), Cardinality(D) <= d,
           T \subseteq S \cup D
    PROVE  IsFiniteSet(T) /\ Cardinality(T) <= k + d
<1>1. /\ IsFiniteSet(S \cup D)
      /\ Cardinality(S \cup D) = Cardinality(S) + Cardinality(D) - Cardinality(S \cap D)
  BY FS_Union
<1>2. Cardinality(S \cap D) \in Nat /\ Cardinality(S) \in Nat /\ Cardinality(D) \in Nat
  BY FS_Intersection, FS_CardinalityType
<1>3. IsFiniteSet(T) /\ Cardinality(T) <= Cardinality(S \cup D) /\ Cardinality(T) \in Nat
  BY <1>1, FS_Subset, FS_CardinalityType
<1> QED  BY <1>1, <1>2, <1>3

\* A fault allows what channel and workers hold, an error one more.
LEMMA AllowedGrows ==
    ASSUME NEW f \in 0..MaxFaults, NEW n \in 0..MaxErrors
    PROVE  /\ Allowed(f, n) \in Nat
           /\ f > 0 => Allowed(f - 1, n) = Allowed(f, n) + MostCarried
           /\ n > 0 => Allowed(f, n - 1) = Allowed(f, n) + 1
<1> USE BoundsAssumption, WorkersAssumption, MostCarriedType
<1>1. MaxFaults - f \in Nat /\ MaxErrors - n \in Nat
  OBVIOUS
<1>2. \A a, b \in Nat : a * b \in Nat /\ a * (b + 1) = a * b + a
  OBVIOUS
<1>3. Allowed(f, n) \in Nat
  <2>1. MostCarried * (MaxFaults - f) \in Nat
    BY <1>1, <1>2
  <2> HIDE DEF MostCarried
  <2> QED  BY <2>1, <1>1 DEF Allowed
<1>4. ASSUME f > 0
      PROVE  Allowed(f - 1, n) = Allowed(f, n) + MostCarried
  <2>1. MaxFaults - (f - 1) = (MaxFaults - f) + 1
    BY <1>4
  <2>2. MostCarried * (MaxFaults - (f - 1)) = MostCarried * (MaxFaults - f) + MostCarried
    BY <2>1, <1>1, <1>2
  <2>3. MostCarried * (MaxFaults - f) \in Nat
    BY <1>1, <1>2
  <2> QED  BY <2>2, <2>3, <1>1 DEF Allowed
<1>5. ASSUME n > 0
      PROVE  Allowed(f, n - 1) = Allowed(f, n) + 1
  <2>1. MostCarried * (MaxFaults - f) \in Nat
    BY <1>1, <1>2
  <2> QED  BY <2>1, <1>1, <1>5 DEF Allowed
<1> QED  BY <1>3, <1>4, <1>5

LEMMA BoundedInit == IngestInit => Bounded
<1> SUFFICES ASSUME IngestInit PROVE Bounded
  OBVIOUS
<1>1. Lost = {}
  BY DEF IngestInit, Init, Lost, Loose, Decodable
<1>2. Allowed(faults, errors) \in Nat
  BY AllowedGrows, BoundsAssumption, WorkersAssumption DEF IngestInit, Init
<1> QED  BY <1>1, <1>2, FS_EmptySet DEF Bounded

\* Whatever is loose after a step was loose before, or was carried and dropped.
LEMMA BoundedByStep ==
    ASSUME TypeOK, Pool, Bounded, Pool', TypeOK',
           NEW D, NEW d \in Nat, IsFiniteSet(D), Cardinality(D) <= d,
           Lost' \subseteq Lost \cup D,
           Allowed(faults, errors) + d <= Allowed(faults', errors')
    PROVE  Bounded'
<1>1. Allowed(faults, errors) \in Nat /\ Allowed(faults', errors') \in Nat
  BY AllowedGrows DEF TypeOK, Pool, IngestTypeOK
<1>2. IsFiniteSet(Lost') /\ Cardinality(Lost') <= Allowed(faults, errors) + d
  BY <1>1, GrowsBy DEF Bounded
<1>3. Cardinality(Lost') \in Nat
  BY <1>2, FS_CardinalityType
<1> QED  BY <1>1, <1>2, <1>3 DEF Bounded

\* A fault pays for what it drops; without one the allowance stays.
LEMMA AllowedStep ==
    ASSUME TypeOK, Pool, UNCHANGED errors, UNCHANGED faults \/ Fault
    PROVE  /\ Allowed(faults, errors) + 0 <= Allowed(faults', errors')
           /\ Fault => Allowed(faults, errors) + MostCarried <= Allowed(faults', errors')
<1>1. faults \in 0..MaxFaults /\ errors \in 0..MaxErrors
  BY DEF TypeOK, Pool, IngestTypeOK
<1>2. /\ Allowed(faults, errors) \in Nat
      /\ faults > 0 => Allowed(faults - 1, errors) = Allowed(faults, errors) + MostCarried
  BY <1>1, AllowedGrows
<1>3. MostCarried \in Nat
  BY MostCarriedType
<1> HIDE DEF Allowed, MostCarried
<1>4. CASE Fault
  BY <1>1, <1>2, <1>3, <1>4 DEF Fault
<1>5. CASE UNCHANGED faults
  <2>1. Allowed(faults', errors') = Allowed(faults, errors)
    BY <1>5
  <2> QED  BY <2>1, <1>2, <1>4
<1> QED  BY <1>4, <1>5

\* The listener on its own drops nothing that was sent.
LEMMA ListenerAloneKeeps ==
    ASSUME TypeOK, Pool, ListenerAlone
    PROVE  Lost' \subseteq Lost /\ (UNCHANGED faults \/ Fault)
<1> USE BoundsAssumption
<1>1. CASE ProcessLog
  <2>1. PICK e \in batch :
           \/ UNCHANGED <<eventLog, handed>>
           \/ /\ eventLog' = Append(eventLog, e)
              /\ handed' = [handed EXCEPT ![e] = @ + 1]
    BY <1>1 DEF ProcessLog
  <2>2. UNCHANGED <<faults, work, stored>>
    BY <1>1 DEF ProcessLog, ListenerAlone
  <2>3. CASE UNCHANGED <<eventLog, handed>>
    BY <2>2, <2>3 DEF Lost, Loose, Carried
  <2>4. CASE /\ eventLog' = Append(eventLog, e)
             /\ handed' = [handed EXCEPT ![e] = @ + 1]
    <3>1. eventLog \in Seq(Decodable) /\ handed \in [Event -> Nat]
      BY DEF TypeOK
    <3>2. /\ Len(eventLog) \in Nat /\ DOMAIN eventLog = 1..Len(eventLog)
          /\ DOMAIN Append(eventLog, e) = 1..(Len(eventLog) + 1)
          /\ \A i \in DOMAIN eventLog : Append(eventLog, e)[i] = eventLog[i]
          /\ Append(eventLog, e)[Len(eventLog) + 1] = e
      BY <3>1
    <3>3. Carried(eventLog, work) \cup {e} \subseteq Carried(eventLog', work')
      BY <2>2, <2>4, <3>2 DEF Carried
    <3>4. \A x \in Decodable : x # e => handed'[x] = handed[x]
      BY <2>4, <3>1 DEF Decodable
    <3> QED  BY <2>2, <3>3, <3>4 DEF Lost, Loose
  <2> QED  BY <2>1, <2>2, <2>3, <2>4
<1>2. CASE ~ProcessLog
  <2>1. UNCHANGED <<eventLog, handed, work, stored>> /\ (UNCHANGED faults \/ Fault)
    BY <1>2
    DEF ListenerAlone, ListenerStep, Dial, DialFails, ReadCheckpoint, ReadHead, ReadHeadFails,
        FetchLogs, FetchLogsFails, SaveCheckpoint, Subscribe, SubscribeFails, ReceiveLog,
        NoticeDrop, Mine, ConnectionLost, handVars
  <2> QED  BY <2>1 DEF Lost
<1> QED  BY <1>1, <1>2

LEMMA BoundedStep ==
    ASSUME TypeOK, TypeOK', Pool, Pool', Bounded, [IngestNext]_ingestVars
    PROVE  Bounded'
<1>t. /\ eventLog \in Seq(Decodable) /\ Len(eventLog) <= ChanCap
      /\ work \in [Workers -> Decodable \cup {NoEvent}]
      /\ errors \in 0..MaxErrors /\ faults \in 0..MaxFaults
  BY DEF TypeOK, Pool, IngestTypeOK
<1>e. IsFiniteSet({}) /\ Cardinality({}) <= 0 /\ 0 \in Nat
  BY FS_EmptySet
\* A step that drops nothing and costs no error.
<1>q. ASSUME Lost' \subseteq Lost, UNCHANGED errors, UNCHANGED faults \/ Fault
      PROVE  Bounded'
  <2>1. Lost' \subseteq Lost \cup {}
    BY <1>q
  <2>2. Allowed(faults, errors) + 0 <= Allowed(faults', errors')
    BY <1>q, AllowedStep
  <2> QED  BY <2>1, <2>2, <1>e, BoundedByStep
<1>1. CASE ListenerAlone
  BY <1>1, <1>q, ListenerAloneKeeps DEF ListenerAlone
<1>2. ASSUME NEW w \in Workers, Take(w)
      PROVE  Bounded'
  <2>1. /\ work[w] = NoEvent /\ eventLog # <<>> /\ eventLog' = Tail(eventLog)
        /\ work' = [work EXCEPT ![w] = Head(eventLog)]
        /\ UNCHANGED <<faults, errors, handed, stored>>
    BY <1>2 DEF Take, Receive
  <2>2. /\ Len(eventLog) \in Nat /\ DOMAIN eventLog = 1..Len(eventLog)
        /\ Head(eventLog) = eventLog[1]
        /\ DOMAIN Tail(eventLog) = 1..(Len(eventLog) - 1)
        /\ \A i \in 1..(Len(eventLog) - 1) : Tail(eventLog)[i] = eventLog[i + 1]
    BY <2>1, <1>t
  <2>3. ASSUME NEW e \in Decodable, e \in Carried(eventLog, work)
        PROVE  e \in Carried(eventLog', work')
    <3>1. CASE \E i \in DOMAIN eventLog : e = eventLog[i]
      <4>1. PICK i \in DOMAIN eventLog : e = eventLog[i]
        BY <3>1
      <4>2. CASE i = 1
        BY <4>1, <4>2, <2>1, <2>2, <1>t DEF Carried
      <4>3. CASE i # 1
        <5>1. i - 1 \in DOMAIN Tail(eventLog) /\ Tail(eventLog)[i - 1] = e
          BY <4>1, <4>3, <2>2
        <5> QED  BY <5>1, <2>1 DEF Carried
      <4> QED  BY <4>2, <4>3
    <3>2. CASE \E v \in Workers : e = work[v]
      <4>1. PICK v \in Workers : e = work[v]
        BY <3>2
      <4>2. v # w
        BY <4>1, <2>1, NoEventUndecoded
      <4> QED  BY <4>1, <4>2, <2>1, <1>t DEF Carried
    <3> QED  BY <2>3, <3>1, <3>2 DEF Carried
  <2> QED  BY <2>1, <2>3, <1>q DEF Lost, Loose
<1>3. ASSUME NEW w \in Workers, Finish(w)
      PROVE  Bounded'
  <2>1. /\ stored' = stored \cup {work[w]}
        /\ work' = [work EXCEPT ![w] = NoEvent]
        /\ UNCHANGED <<faults, errors, handed, eventLog>>
    BY <1>3 DEF Finish, vars
  <2>2. ASSUME NEW e \in Carried(eventLog, work), e \notin Carried(eventLog', work')
        PROVE  e = work[w]
    BY <2>1, <2>2, <1>t DEF Carried
  <2> QED  BY <2>1, <2>2, <1>q DEF Lost, Loose
<1>4. ASSUME NEW w \in Workers, Fail(w)
      PROVE  Bounded'
  <2>1. /\ errors > 0 /\ errors' = errors - 1
        /\ work' = [work EXCEPT ![w] = NoEvent]
        /\ UNCHANGED <<faults, handed, eventLog, stored>>
    BY <1>4 DEF Fail, vars
  <2>2. ASSUME NEW e \in Carried(eventLog, work), e \notin Carried(eventLog', work')
        PROVE  e = work[w]
    BY <2>1, <2>2, <1>t DEF Carried
  <2>3. Lost' \subseteq Lost \cup {work[w]}
    BY <2>1, <2>2 DEF Lost, Loose
  <2>4. IsFiniteSet({work[w]}) /\ Cardinality({work[w]}) = 1
    BY FS_Singleton
  <2>5. Allowed(faults, errors) + 1 <= Allowed(faults', errors')
    <3>1. Allowed(faults, errors - 1) = Allowed(faults, errors) + 1 /\ Allowed(faults, errors) \in Nat
      BY <1>t, <2>1, AllowedGrows
    <3>2. Allowed(faults', errors') = Allowed(faults, errors - 1)
      BY <2>1
    <3> HIDE DEF Allowed
    <3> QED  BY <3>1, <3>2
  <2>6. 1 \in Nat /\ Cardinality({work[w]}) <= 1
    BY <2>4
  <2> QED  BY <2>3, <2>4, <2>5, <2>6, BoundedByStep
<1>5. CASE CrashAll
  <2>1. Fault /\ UNCHANGED <<errors, handed, stored>>
    BY <1>5 DEF CrashAll, Crash
  <2>2. Lost' \subseteq Lost \cup Carried(eventLog, work)
    BY <2>1 DEF Lost, Loose
  <2>3. IsFiniteSet(Carried(eventLog, work)) /\ Cardinality(Carried(eventLog, work)) <= MostCarried
    BY <1>t, CarriedBound
  <2>4. Allowed(faults, errors) + MostCarried <= Allowed(faults', errors')
    BY <2>1, AllowedStep
  <2> QED  BY <2>2, <2>3, <2>4, MostCarriedType, BoundedByStep
<1>6. CASE AllIdle \/ UNCHANGED ingestVars
  BY <1>6, <1>q DEF AllIdle, Idle, ingestVars, vars, Lost
<1> QED
  BY <1>1, <1>2, <1>3, <1>4, <1>5, <1>6 DEF IngestNext, WorkerStep

LEMMA BoundedCorrect == IngestSpec => []Bounded
  BY PoolCorrect, BoundedInit, BoundedStep, PTL DEF IngestSpec

\* What was sent and is nowhere any more is loose, so a crash costs at most what
\* channel and workers held, and a failed Register one log.
THEOREM LossIsBounded == IngestSpec => []LossPerFault
<1>1. TypeOK /\ Pool /\ Bounded => LossPerFault
  <2> SUFFICES ASSUME TypeOK, Pool, Bounded PROVE LossPerFault
    OBVIOUS
  <2>1. Forfeited \in SUBSET Lost
    <3>1. Carried(eventLog, work) \cap Decodable \subseteq InFlight
      BY DEF Carried, InFlight, Decodable
    <3> QED  BY <3>1 DEF Forfeited, Lost, Loose
  <2>2. /\ IsFiniteSet(Forfeited) /\ IsFiniteSet(Lost)
        /\ Cardinality(Forfeited) <= Cardinality(Lost)
    BY <2>1, FS_Subset DEF Bounded
  <2>3. Cardinality(Forfeited) \in Nat /\ Cardinality(Lost) \in Nat
    BY <2>2, FS_CardinalityType
  <2>4. Allowed(faults, errors) \in Nat
    BY AllowedGrows DEF TypeOK, Pool, IngestTypeOK
  <2>5. Cardinality(Forfeited) <= Allowed(faults, errors)
    BY <2>2, <2>3, <2>4 DEF Bounded
  <2> QED  BY <2>5 DEF LossPerFault, Allowed, MostCarried
<1> QED  BY <1>1, PoolCorrect, BoundedCorrect, PTL

-----------------------------------------------------------------------------
(* The composition implements EventDelivery                                *)

\* What is sent, processed or registered has been mined.
MinedFirst ==
    \A e \in Decodable : e \in Carried(eventLog, work) \cup stored => e.block <= head

LEMMA InFlightIs ==
    ASSUME NEW e \in Decodable
    PROVE  e \in InFlight <=> e \in batch \cup live \cup Carried(eventLog, work)
  BY DEF InFlight, Carried, Decodable

\* Nothing is in flight that the listener has not fetched or received.
LEMMA HandsAreMined ==
    ASSUME TypeOK, Position, MinedFirst, NEW e \in Decodable, e \in InFlight \cup stored
    PROVE  e.block <= head
<1>1. CASE e \in Carried(eventLog, work) \cup stored
  BY <1>1 DEF MinedFirst
<1>2. CASE e \in live
  BY <1>2 DEF Position
<1>3. CASE e \in batch
  <2>1. head \in Nat /\ currentHead \in Nat /\ saveAt \in Nat /\ e.block \in Nat
    BY EventType, ChainAssumption DEF TypeOK, Decodable
  <2>2. pc \in {"history", "deliver"}
    BY <1>3 DEF Position
  <2>3. CASE pc = "history"
    BY <1>3, <2>1, <2>3 DEF Position
  <2>4. CASE pc = "deliver"
    BY <1>3, <2>1, <2>4 DEF Position
  <2> QED  BY <2>2, <2>3, <2>4
<1> QED  BY <1>1, <1>2, <1>3, InFlightIs

\* A log gets into the channel from the listener's batch, to a worker from the
\* channel, and into the registry from a worker.
LEMMA CarriedFrom ==
    ASSUME TypeOK, Pool, [IngestNext]_ingestVars, NEW e \in Decodable
    PROVE  /\ e \in Carried(eventLog', work') => e \in batch \cup Carried(eventLog, work)
           /\ e \in stored' => e \in Carried(eventLog, work) \cup stored
<1>t. /\ eventLog \in Seq(Decodable)
      /\ work \in [Workers -> Decodable \cup {NoEvent}]
      /\ e # NoEvent
  BY NoEventUndecoded DEF TypeOK, Pool, IngestTypeOK
<1>1. CASE ProcessLog /\ UNCHANGED <<work, stored>>
  <2>1. PICK f \in batch : UNCHANGED eventLog \/ eventLog' = Append(eventLog, f)
    BY <1>1 DEF ProcessLog
  <2>2. CASE UNCHANGED eventLog
    BY <1>1, <2>2
  <2>3. CASE eventLog' = Append(eventLog, f)
    <3>1. /\ Len(eventLog) \in Nat /\ DOMAIN eventLog = 1..Len(eventLog)
          /\ DOMAIN Append(eventLog, f) = 1..(Len(eventLog) + 1)
          /\ \A i \in 1..Len(eventLog) : Append(eventLog, f)[i] = eventLog[i]
          /\ Append(eventLog, f)[Len(eventLog) + 1] = f
      BY <1>t
    <3>2. \A i \in DOMAIN eventLog' : eventLog'[i] = f \/ (i \in DOMAIN eventLog /\ eventLog'[i] = eventLog[i])
      BY <2>3, <3>1
    <3> QED  BY <1>1, <2>1, <3>2 DEF Carried
  <2> QED  BY <2>1, <2>2, <2>3
<1>2. CASE ListenerAlone /\ ~ProcessLog
  <2>1. UNCHANGED <<eventLog, work, stored>>
    BY <1>2
    DEF ListenerAlone, ListenerStep, Dial, DialFails, ReadCheckpoint, ReadHead, ReadHeadFails,
        FetchLogs, FetchLogsFails, SaveCheckpoint, Subscribe, SubscribeFails, ReceiveLog,
        NoticeDrop, Mine, ConnectionLost, handVars
  <2> QED  BY <2>1
<1>3. ASSUME NEW w \in Workers, Take(w)
      PROVE  /\ e \in Carried(eventLog', work') => e \in Carried(eventLog, work)
             /\ e \in stored' => e \in Carried(eventLog, work) \cup stored
  <2>1. /\ eventLog # <<>> /\ eventLog' = Tail(eventLog)
        /\ work' = [work EXCEPT ![w] = Head(eventLog)]
        /\ UNCHANGED stored
    BY <1>3 DEF Take, Receive
  <2>2. /\ Len(eventLog) \in Nat /\ DOMAIN eventLog = 1..Len(eventLog)
        /\ Head(eventLog) = eventLog[1] /\ 1 \in DOMAIN eventLog
        /\ DOMAIN Tail(eventLog) = 1..(Len(eventLog) - 1)
        /\ \A i \in 1..(Len(eventLog) - 1) : Tail(eventLog)[i] = eventLog[i + 1]
    BY <2>1, <1>t
  <2>3. \A i \in DOMAIN eventLog' : \E j \in DOMAIN eventLog : eventLog'[i] = eventLog[j]
    <3> SUFFICES ASSUME NEW i \in DOMAIN eventLog'
                 PROVE  \E j \in DOMAIN eventLog : eventLog'[i] = eventLog[j]
      OBVIOUS
    <3>1. i + 1 \in DOMAIN eventLog /\ eventLog'[i] = eventLog[i + 1]
      BY <2>1, <2>2
    <3> QED  BY <3>1
  <2>4. \A v \in Workers : work'[v] = work[v] \/ work'[v] = eventLog[1]
    BY <2>1, <2>2, <1>t
  <2> QED  BY <2>1, <2>2, <2>3, <2>4 DEF Carried
<1>4. ASSUME NEW w \in Workers, Finish(w) \/ Fail(w)
      PROVE  /\ e \in Carried(eventLog', work') => e \in Carried(eventLog, work)
             /\ e \in stored' => e \in Carried(eventLog, work) \cup stored
  BY <1>4, <1>t DEF Finish, Fail, Carried, vars
<1>5. CASE CrashAll
  <2>1. eventLog' = <<>> /\ work' = [w \in Workers |-> NoEvent] /\ UNCHANGED stored
    BY <1>5 DEF CrashAll, Crash
  <2> QED  BY <2>1, <1>t DEF Carried
<1>6. CASE AllIdle \/ UNCHANGED ingestVars
  BY <1>6 DEF AllIdle, Idle, ingestVars, vars
<1> QED
  <2>1. CASE ListenerAlone
    BY <2>1, <1>1, <1>2 DEF ListenerAlone
  <2> QED  BY <2>1, <1>3, <1>4, <1>5, <1>6 DEF IngestNext, WorkerStep

LEMMA HeadGrows == TypeOK /\ [IngestNext]_ingestVars => head' = head \/ (head' = head + 1 /\ Mine)
<1> SUFFICES ASSUME TypeOK, [IngestNext]_ingestVars, ~Mine PROVE head' = head
  BY DEF Mine
<1>1. [Next]_vars
  BY ListenerStepOrStutter DEF ingestVars
<1> QED
  BY <1>1 DEF Next, ListenerStep, Dial, DialFails, ReadCheckpoint, ReadHead, ReadHeadFails,
     FetchLogs, FetchLogsFails, ProcessLog, SaveCheckpoint, Subscribe, SubscribeFails, ReceiveLog,
     NoticeDrop, ConnectionLost, Crash, Receive, Idle, vars

LEMMA MinedFirstStep ==
    TypeOK /\ Position /\ Pool /\ MinedFirst /\ [IngestNext]_ingestVars => MinedFirst'
<1> SUFFICES ASSUME TypeOK, Position, Pool, MinedFirst, [IngestNext]_ingestVars,
                    NEW e \in Decodable, e \in Carried(eventLog', work') \cup stored'
             PROVE  e.block <= head'
  BY DEF MinedFirst, Decodable
<1>1. e \in batch \cup Carried(eventLog, work) \cup stored
  BY CarriedFrom
<1>2. e.block <= head
  BY <1>1, InFlightIs, HandsAreMined
<1>3. head \in Nat /\ e.block \in Nat
  BY EventType, ChainAssumption DEF TypeOK, Decodable
<1> QED  BY <1>2, <1>3, HeadGrows

\* What the proof of a step needs.
Settled == TypeOK /\ Position /\ Pool /\ MinedFirst

LEMMA SettledCorrect == IngestSpec => []Settled
<1>1. IngestInit => MinedFirst
  <2> SUFFICES ASSUME IngestInit, NEW e \in Decodable PROVE e \notin Carried(eventLog, work) \cup stored
    BY DEF MinedFirst
  <2> QED  BY NoEventUndecoded DEF IngestInit, Init, Carried
<1>2. IngestSpec => []Position
  BY IngestionImplementsListener, PositionCorrect, PTL
<1>3. IngestSpec => []MinedFirst
  BY <1>1, <1>2, PoolCorrect, MinedFirstStep, PTL DEF IngestSpec
<1> QED  BY <1>2, <1>3, PoolCorrect, PTL DEF Settled

\* Logs that only fall back, from flight to the chain or to the lost ones, are
\* what EventDelivery calls a miss.
LEMMA FallingIsMissing ==
    ASSUME \A e \in Decodable :
              \/ StatusOf(e)' = StatusOf(e)
              \/ StatusOf(e) \in {"mined", "flight"} /\ StatusOf(e)' = "lost"
              \/ StatusOf(e) = "flight" /\ StatusOf(e)' = "mined"
    PROVE  Delivery!Next
<1> DEFINE L == {e \in Decodable : StatusOf(e) \in {"mined", "flight"} /\ StatusOf(e)' = "lost"}
           R == {e \in Decodable : StatusOf(e) = "flight" /\ StatusOf(e)' = "mined"}
<1>1. /\ L \in SUBSET (Delivery!In("mined") \cup Delivery!In("flight"))
      /\ R \in SUBSET Delivery!In("flight")
  BY DEF Delivery!In
<1>2. Delivery!Move(L, "lost", R, "mined")
  BY DEF Delivery!Move
<1> QED  BY <1>1, <1>2 DEF Delivery!Next, Delivery!Miss

\* As long as nothing is mined or registered and nothing new is in flight, the
\* logs can only fall back.
LEMMA NothingNewFalls ==
    ASSUME Settled, UNCHANGED <<head, stored>>, checkpoint \in Nat, checkpoint' \in Nat,
           checkpoint' >= checkpoint,
           \A e \in Decodable : e \in InFlight' => e \in InFlight
    PROVE  Delivery!Next
<1>1. ASSUME NEW e \in Decodable
      PROVE  \/ StatusOf(e)' = StatusOf(e)
             \/ StatusOf(e) \in {"mined", "flight"} /\ StatusOf(e)' = "lost"
             \/ StatusOf(e) = "flight" /\ StatusOf(e)' = "mined"
  <2>1. e.block \in Nat
    BY EventType DEF Decodable
  <2>2. (e.block > checkpoint)' => e.block > checkpoint
    BY <2>1
  <2>3. /\ (e \in stored)' <=> e \in stored
        /\ (e.block > head)' <=> e.block > head
        /\ (e \in InFlight)' => e \in InFlight
    OBVIOUS
  <2> QED  BY <2>2, <2>3, Zenon DEF StatusOf
<1> QED  BY <1>1, FallingIsMissing

\* Mining a block moves its logs out of the future, into flight if the
\* subscription is alive.
LEMMA MiningIsDelivered ==
    ASSUME Settled, Settled', Mine, UNCHANGED <<work, stored>>
    PROVE  Delivery!Next
<1> DEFINE S == {e \in Decodable : StatusOf(e) = "future" /\ e.block = head + 1}
           T == IF subscribed THEN Delivery!In("future") ELSE {}
<1>1. /\ head' = head + 1
      /\ live' = IF subscribed THEN live \cup LogsIn(head + 1, head + 1) ELSE live
      /\ UNCHANGED <<checkpoint, batch, eventLog>>
  BY DEF Mine, handVars
<1>2. head \in Nat /\ checkpoint \in Nat /\ checkpoint <= head
  BY ChainAssumption DEF Settled, TypeOK, Position
<1>3. S \in SUBSET Delivery!In("future") /\ T \in {Delivery!In("future"), {}}
  BY DEF Delivery!In
<1>4. ASSUME NEW e \in Decodable
      PROVE  StatusOf(e)' = IF e \in S \cap T THEN "flight"
                            ELSE IF e \in S THEN "mined" ELSE StatusOf(e)
  <2>0. e.block \in Nat /\ e \in Event
    BY EventType DEF Decodable
  <2>1. e \in stored' <=> e \in stored
    OBVIOUS
  <2>2. e \in InFlight' <=> e \in InFlight \/ (subscribed /\ e.block = head + 1)
    <3>1. e \in InFlight <=> e \in batch \cup live \cup Carried(eventLog, work)
      BY InFlightIs
    <3>2. e \in InFlight' <=> e \in batch' \cup live' \cup Carried(eventLog', work')
      BY DEF InFlight, Carried, Decodable
    <3>3. e \in LogsIn(head + 1, head + 1) <=> e.block = head + 1
      BY <1>2, <2>0 DEF LogsIn
    <3> QED  BY <1>1, <3>1, <3>2, <3>3
  <2>3. e \in stored \cup InFlight => e.block <= head
    BY HandsAreMined DEF Settled
  <2>4. CASE e.block <= head
    <3>1. ~(e.block > head) /\ ~(e.block > head') /\ e.block # head + 1
      BY <2>4, <2>0, <1>1, <1>2
    <3>2. StatusOf(e)' = StatusOf(e)
      BY <3>1, <2>1, <2>2, <1>1, Zenon DEF StatusOf
    <3> QED  BY <3>1, <3>2, Zenon
  <2>5. CASE e.block = head + 1
    <3>1. e.block > head /\ ~(e.block > head') /\ e.block > checkpoint /\ ~(e.block <= head)
      BY <2>5, <2>0, <1>1, <1>2
    <3>2. e \notin stored /\ e \notin InFlight
      BY <3>1, <2>3
    <3>3. StatusOf(e) = "future"
      BY <3>1, <3>2 DEF StatusOf
    <3>4. StatusOf(e)' = IF subscribed THEN "flight" ELSE "mined"
      BY <3>1, <3>2, <2>1, <2>2, <2>5, <1>1 DEF StatusOf
    <3> QED  BY <3>3, <3>4, <2>5 DEF Delivery!In
  <2>6. CASE e.block > head + 1
    <3>1. e.block > head /\ e.block > head' /\ e.block # head + 1 /\ ~(e.block <= head)
      BY <2>6, <2>0, <1>1, <1>2
    <3>2. e \notin stored
      BY <3>1, <2>3
    <3>3. StatusOf(e) = "future" /\ StatusOf(e)' = "future"
      BY <3>1, <3>2, <2>1 DEF StatusOf
    <3> QED  BY <3>1, <3>3
  <2> QED  BY <2>0, <1>2, <2>4, <2>5, <2>6
<1>5. Delivery!Move(S \cap T, "flight", S, "mined")
  <2> HIDE DEF S, T
  <2> QED  BY <1>4 DEF Delivery!Move
<1> QED  BY <1>3, <1>5 DEF Delivery!Next, Delivery!Mine

\* A batch is made of logs behind which the checkpoint is, so those nobody
\* holds yet are mined and not lost.
LEMMA FetchingIsDelivered ==
    ASSUME Settled, FetchLogs, UNCHANGED <<work, stored>>
    PROVE  Delivery!Next
<1> USE BoundsAssumption
<1> DEFINE S == {e \in Decodable : StatusOf(e) = "mined" /\ e \in batch'}
<1>1. /\ batch = {} /\ batch' = LogsIn(lastBlock + 1, ToBlock)
      /\ checkpoint <= lastBlock /\ lastBlock < currentHead
      /\ UNCHANGED <<head, checkpoint, live, eventLog>>
  BY DEF FetchLogs, FromBlock, Settled, Position, Goto, subVars
<1>2. /\ head \in Nat /\ checkpoint \in Nat /\ lastBlock \in Nat /\ currentHead \in Nat
      /\ currentHead <= head
  BY ChainAssumption DEF Settled, TypeOK, Position
<1>3. ToBlock \in Nat /\ ToBlock <= currentHead
  BY <1>2 DEF ToBlock
<1>4. S \in SUBSET Delivery!In("mined")
  BY DEF Delivery!In
<1>5. ASSUME NEW e \in Decodable
      PROVE  StatusOf(e)' = IF e \in S THEN "flight" ELSE StatusOf(e)
  <2>0. e.block \in Nat
    BY EventType DEF Decodable
  <2>1. e \in batch' => e.block > checkpoint /\ ~(e.block > head)
    BY <1>1, <1>2, <1>3, <2>0 DEF LogsIn
  <2>2. e \in InFlight' <=> e \in InFlight \cup batch'
    <3>1. e \in InFlight <=> e \in batch \cup live \cup Carried(eventLog, work)
      BY InFlightIs
    <3>2. e \in InFlight' <=> e \in batch' \cup live' \cup Carried(eventLog', work')
      BY DEF InFlight, Carried, Decodable
    <3> QED  BY <1>1, <3>1, <3>2
  <2>3. /\ (e \in stored)' <=> e \in stored
        /\ (e.block > head)' <=> e.block > head
        /\ (e.block > checkpoint)' <=> e.block > checkpoint
    BY <1>1
  <2> QED  BY <2>1, <2>2, <2>3, Zenon DEF StatusOf
<1>6. Delivery!Move(S, "flight", {}, "flight")
  <2> HIDE DEF S
  <2> QED  BY <1>5 DEF Delivery!Move
<1> QED  BY <1>4, <1>6 DEF Delivery!Next, Delivery!Fetch

\* processEvent registers the log the worker holds, unless it was registered
\* when it was sent before.
LEMMA FinishingIsDelivered ==
    ASSUME Settled, NEW w \in Workers, Finish(w)
    PROVE  Delivery!Next \/ UNCHANGED [e \in Decodable |-> StatusOf(e)]
<1>0. PICK f : f = work[w]
  OBVIOUS
<1>1. /\ f # NoEvent /\ stored' = stored \cup {f}
      /\ work' = [work EXCEPT ![w] = NoEvent]
      /\ UNCHANGED <<head, checkpoint, batch, live, eventLog>>
  BY <1>0 DEF Finish, vars
<1>2. work \in [Workers -> Decodable \cup {NoEvent}] /\ f \in Decodable
  BY <1>0, <1>1 DEF Settled, Pool, IngestTypeOK
<1>3. f \in InFlight /\ f.block <= head
  <2>1. f \in InFlight
    BY <1>0, <1>2 DEF InFlight, Decodable
  <2> QED  BY <2>1, <1>2, HandsAreMined DEF Settled
<1>4. ASSUME NEW e \in Decodable, e # f
      PROVE  StatusOf(e)' = StatusOf(e)
  <2>1. e \in InFlight' <=> e \in InFlight
    <3>1. e \in Carried(eventLog', work') <=> e \in Carried(eventLog, work)
      BY <1>0, <1>1, <1>2, <1>4, NoEventUndecoded DEF Carried
    <3>2. e \in InFlight' <=> e \in batch' \cup live' \cup Carried(eventLog', work')
      BY DEF InFlight, Carried, Decodable
    <3> QED  BY <1>1, <3>1, <3>2, InFlightIs
  <2>2. e \in stored' <=> e \in stored
    BY <1>1, <1>4
  <2> QED  BY <2>1, <2>2, <1>1, Zenon DEF StatusOf
<1>5. StatusOf(f)' = "registered"
  <2>1. f \in stored'
    BY <1>1
  <2> QED  BY <2>1 DEF StatusOf
<1>6. CASE f \in stored
  <2>1. StatusOf(f) = "registered"
    BY <1>6 DEF StatusOf
  <2>2. \A e \in Decodable : StatusOf(e)' = StatusOf(e)
    BY <2>1, <1>4, <1>5, Zenon
  <2> QED  BY <2>2, Zenon
<1>7. CASE f \notin stored
  <2>1. ~(f.block > head)
    BY <1>2, <1>3, EventType, ChainAssumption DEF Settled, TypeOK, Decodable
  <2>2. StatusOf(f) = "flight"
    BY <2>1, <1>3, <1>7, Zenon DEF StatusOf
  <2>3. f \in Delivery!In("flight")
    BY <2>2, <1>2 DEF Delivery!In
  <2>4. Delivery!Move({f}, "registered", {}, "lost")
    <3>1. \A e \in Decodable : StatusOf(e)' = IF e \in {f} THEN "registered" ELSE StatusOf(e)
      BY <1>4, <1>5
    <3> QED  BY <3>1 DEF Delivery!Move
  <2> QED  BY <2>3, <2>4 DEF Delivery!Next, Delivery!Register
<1> QED  BY <1>6, <1>7

\* A step that moves nothing into flight: the rest of the steps of the
\* listener, of its environment and of the workers.
LEMMA OtherStepsFall ==
    ASSUME Settled, Settled', [IngestNext]_ingestVars, ~Mine, ~FetchLogs,
           ~\E w \in Workers : Finish(w)
    PROVE  Delivery!Next
<1>t. /\ work \in [Workers -> Decodable \cup {NoEvent}]
      /\ eventLog \in Seq(Decodable)
      /\ checkpoint \in Nat /\ checkpoint' \in Nat
  BY DEF Settled, TypeOK, Pool, IngestTypeOK
<1>1. checkpoint' >= checkpoint
  <2>1. CASE SaveCheckpoint
    <3>1. checkpoint' \in {checkpoint, saveAt} /\ pc \in {"reset", "history", "deliver"}
      BY <2>1 DEF SaveCheckpoint, Goto
    <3>2. checkpoint <= saveAt
      BY <3>1, ChainAssumption DEF Settled, Position, TypeOK
    <3> QED  BY <3>1, <3>2, <1>t
  <2>2. CASE ~SaveCheckpoint
    <3>1. [Next]_vars
      BY ListenerStepOrStutter DEF ingestVars
    <3>2. checkpoint' = checkpoint
      BY <2>2, <3>1 DEF Next, ListenerStep, Dial, DialFails, ReadCheckpoint, ReadHead,
         ReadHeadFails, FetchLogs, FetchLogsFails, ProcessLog, Subscribe, SubscribeFails,
         ReceiveLog, NoticeDrop, Mine, ConnectionLost, Crash, Receive, Idle, vars
    <3> QED  BY <3>2, <1>t
  <2> QED  BY <2>1, <2>2
<1>2. head' = head
  BY HeadGrows DEF Settled
<1>3. stored' = stored
  BY DEF IngestNext, ListenerAlone, WorkerStep, Take, Fail, CrashAll, AllIdle, ingestVars
<1>4. ASSUME NEW e \in Decodable, e \in InFlight'
      PROVE  e \in InFlight
  <2>1. e \in batch' \cup live' \cup Carried(eventLog', work')
    BY <1>4 DEF InFlight, Carried, Decodable
  <2>2. e \in batch' \cup live' => e \in batch \cup live
    <3>1. [Next]_vars
      BY ListenerStepOrStutter DEF ingestVars
    <3>2. CASE ReceiveLog
      <4>1. PICK f \in live : batch' = {f} /\ live' = live \ {f}
        BY <3>2 DEF ReceiveLog
      <4> QED  BY <4>1
    <3>3. CASE ProcessLog
      <4>1. batch' \subseteq batch /\ live' = live
        BY <3>3 DEF ProcessLog, subVars
      <4> QED  BY <4>1
    <3>4. CASE ~ReceiveLog /\ ~ProcessLog
      BY <3>1, <3>4 DEF Next, ListenerStep, Dial, DialFails, ReadCheckpoint, ReadHead,
         ReadHeadFails, FetchLogs, FetchLogsFails, SaveCheckpoint, Subscribe, SubscribeFails,
         NoticeDrop, Mine, ConnectionLost, Crash, Receive, Idle, vars, subVars, handVars
    <3> QED  BY <3>2, <3>3, <3>4

  <2>3. e \in Carried(eventLog', work') => e \in batch \cup Carried(eventLog, work)
    BY CarriedFrom DEF Settled
  <2> QED  BY <2>1, <2>2, <2>3, InFlightIs
<1> QED  BY <1>1, <1>2, <1>3, <1>4, <1>t, NothingNewFalls

LEMMA StepIsDelivered ==
    ASSUME Settled, Settled', [IngestNext]_ingestVars
    PROVE  [Delivery!Next]_[e \in Decodable |-> StatusOf(e)]
<1>1. CASE Mine
  <2>1. UNCHANGED <<work, stored>>
    <3>1. head' # head
      BY <1>1, ChainAssumption DEF Mine, Settled, TypeOK
    <3> QED
      BY <3>1 DEF IngestNext, ListenerAlone, WorkerStep, Take, Finish, Fail, CrashAll, AllIdle,
         Receive, Crash, Idle, vars, ingestVars
  <2> QED  BY <1>1, <2>1, MiningIsDelivered
<1>2. CASE FetchLogs
  <2>1. UNCHANGED <<work, stored>>
    <3>1. pc = "fetch" /\ pc' = "history"
      BY <1>2 DEF FetchLogs, Goto
    <3> QED
      BY <3>1 DEF IngestNext, ListenerAlone, WorkerStep, Take, Finish, Fail, CrashAll, AllIdle,
         Receive, Crash, Idle, vars, ingestVars
  <2> QED  BY <1>2, <2>1, FetchingIsDelivered
<1>3. CASE \E w \in Workers : Finish(w)
  <2>1. PICK w \in Workers : Finish(w)
    BY <1>3
  <2> QED  BY <2>1, FinishingIsDelivered
<1>4. CASE ~Mine /\ ~FetchLogs /\ ~\E w \in Workers : Finish(w)
  BY <1>4, OtherStepsFall
<1> QED  BY <1>1, <1>2, <1>3, <1>4

\* The listener with its workers keeps the promise of EventDelivery: at first
\* every log is in the future, and each step of theirs mines, fetches, registers
\* or misses logs, or moves none.
THEOREM IngestionDelivers == IngestSpec => Delivery!Safety
<1>1. IngestInit => Delivery!Init
  <2> SUFFICES ASSUME IngestInit, NEW e \in Decodable PROVE StatusOf(e) = "future"
    BY DEF Delivery!Init
  <2>1. e.block > head /\ e \notin stored
    BY EventType, ChainAssumption DEF IngestInit, Init, Decodable
  <2> QED  BY <2>1 DEF StatusOf
<1>2. /\ Settled /\ Settled' /\ [IngestNext]_ingestVars
      => [Delivery!Next]_[e \in Decodable |-> StatusOf(e)]
  BY StepIsDelivered
<1> QED  BY <1>1, <1>2, SettledCorrect, PTL DEF IngestSpec, Delivery!Safety
=============================================================================
