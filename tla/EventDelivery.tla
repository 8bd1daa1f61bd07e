---------------------------- MODULE EventDelivery ----------------------------
(***************************************************************************)
(* What the event synchronisation promises for each ContentRegistered log, *)
(* whatever fails: a log that has been registered stays registered, a log  *)
(* that has been lost is never seen again, a log is registered only after  *)
(* it was mined and fetched, and a fetched log does not stay in flight for *)
(* ever.  The listener and the workers (module Ingestion) implement it.    *)
(***************************************************************************)
EXTENDS Naturals

CONSTANT Event

VARIABLE status

Status == {"future",     \* not yet mined
           "mined",      \* on the chain, a later session may still fetch it
           "flight",     \* with the listener, the channel or a worker
           "registered", \* Register has succeeded for it
           "lost"}       \* behind the checkpoint, in nobody's hands

In(st) == {e \in Event : status[e] = st}

\* The logs of S move to st, those of T to ut.
Move(S, st, T, ut) ==
    status' = [e \in Event |-> IF e \in S THEN st
                               ELSE IF e \in T THEN ut ELSE status[e]]

Init == status = [e \in Event |-> "future"]

\* A block is mined; a live subscription has its logs at once.
Mine == \E S \in SUBSET In("future"), T \in {In("future"), {}} :
            Move(S \cap T, "flight", S, "mined")

\* The listener fetches logs it had not seen in this session.
Fetch == \E S \in SUBSET In("mined") : Move(S, "flight", {}, "flight")

\* A worker registers a log.
Register == \E e \in In("flight") : Move({e}, "registered", {}, "lost")

\* A failure takes logs out of flight, or the checkpoint passes logs that were
\* never fetched: they can be fetched again, or are lost.
Miss == \E L \in SUBSET (In("mined") \cup In("flight")), R \in SUBSET In("flight") :
            Move(L, "lost", R, "mined")

Next == Mine \/ Fetch \/ Register \/ Miss

\* The promise without its liveness part: no step breaks it.
Safety == Init /\ [][Next]_status

Spec ==
    /\ Safety
    /\ \A e \in Event : (status[e] = "flight") ~> (status[e] # "flight")

=============================================================================
