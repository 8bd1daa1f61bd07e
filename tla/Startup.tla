------------------------------ MODULE Startup ------------------------------
(***************************************************************************)
(* main (cmd/server) up to the running server: connect to Postgres and     *)
(* migrate it, create the Qdrant collections that are missing, dial the    *)
(* node, start listener and workers, serve.  Every error on the way ends   *)
(* the process (log.Fatalf), and what a start has done to Postgres and     *)
(* Qdrant is what the next start finds.  Redis and the object store are    *)
(* left out: a failure of either is logged and the start goes on.          *)
(***************************************************************************)
EXTENDS Naturals, Sequences, FiniteSets

CONSTANTS
    Attempts,   \* pings of Postgres before a start gives up
    Migrations, \* number of files in migrations/
    MaxFaults   \* bound on failed calls and crashes

ASSUME StartupAssumption ==
    /\ Attempts \in Nat \ {0}
    /\ Migrations \in Nat
    /\ MaxFaults \in Nat

Services == {"postgres", "qdrant", "node"}

Collections == {"signatures", "semantics", "faces", "audio", "text"}

Field(c, f) == [col |-> c, field |-> f]

\* The collection itself, among its fields in Plan.
None == "none"

\* What InitQdrant creates, in its order.
Plan == << Field("signatures", None),
           Field("signatures", "parent_sha256"),
           Field("signatures", "point_type"),
           Field("semantics", None), Field("semantics", "parent_sha256"),
           Field("faces", None),     Field("faces", "parent_sha256"),
           Field("audio", None),     Field("audio", "parent_sha256"),
           Field("text", None),      Field("text", "parent_sha256") >>

VARIABLES
    pc,         \* where main is
    pings,      \* pings of this start that failed
    up,         \* services that accept connections
    version,    \* schema_migrations: the last migration begun,
    dirty,      \* and whether it has not been completed
    made,       \* Qdrant: collections and field indexes that exist
    seen,       \* collections in the answer of List
    step,       \* position in Plan
    faults      \* how many more faults may happen

vars == <<pc, pings, up, version, dirty, made, seen, step, faults>>

stores == <<version, dirty, made>>

Fault == faults > 0 /\ faults' = faults - 1

Init ==
    /\ pc = "stopped"
    /\ pings = 0
    /\ up = {}
    /\ version = 0 /\ dirty = FALSE
    /\ made = {}
    /\ seen = {} /\ step = 1
    /\ faults = MaxFaults

\* The process ends: log.Fatalf, or its death.
Stop ==
    /\ pc' = "stopped"
    /\ pings' = 0 /\ seen' = {} /\ step' = 1

Goto(from, to) ==
    /\ pc = from
    /\ pc' = to
    /\ UNCHANGED <<pings, seen, step>>

-----------------------------------------------------------------------------
(* Postgres                                                                *)

Boot ==
    /\ Goto("stopped", "ping")
    /\ UNCHANGED <<up, stores, faults>>

Ping ==
    /\ "postgres" \in up
    /\ Goto("ping", "migrate")
    /\ UNCHANGED <<up, stores, faults>>

\* Five attempts, two seconds apart.
PingFails ==
    /\ pc = "ping"
    /\ \/ "postgres" \notin up /\ UNCHANGED faults
       \/ Fault
    /\ IF pings + 1 = Attempts
       THEN Stop
       ELSE pings' = pings + 1 /\ UNCHANGED <<pc, seen, step>>
    /\ UNCHANGED <<up, stores>>

\* m.Up: a migration is recorded as begun, applied, and recorded as complete.
BeginMigration ==
    /\ ~dirty
    /\ version < Migrations
    /\ Goto("migrate", "apply")
    /\ version' = version + 1 /\ dirty' = TRUE
    /\ UNCHANGED <<up, made, faults>>

EndMigration ==
    /\ Goto("apply", "migrate")
    /\ dirty' = FALSE
    /\ UNCHANGED <<up, version, made, faults>>

\* Mutant: an interrupted migration is taken for a complete one.
MigratedOrDirty ==
    /\ version = Migrations
    /\ Goto("migrate", "list")
    /\ UNCHANGED <<up, stores, faults>>

\* ErrNoChange is no error.
Migrated ==
    /\ ~dirty
    /\ version = Migrations
    /\ Goto("migrate", "list")
    /\ UNCHANGED <<up, stores, faults>>

\* m.Up refuses a schema whose last migration was interrupted.
RefuseDirty ==
    /\ pc = "migrate"
    /\ dirty
    /\ Stop
    /\ UNCHANGED <<up, stores, faults>>

-----------------------------------------------------------------------------
(* Qdrant                                                                  *)

Existing == {c \in Collections : Field(c, None) \in made}

\* The collections are listed once, without a retry.
List ==
    /\ pc = "list"
    /\ \/ /\ "qdrant" \in up
          /\ pc' = "create" /\ seen' = Existing
          /\ UNCHANGED <<pings, step>>
       \/ "qdrant" \notin up /\ Stop
    /\ UNCHANGED <<up, stores, faults>>

\* Mutant: every collection is taken for a missing one.
CreateAll(c) == TRUE

\* Only what was not in the list is created, with its indexes.
Missing(c) == c \notin seen

AtPlan == pc = "create" /\ step <= Len(Plan)

Advance == step' = step + 1 /\ UNCHANGED <<pc, pings, seen>>

SkipExisting ==
    /\ AtPlan
    /\ ~Missing(Plan[step].col)
    /\ Advance
    /\ UNCHANGED <<up, stores, faults>>

\* Qdrant refuses to create a collection that exists.
Creatable == Plan[step].field = None => Plan[step].col \notin Existing

\* Mutant: an error of CreateFieldIndex is not returned.
CreateOrLog ==
    /\ AtPlan
    /\ Missing(Plan[step].col)
    /\ Creatable
    /\ \/ made' = made \cup {Plan[step]}
       \/ Plan[step].field # None /\ UNCHANGED made
    /\ Advance
    /\ UNCHANGED <<up, version, dirty, faults>>

Create ==
    /\ AtPlan
    /\ Missing(Plan[step].col)
    /\ Creatable
    /\ made' = made \cup {Plan[step]}
    /\ Advance
    /\ UNCHANGED <<up, version, dirty, faults>>

\* The call fails, or its answer is lost or later than the five seconds that
\* InitQdrant has for all of its calls.
CreateFails ==
    /\ AtPlan
    /\ Missing(Plan[step].col)
    /\ \/ ~Creatable /\ UNCHANGED <<made, faults>>
       \/ Creatable /\ Fault /\ made' \in {made, made \cup {Plan[step]}}
    /\ Stop
    /\ UNCHANGED <<up, version, dirty>>

Provisioned ==
    /\ step > Len(Plan)
    /\ Goto("create", "dial")
    /\ UNCHANGED <<up, stores, faults>>

-----------------------------------------------------------------------------
(* The node, and the server                                                *)

\* NewVerifier and NewEVMListener dial the node; listener and workers start.
Dial ==
    /\ \/ "node" \in up /\ Goto("dial", "ingest")
       \/ pc = "dial" /\ "node" \notin up /\ Stop
    /\ UNCHANGED <<up, stores, faults>>

Serve ==
    /\ Goto("ingest", "serving")
    /\ UNCHANGED <<up, stores, faults>>

\* The operator stops the server, which has nothing to undo.
Shutdown ==
    /\ pc = "serving"
    /\ Stop
    /\ UNCHANGED <<up, stores, faults>>

\* A call fails, the port is taken, or the process dies.
Fails ==
    /\ pc # "stopped"
    /\ Fault
    /\ Stop
    /\ UNCHANGED <<up, stores>>

ComesUp(s) ==
    /\ s \notin up
    /\ up' = up \cup {s}
    /\ UNCHANGED <<pc, pings, stores, seen, step, faults>>

StartStep ==
    \/ Ping \/ PingFails
    \/ BeginMigration \/ EndMigration \/ Migrated \/ RefuseDirty
    \/ List \/ SkipExisting \/ Create \/ CreateFails \/ Provisioned
    \/ Dial \/ Serve

Next ==
    \/ Boot
    \/ StartStep
    \/ Shutdown \/ Fails
    \/ \E s \in Services : ComesUp(s)

Spec == Init /\ [][Next]_vars

\* main runs on once it has been started; nobody promises to start it again.
FairSpec == Spec /\ WF_vars(StartStep)

-----------------------------------------------------------------------------
(* Properties                                                              *)

PlanSet == {Plan[i] : i \in 1..Len(Plan)}

\* Type invariant of the start and of what it leaves in Postgres and Qdrant.
TypeOK ==
    /\ pc \in {"stopped", "ping", "migrate", "apply", "list", "create", "dial",
               "ingest", "serving"}
    /\ pings \in 0..(Attempts - 1)
    /\ up \subseteq Services
    /\ version \in 0..Migrations
    /\ dirty \in BOOLEAN
    /\ made \subseteq PlanSet
    /\ seen \subseteq Collections
    /\ step \in 1..(Len(Plan) + 1)
    /\ faults \in 0..MaxFaults

\* Listener, workers and API run on a complete schema and on all collections,
\* whatever earlier starts left behind: registering never meets a store that
\* is not there.
RunsOnCompleteStores ==
    pc \in {"ingest", "serving"} =>
        /\ version = Migrations /\ ~dirty
        /\ Existing = Collections

\* Collections some of whose indexes do not exist.
Unfinished == {c \in Existing : \E f \in PlanSet : f.col = c /\ f \notin made}

\* The collection this start is about to complete.
UnderWay == IF AtPlan /\ Missing(Plan[step].col) THEN {Plan[step].col} ELSE {}

\* A failed start leaves at most one collection without its indexes (which no
\* later start adds, as InitQdrant looks at collections only).
OneUnfinishedPerFault == Cardinality(Unfinished \ UnderWay) + faults <= MaxFaults

\* A start that nothing disturbs reaches the running server, whatever earlier
\* starts left behind, unless one of them died within a migration.
UndisturbedStartServes ==
    (pc = "ping" /\ up = Services /\ faults = 0 /\ ~dirty) ~> pc = "serving"
=============================================================================
