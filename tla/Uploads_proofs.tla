--------------------------- MODULE Uploads_proofs ----------------------------
(***************************************************************************)
(* Proofs about Uploads and the start of the server it composes with, for  *)
(* any files, metadata and uploaders, any number of migrations, attempts   *)
(* and faults.                                                             *)
(***************************************************************************)
EXTENDS Uploads, FiniteSetTheorems, TLAPS

-----------------------------------------------------------------------------
(* What InitQdrant has to create                                           *)

LEMMA PlanLength == Len(Plan) = 11
  BY DEF Plan

LEMMA PlanFields ==
    ASSUME NEW i \in 1..Len(Plan)
    PROVE  Plan[i].col \in Collections /\ Plan[i] = Field(Plan[i].col, Plan[i].field)
  BY DEF Plan, Field, Collections

\* Every collection is in it,
LEMMA PlanComplete == \A c \in Collections : \E i \in 1..Len(Plan) : Plan[i] = Field(c, None)
<1>1. /\ Plan[1] = Field("signatures", None) /\ Plan[4] = Field("semantics", None)
      /\ Plan[6] = Field("faces", None) /\ Plan[8] = Field("audio", None)
      /\ Plan[10] = Field("text", None)
  BY DEF Plan
<1> QED  BY <1>1, PlanLength DEF Collections

\* and what belongs to it is created in a row.
LEMMA PlanInRow ==
    ASSUME NEW i \in 1..Len(Plan), NEW k \in 1..Len(Plan), i < k, Plan[i].col = Plan[k].col
    PROVE  Plan[i + 1].col = Plan[i].col
  BY PlanLength DEF Plan, Field

\* The collection itself comes first.
LEMMA PlanCollectionFirst ==
    ASSUME NEW i \in 1..Len(Plan), NEW k \in 1..Len(Plan), i < k, Plan[i].col = Plan[k].col
    PROVE  Plan[k].field # None
  BY PlanLength DEF Plan, Field, None

-----------------------------------------------------------------------------
(* The start                                                               *)

\* Where main is, and what Postgres and Qdrant hold there.
Staged ==
    /\ pc \in {"list", "create", "dial", "ingest", "serving"} => version = Migrations /\ ~dirty
    /\ pc \in {"stopped", "ping", "migrate", "apply", "list"} => step = 1
    /\ pc \in {"dial", "ingest", "serving"} => Existing = Collections

\* Within InitQdrant: what is past is done, what is ahead is not.
Creating ==
    pc = "create" =>
        /\ seen \subseteq Existing
        /\ \A i \in 1..Len(Plan) :
             /\ i < step => Plan[i].col \in seen \/ Plan[i] \in made
             /\ i >= step /\ Plan[i].field = None => Plan[i].col \in seen \/ Plan[i] \notin made

\* A call or the process fails while no start is creating anything.
Disturbed ==
    /\ Fault
    /\ UNCHANGED <<pc, pings, up, stores, seen, step>>

LEMMA StartFault ==
    ASSUME TypeOK, Fault
    PROVE  faults > 0 /\ faults' = faults - 1 /\ faults' \in 0..MaxFaults
  BY StartupAssumption DEF TypeOK, Fault

LEMMA StartTypeStep == TypeOK /\ ([Next]_vars \/ Disturbed) => TypeOK'
<1> SUFFICES ASSUME TypeOK, [Next]_vars \/ Disturbed PROVE TypeOK'
  OBVIOUS
<1> USE StartupAssumption, PlanLength
<1>1. CASE Boot \/ Ping \/ Migrated \/ EndMigration \/ Provisioned \/ Serve
  BY <1>1 DEF Boot, Ping, Migrated, EndMigration, Provisioned, Serve, Goto, stores, TypeOK
<1>2. CASE BeginMigration
  BY <1>2 DEF BeginMigration, Goto, stores, TypeOK
<1>3. CASE PingFails
  BY <1>3, StartFault DEF PingFails, Stop, stores, TypeOK
<1>4. CASE RefuseDirty \/ Shutdown \/ Fails
  BY <1>4, StartFault DEF RefuseDirty, Shutdown, Fails, Stop, stores, TypeOK
<1>5. CASE List
  BY <1>5 DEF List, Stop, Existing, stores, TypeOK
<1>6. CASE SkipExisting
  BY <1>6 DEF SkipExisting, AtPlan, Advance, stores, TypeOK
<1>7. CASE Create
  BY <1>7 DEF Create, AtPlan, Advance, PlanSet, TypeOK
<1>8. CASE CreateFails
  BY <1>8, StartFault DEF CreateFails, AtPlan, Stop, PlanSet, TypeOK
<1>9. CASE Dial
  BY <1>9 DEF Dial, Goto, Stop, stores, TypeOK
<1>10. CASE \E s \in Services : ComesUp(s)
  BY <1>10 DEF ComesUp, stores, TypeOK
<1>11. CASE Disturbed
  BY <1>11, StartFault DEF Disturbed, stores, TypeOK
<1>12. CASE UNCHANGED vars
  BY <1>12 DEF vars, TypeOK
<1> QED
  BY <1>1, <1>2, <1>3, <1>4, <1>5, <1>6, <1>7, <1>8, <1>9, <1>10, <1>11, <1>12
     DEF Next, StartStep

\* Past the plan, every collection exists.
LEMMA PlanDone ==
    ASSUME TypeOK, Creating, pc = "create", step > Len(Plan)
    PROVE  Existing = Collections
<1> SUFFICES ASSUME NEW c \in Collections PROVE Field(c, None) \in made
  BY DEF Existing
<1>1. PICK i \in 1..Len(Plan) : Plan[i] = Field(c, None)
  BY PlanComplete
<1>2. Plan[i].col = c
  BY <1>1 DEF Field
<1>3. c \in seen \/ Plan[i] \in made
  BY <1>2, PlanLength DEF Creating, TypeOK
<1> QED  BY <1>1, <1>3 DEF Creating, Existing

LEMMA StagedStep == TypeOK /\ Staged /\ Creating /\ ([Next]_vars \/ Disturbed) => Staged'
<1> SUFFICES ASSUME TypeOK, Staged, Creating, [Next]_vars \/ Disturbed PROVE Staged'
  OBVIOUS
<1>1. CASE Boot \/ Ping \/ Migrated \/ EndMigration \/ BeginMigration \/ Serve
  BY <1>1 DEF Boot, Ping, Migrated, EndMigration, BeginMigration, Serve, Goto, stores, Staged, Existing
<1>2. CASE Provisioned
  BY <1>2, PlanDone DEF Provisioned, Goto, stores, Staged, Existing
<1>3. CASE PingFails \/ RefuseDirty \/ Shutdown \/ Fails \/ List
  BY <1>3 DEF PingFails, RefuseDirty, Shutdown, Fails, List, Stop, stores, Staged, Existing
<1>4. CASE SkipExisting \/ Create
  BY <1>4 DEF SkipExisting, Create, AtPlan, Advance, stores, Staged
<1>5. CASE CreateFails
  BY <1>5 DEF CreateFails, Stop, Staged
<1>6. CASE Dial
  BY <1>6 DEF Dial, Goto, Stop, stores, Staged, Existing
<1>7. CASE (\E s \in Services : ComesUp(s)) \/ Disturbed \/ UNCHANGED vars
  BY <1>7 DEF ComesUp, Disturbed, stores, vars, Staged, Existing
<1> QED
  BY <1>1, <1>2, <1>3, <1>4, <1>5, <1>6, <1>7 DEF Next, StartStep

LEMMA CreatingStep == TypeOK /\ Staged /\ Creating /\ ([Next]_vars \/ Disturbed) => Creating'
<1> SUFFICES ASSUME TypeOK, Staged, Creating, [Next]_vars \/ Disturbed PROVE Creating'
  OBVIOUS
<1>1. CASE UNCHANGED <<pc, seen, step, made>>
  BY <1>1 DEF Creating, Existing
<1>2. CASE pc' # "create"
  BY <1>2 DEF Creating
<1>3. CASE List /\ pc' = "create"
  <2>1. step' = 1 /\ seen' = Existing /\ made' = made
    BY <1>3 DEF List, Stop, Staged, stores
  <2>2. \A i \in 1..Len(Plan) : Plan[i].field = None /\ Plan[i] \in made => Plan[i].col \in Existing
    BY PlanFields DEF Existing
  <2> QED  BY <2>1, <2>2, PlanLength DEF Creating, Existing
<1>4. CASE SkipExisting
  BY <1>4, PlanLength DEF SkipExisting, AtPlan, Advance, Missing, stores, Creating, TypeOK, Existing
<1>5. CASE Create
  <2>1. /\ step \in 1..Len(Plan) /\ made' = made \cup {Plan[step]} /\ step' = step + 1
        /\ pc = "create" /\ seen' = seen
    BY <1>5, PlanLength DEF Create, AtPlan, Advance, TypeOK
  <2>2. seen \subseteq Existing'
    BY <2>1 DEF Creating, Existing
  <2>3. ASSUME NEW i \in 1..Len(Plan), i < step + 1
        PROVE  Plan[i].col \in seen \/ Plan[i] \in made'
    BY <2>1, <2>3 DEF Creating
  <2>4. ASSUME NEW i \in 1..Len(Plan), i >= step + 1, Plan[i].field = None
        PROVE  Plan[i].col \in seen \/ Plan[i] \notin made'
    <3>1. Plan[i].col \in seen \/ Plan[i] \notin made
      BY <2>1, <2>4 DEF Creating
    <3>2. Plan[i] # Plan[step]
      BY <2>1, <2>4, PlanCollectionFirst
    <3> QED  BY <2>1, <3>1, <3>2
  <2> QED  BY <2>1, <2>2, <2>3, <2>4 DEF Creating
<1>6. UNCHANGED <<pc, seen, step, made>> \/ pc' # "create" \/ List \/ SkipExisting \/ Create
  BY DEF Next, StartStep, Boot, Ping, PingFails, BeginMigration, EndMigration, Migrated,
         RefuseDirty, CreateFails, Provisioned, Dial, Serve, Shutdown, Fails, ComesUp,
         Disturbed, Goto, Stop, stores, vars
<1> QED  BY <1>1, <1>2, <1>3, <1>4, <1>5, <1>6

Open == Unfinished \ UnderWay

LEMMA OpenFinite ==
    /\ Open \subseteq Collections
    /\ \A S \in SUBSET Collections : IsFiniteSet(S) /\ Cardinality(S) \in Nat
<1>1. IsFiniteSet(Collections)
  <2>1. Collections = {"signatures"} \cup {"semantics"} \cup {"faces"} \cup {"audio"} \cup {"text"}
    BY DEF Collections
  <2>2. \A c : IsFiniteSet({c})
    BY FS_Singleton
  <2> QED  BY <2>1, <2>2, FS_Union
<1> QED  BY <1>1, FS_Subset, FS_CardinalityType DEF Open, Unfinished, Existing

\* At most one more collection is left open.
LEMMA OpenGrows ==
    ASSUME NEW c, Open' \subseteq Open \cup {c}
    PROVE  Cardinality(Open') <= Cardinality(Open) + 1
<1>1. IsFiniteSet(Open) /\ Cardinality(Open) \in Nat
  BY OpenFinite
<1>2. /\ IsFiniteSet(Open \cup {c})
      /\ Cardinality(Open \cup {c}) \in Nat
      /\ Cardinality(Open \cup {c}) <= Cardinality(Open) + 1
  BY <1>1, FS_AddElement, FS_CardinalityType
<1>3. IsFiniteSet(Open') /\ Cardinality(Open') \in Nat /\ Cardinality(Open') <= Cardinality(Open \cup {c})
  BY <1>2, FS_Subset, FS_CardinalityType
<1> QED  BY <1>1, <1>2, <1>3

LEMMA OpenShrinks ==
    ASSUME Open' \subseteq Open
    PROVE  Cardinality(Open') <= Cardinality(Open)
  BY OpenFinite, FS_Subset

LEMMA OpenNat == Cardinality(Open) \in Nat /\ Cardinality(Open') \in Nat
<1>1. Cardinality(Open) \in Nat
  BY OpenFinite
<1>2. Open' \subseteq Collections
  BY DEF Open, Unfinished, Existing
<1>3. Cardinality(Open') \in Nat
  BY <1>2, OpenFinite
<1> QED  BY <1>1, <1>3

\* The fields of the other collections are not touched.
LEMMA OthersKept ==
    ASSUME NEW i \in 1..Len(Plan), made' \subseteq made \cup {Plan[i]}, made \subseteq made',
           NEW d, d # Plan[i].col, d \in Unfinished'
    PROVE  d \in Unfinished
<1>1. d \in Existing
  BY PlanFields DEF Unfinished, Existing, Field
<1> QED  BY <1>1, PlanFields DEF Unfinished

\* A step that does not fail leaves no collection open that was not.
LEMMA CreateCloses ==
    ASSUME TypeOK, Creating, Create
    PROVE  Open' \subseteq Open
<1>1. /\ step \in 1..Len(Plan) /\ made' = made \cup {Plan[step]} /\ step' = step + 1
      /\ pc = "create" /\ pc' = "create" /\ seen' = seen /\ Plan[step].col \notin seen
  BY PlanLength DEF Create, AtPlan, Advance, TypeOK, Missing
<1> DEFINE c == Plan[step].col
<1>2. UnderWay = {c}
  BY <1>1 DEF UnderWay, AtPlan, Missing
<1>3. \A d \in Unfinished' : d # c => d \in Unfinished
  BY <1>1, OthersKept
<1>4. c \notin Open'
  <2>1. CASE step + 1 <= Len(Plan) /\ Plan[step + 1].col = c
    BY <1>1, <2>1 DEF Open, UnderWay, AtPlan, Missing
  <2>2. CASE ~(step + 1 <= Len(Plan) /\ Plan[step + 1].col = c)
    <3>1. \A i \in 1..Len(Plan) : Plan[i].col = c => i <= step
      BY <1>1, <2>2, PlanInRow, PlanLength
    <3>2. \A i \in 1..Len(Plan) : Plan[i].col = c => Plan[i] \in made'
      BY <1>1, <3>1, PlanLength DEF Creating
    <3>3. c \notin Unfinished'
      BY <3>2 DEF Unfinished, PlanSet
    <3> QED  BY <3>3 DEF Open
  <2> QED  BY <2>1, <2>2
<1> QED  BY <1>2, <1>3, <1>4 DEF Open

LEMMA UnfinishedStep ==
    TypeOK /\ Staged /\ Creating /\ OneUnfinishedPerFault /\ ([Next]_vars \/ Disturbed)
        => OneUnfinishedPerFault'
<1> SUFFICES ASSUME TypeOK, Staged, Creating, OneUnfinishedPerFault, [Next]_vars \/ Disturbed
             PROVE  OneUnfinishedPerFault'
  OBVIOUS
<1>1. faults \in Nat /\ faults' \in Nat /\ MaxFaults \in Nat
  BY StartTypeStep, StartupAssumption DEF TypeOK
<1>0. /\ OneUnfinishedPerFault <=> Cardinality(Open) + faults <= MaxFaults
      /\ OneUnfinishedPerFault' <=> Cardinality(Open') + faults' <= MaxFaults
  BY DEF OneUnfinishedPerFault, Open
<1>2. ASSUME Open' \subseteq Open, faults' <= faults PROVE OneUnfinishedPerFault'
  BY <1>0, <1>1, <1>2, OpenShrinks, OpenNat
<1>3. ASSUME NEW c, Open' \subseteq Open \cup {c}, Fault PROVE OneUnfinishedPerFault'
  BY <1>0, <1>1, <1>3, OpenGrows, OpenNat DEF Fault
<1>4. CASE /\ pc # "create" /\ pc' # "create" /\ UNCHANGED made
           /\ UNCHANGED faults \/ Fault
  BY <1>1, <1>2, <1>4 DEF Open, Unfinished, UnderWay, AtPlan, Existing, Fault
<1>5. CASE List \/ SkipExisting \/ Provisioned
  <2>1. UnderWay = {} /\ made' = made /\ faults' = faults
    BY <1>5, PlanLength DEF List, SkipExisting, Provisioned, Goto, Stop, UnderWay, AtPlan, stores, TypeOK
  <2> QED  BY <1>1, <1>2, <2>1 DEF Open, Unfinished, Existing
<1>6. CASE Create
  BY <1>1, <1>2, <1>6, CreateCloses DEF Create
<1>7. CASE CreateFails
  <2>1. step \in 1..Len(Plan) /\ pc = "create" /\ Plan[step].col \notin seen
    BY <1>7, PlanLength DEF CreateFails, AtPlan, TypeOK, Missing
  <2> DEFINE c == Plan[step].col
  <2>2. Creatable
    BY <2>1, PlanFields, PlanLength DEF Creatable, Creating, Existing
  <2>3. Fault /\ made' \in {made, made \cup {Plan[step]}}
    BY <1>7, <2>2 DEF CreateFails
  <2>4. \A d \in Unfinished' : d # c => d \in Unfinished
    BY <2>1, <2>3, OthersKept
  <2>5. UnderWay = {c}
    BY <2>1 DEF UnderWay, AtPlan, Missing
  <2>6. Open' \subseteq Open \cup {c}
    BY <2>4, <2>5 DEF Open
  <2> QED  BY <1>3, <2>3, <2>6
<1>8. CASE Fails /\ pc = "create"
  <2> DEFINE c == Plan[step].col
  <2>1. UnderWay \subseteq {c} /\ made' = made /\ Fault
    BY <1>8 DEF Fails, UnderWay, stores
  <2> QED  BY <1>3, <2>1 DEF Open, Unfinished, Existing
<1>9. CASE UNCHANGED <<pc, seen, step, made>> /\ (UNCHANGED faults \/ Fault)
  BY <1>1, <1>2, <1>9 DEF Open, Unfinished, UnderWay, AtPlan, Missing, Existing, Fault
<1>10. \/ /\ pc # "create" /\ pc' # "create" /\ UNCHANGED made
          /\ UNCHANGED faults \/ Fault
       \/ List \/ SkipExisting \/ Provisioned \/ Create \/ CreateFails
       \/ Fails /\ pc = "create"
       \/ UNCHANGED <<pc, seen, step, made>> /\ (UNCHANGED faults \/ Fault)
  BY DEF Next, StartStep, Boot, Ping, PingFails, BeginMigration, EndMigration, Migrated,
         RefuseDirty, Dial, Serve, Shutdown, Fails, ComesUp, Disturbed, Goto, Stop, stores, vars
<1> QED  BY <1>4, <1>5, <1>6, <1>7, <1>8, <1>9, <1>10

-----------------------------------------------------------------------------
(* The uploads                                                             *)

Upload == [at : {"idle", "pin", "store", "copy"}, item : Item \cup {NoItem}, count : Nat]

\* What a request may be doing while the server runs.
Doing(q) ==
    /\ q.at = "idle" => q = NoUpload
    /\ q.at = "pin" => q.item \in Item
    /\ q.at = "store" => q.item \in Media
    /\ q.at = "copy" => q.item \in Media /\ q.count <= Size /\ config.local

LEMMA NoUploadType == NoUpload \in Upload /\ Doing(NoUpload)
  BY DEF NoUpload, Upload, Doing

LEMMA Uploading ==
    ASSUME UploadTypeOK, NEW u \in Uploaders, upload[u].at # "idle"
    PROVE  /\ pc = "serving"
           /\ upload[u] \in Upload
           /\ Doing(upload[u])
  BY DEF UploadTypeOK, Upload, Doing, At, ItemOf, NoUpload

\* One upload moves on while the server runs.
LEMMA UploadMoves ==
    ASSUME UploadTypeOK, NEW u \in Uploaders, NEW q \in Upload, Doing(q),
           pc = "serving", pc' = pc, config' = config, upload' = [upload EXCEPT ![u] = q]
    PROVE  /\ upload' \in [Uploaders -> Upload]
           /\ \A v \in Uploaders :
                /\ At(v, "idle")' \/ pc' # "serving" => upload'[v] = NoUpload
                /\ At(v, "pin")' => ItemOf(v)' \in Item
                /\ At(v, "store")' => ItemOf(v)' \in Media
                /\ At(v, "copy")' => /\ ItemOf(v)' \in Media
                                     /\ upload'[v].count <= Size /\ config'.local
<1>1. upload' \in [Uploaders -> Upload] /\ upload'[u] = q
  BY DEF UploadTypeOK, Upload
<1>2. \A v \in Uploaders \ {u} : upload'[v] = upload[v]
  BY DEF UploadTypeOK
<1> QED  BY <1>1, <1>2 DEF UploadTypeOK, Doing, At, ItemOf

LEMMA UploadTypeStep == UploadTypeOK /\ [UploadNext]_serverVars => UploadTypeOK'
<1> SUFFICES ASSUME UploadTypeOK, [UploadNext]_serverVars PROVE UploadTypeOK'
  OBVIOUS
<1> USE DEF At, ItemOf
<1>1. ASSUME NEW u \in Uploaders, NEW f \in Media, PinFile(u, f) PROVE UploadTypeOK'
  <2> DEFINE q == [at |-> IF config.jwt THEN "pin" ELSE "store", item |-> f, count |-> 0]
  <2>1. q \in Upload /\ Doing(q)
    BY DEF Upload, Doing, Item
  <2>2. upload' = [upload EXCEPT ![u] = q] /\ pc = "serving" /\ pc' = pc /\ config' = config
    BY <1>1 DEF PinFile, Set, Free, vars
  <2> HIDE DEF q
  <2> QED  BY <1>1, <2>1, <2>2, UploadMoves DEF PinFile, UploadTypeOK, Upload, answers, registry
<1>2. ASSUME NEW u \in Uploaders, NEW m \in Metadata, PinToIPFS(u, m) PROVE UploadTypeOK'
  <2> DEFINE q == [at |-> "pin", item |-> m, count |-> 0]
  <2>1. q \in Upload /\ Doing(q)
    BY DEF Upload, Doing, Item
  <2>2. upload' = [upload EXCEPT ![u] = q] /\ pc = "serving" /\ pc' = pc /\ config' = config
    BY <1>2 DEF PinToIPFS, Set, Free, vars
  <2> HIDE DEF q
  <2> QED  BY <1>2, <2>1, <2>2, UploadMoves DEF PinToIPFS, UploadTypeOK, Upload, answers, registry
<1>3. ASSUME NEW u \in Uploaders, Attempt(u) \/ AttemptFails(u) \/ AnswerUnreadable(u)
      PROVE  UploadTypeOK'
  <2>1. /\ pc = "serving" /\ upload[u] \in Upload /\ upload[u].item \in Item /\ upload[u].at = "pin"
    BY <1>3, Uploading DEF Attempt, AttemptFails, AnswerUnreadable, Doing
  <2> DEFINE stored == [at |-> "store", item |-> upload[u].item, count |-> 0]
             again == [at |-> "pin", item |-> upload[u].item, count |-> upload[u].count + 1]
  <2>2. /\ upload[u].item \in Media => stored \in Upload /\ Doing(stored)
        /\ again \in Upload /\ Doing(again)
    BY <2>1 DEF Upload, Doing, Item
  <2>3. PICK q \in Upload : Doing(q) /\ upload' = [upload EXCEPT ![u] = q]
    BY <1>3, <2>2, NoUploadType
       DEF Attempt, AttemptFails, AnswerUnreadable, Pinned, Set, End
  <2>4. pc' = pc /\ config' = config
    BY <1>3 DEF Attempt, AttemptFails, AnswerUnreadable, vars
  <2>5. cids' \subseteq Metadata \X {"pinned", "mock"}
    BY <1>3, <2>1 DEF Attempt, AttemptFails, AnswerUnreadable, Pinned, UploadTypeOK, Item, answers
  <2>6. ipfs' \subseteq Item
    BY <1>3, <2>1 DEF Attempt, AttemptFails, AnswerUnreadable, UploadTypeOK
  <2> HIDE DEF stored, again
  <2> QED  BY <1>3, <2>1, <2>3, <2>4, <2>5, <2>6, UploadMoves
              DEF Attempt, AttemptFails, AnswerUnreadable, UploadTypeOK, Upload, answers, registry
<1>4. ASSUME NEW u \in Uploaders, PutObject(u) \/ PutObjectFails(u) \/ CreateFile(u)
      PROVE  UploadTypeOK'
  <2>1. /\ pc = "serving" /\ upload[u] \in Upload /\ upload[u].item \in Media /\ upload[u].at = "store"
    BY <1>4, Uploading DEF PutObject, PutObjectFails, CreateFile, Doing
  <2> DEFINE copied == [at |-> "copy", item |-> upload[u].item, count |-> 0]
  <2>2. config.local => copied \in Upload /\ Doing(copied)
    BY <2>1, UploadAssumption DEF Upload, Doing, Item
  <2>3. PICK q \in Upload : Doing(q) /\ upload' = [upload EXCEPT ![u] = q]
    BY <1>4, <2>2, NoUploadType DEF PutObject, PutObjectFails, CreateFile, Set, End
  <2>4. pc' = pc /\ config' = config
    BY <1>4 DEF PutObject, PutObjectFails, CreateFile, vars
  <2>5. object' \in [Media -> SUBSET Whole] /\ urls' \subseteq Media
    BY <1>4, <2>1 DEF PutObject, PutObjectFails, CreateFile, UploadTypeOK, answers
  <2> HIDE DEF copied
  <2> QED  BY <1>4, <2>1, <2>3, <2>4, <2>5, UploadMoves
              DEF PutObject, PutObjectFails, CreateFile, UploadTypeOK, Upload, answers, registry
<1>5. ASSUME NEW u \in Uploaders, Copy(u) \/ Copied(u) \/ CopyFails(u)
      PROVE  UploadTypeOK'
  <2>1. /\ pc = "serving" /\ upload[u] \in Upload /\ upload[u].item \in Media
        /\ upload[u].at = "copy" /\ config.local
    BY <1>5, Uploading DEF Copy, Copied, CopyFails, Doing
  <2> DEFINE copied == [at |-> "copy", item |-> upload[u].item, count |-> upload[u].count + 1]
  <2>2. upload[u].count < Size => copied \in Upload /\ Doing(copied)
    BY <2>1, UploadAssumption DEF Upload, Doing, Item
  <2>3. PICK q \in Upload : Doing(q) /\ upload' = [upload EXCEPT ![u] = q]
    BY <1>5, <2>2, NoUploadType DEF Copy, Copied, CopyFails, Set, End
  <2>4. pc' = pc /\ config' = config
    BY <1>5 DEF Copy, Copied, CopyFails, vars
  <2>5. urls' \subseteq Media /\ torn' \subseteq Media
    BY <1>5, <2>1 DEF Copy, Copied, CopyFails, UploadTypeOK, answers
  <2>6. object' \in [Media -> SUBSET Whole]
    <3>1. upload[u].count < Size => upload[u].count + 1 \in Whole
      BY <2>1, UploadAssumption DEF Whole, Upload
    <3> QED  BY <1>5, <2>1, <3>1 DEF Copy, Copied, CopyFails, UploadTypeOK
  <2> HIDE DEF copied
  <2> QED  BY <1>5, <2>1, <2>3, <2>4, <2>5, <2>6, UploadMoves
              DEF Copy, Copied, CopyFails, UploadTypeOK, Upload, answers, registry
<1>6. ASSUME NEW m \in Metadata, RegisterOnChain(m) PROVE UploadTypeOK'
  BY <1>6 DEF RegisterOnChain, UploadTypeOK, vars, answers
<1>7. ASSUME NEW m \in Metadata, Process(m) PROVE UploadTypeOK'
  BY <1>7 DEF Process, UploadTypeOK, answers
<1>8. ASSUME ServerStep PROVE UploadTypeOK'
  <2>1. bucket' \in BOOLEAN
    BY <1>8 DEF ServerStep, InitStorage, UploadTypeOK
  <2>2. CASE pc' = "serving"
    BY <1>8, <2>1, <2>2 DEF ServerStep, UploadTypeOK, answers, registry
  <2>3. CASE pc' # "serving"
    <3>1. Copying \subseteq Media
      BY DEF Copying, UploadTypeOK
    <3> QED  BY <1>8, <2>1, <2>3, <3>1, NoUploadType
                DEF ServerStep, UploadTypeOK, NoUpload, answers, registry
  <2> QED  BY <2>2, <2>3
<1>9. ASSUME UNCHANGED serverVars PROVE UploadTypeOK'
  BY <1>9 DEF serverVars, uploadVars, vars, answers, registry, UploadTypeOK
<1> QED
  BY <1>1, <1>2, <1>3, <1>4, <1>5, <1>6, <1>7, <1>8, <1>9 DEF UploadNext, UploadStep

-----------------------------------------------------------------------------
(* Metadata that are lost                                                  *)

\* An identifier of Pinata's names what it has pinned.
PinnedIsThere ==
    /\ \A m \in Metadata : <<m, "pinned">> \in cids => m \in ipfs
    /\ \A m \in Metadata : chain[m] = "pinned" => m \in ipfs

LEMMA PinnedStep ==
    UploadTypeOK /\ PinnedIsThere /\ [UploadNext]_serverVars => PinnedIsThere'
<1> SUFFICES ASSUME UploadTypeOK, PinnedIsThere, [UploadNext]_serverVars PROVE PinnedIsThere'
  OBVIOUS
<1>1. ASSUME NEW u \in Uploaders, Attempt(u) \/ AttemptFails(u) \/ AnswerUnreadable(u)
      PROVE  PinnedIsThere'
  BY <1>1 DEF Attempt, AttemptFails, AnswerUnreadable, Pinned, ItemOf, answers, registry,
              PinnedIsThere
<1>2. ASSUME NEW m \in Metadata, RegisterOnChain(m) PROVE PinnedIsThere'
  BY <1>2 DEF RegisterOnChain, answers, PinnedIsThere, UploadTypeOK
<1>3. CASE UNCHANGED <<ipfs, cids, chain>>
  BY <1>3 DEF PinnedIsThere
<1>4. \/ \E u \in Uploaders : Attempt(u) \/ AttemptFails(u) \/ AnswerUnreadable(u)
      \/ \E m \in Metadata : RegisterOnChain(m)
      \/ UNCHANGED <<ipfs, cids, chain>>
  BY DEF UploadNext, UploadStep, PinFile, PinToIPFS, PutObject, PutObjectFails, CreateFile,
         Copy, Copied, CopyFails, Process, ServerStep, serverVars, uploadVars, answers, registry
<1> QED  BY <1>1, <1>2, <1>3, <1>4

\* Every step of the uploads is a step of the start, or one call that fails.
LEMMA UploadsAreStarts == [UploadNext]_serverVars => [Next]_vars \/ Disturbed
  BY DEF UploadNext, UploadStep, PinFile, PinToIPFS, Attempt, AttemptFails, AnswerUnreadable,
         PutObject, PutObjectFails, CreateFile, Copy, Copied, CopyFails, RegisterOnChain,
         Process, ServerStep, serverVars, vars, stores, Disturbed

\* Faults that happened have happened.
LEMMA FaultsStay ==
    ASSUME TypeOK, [Next]_vars \/ Disturbed
    PROVE  faults' \in Nat /\ faults' <= faults /\ faults <= MaxFaults
<1>1. faults \in Nat /\ faults' \in Nat /\ faults <= MaxFaults
  BY StartTypeStep, StartupAssumption DEF TypeOK
<1>2. UNCHANGED faults \/ Fault
  BY DEF Next, StartStep, Boot, Ping, PingFails, BeginMigration, EndMigration, Migrated,
         RefuseDirty, List, SkipExisting, Create, CreateFails, Provisioned, Dial, Serve,
         Shutdown, Fails, ComesUp, Disturbed, vars
<1> QED  BY <1>1, <1>2 DEF Fault

LEMMA DegradedStep ==
    TypeOK /\ UploadTypeOK /\ PinnedIsThere /\ DegradedOnlyIfMock /\ [UploadNext]_serverVars
        => DegradedOnlyIfMock'
<1> SUFFICES ASSUME TypeOK, UploadTypeOK, PinnedIsThere, DegradedOnlyIfMock,
                    [UploadNext]_serverVars
             PROVE  DegradedOnlyIfMock'
  OBVIOUS
<1>1. faults \in Nat /\ MaxFaults \in Nat /\ faults' \in Nat /\ faults' <= faults /\ faults <= MaxFaults
  BY FaultsStay, UploadsAreStarts, StartupAssumption DEF TypeOK
<1>2. ASSUME NEW m \in Metadata, Process(m) PROVE DegradedOnlyIfMock'
  <2>1. chain' = chain
    BY <1>2 DEF Process
  <2>2. \A k \in Metadata \ {m} : row'[k] = row[k]
    BY <1>2 DEF Process, UploadTypeOK
  <2>3. row'[m] = "degraded" => chain[m] = "mock" \/ faults' < MaxFaults
    <3>1. chain[m] \in {"pinned", "mock"} /\ (chain[m] = "pinned" => Served(m))
      BY <1>2 DEF Process, UploadTypeOK, PinnedIsThere, Served
    <3>2. row'[m] = "degraded" => ~Served(m) \/ Fault
      BY <1>2 DEF Process, UploadTypeOK
    <3> QED  BY <1>1, <3>1, <3>2 DEF Fault
  <2> QED  BY <1>1, <2>1, <2>2, <2>3 DEF DegradedOnlyIfMock
<1>3. ASSUME NEW m \in Metadata, RegisterOnChain(m) PROVE DegradedOnlyIfMock'
  <2>1. /\ chain[m] = "none" /\ row' = row
        /\ \A k \in Metadata \ {m} : chain'[k] = chain[k]
        /\ chain'[m] \in {"pinned", "mock"}
    BY <1>3 DEF RegisterOnChain, UploadTypeOK
  <2> QED  BY <1>1, <2>1 DEF DegradedOnlyIfMock
<1>4. CASE UNCHANGED registry
  BY <1>1, <1>4 DEF DegradedOnlyIfMock, registry
<1>5. \/ \E m \in Metadata : Process(m) \/ RegisterOnChain(m)
      \/ UNCHANGED registry
  BY DEF UploadNext, UploadStep, PinFile, PinToIPFS, Attempt, AttemptFails, AnswerUnreadable,
         PutObject, PutObjectFails, CreateFile, Copy, Copied, CopyFails, ServerStep,
         serverVars, uploadVars
<1> QED  BY <1>2, <1>3, <1>4, <1>5

-----------------------------------------------------------------------------
(* Files that are copied twice at a time                                   *)

\* u has copied all that it counts, and nobody has emptied the file since.
Intact(u) == At(u, "copy") /\ 1..upload[u].count \subseteq object[ItemOf(u)]

\* Of the copies of a file one is intact, that which began last, unless a copy
\* of the file was interrupted.
LastIntact ==
    \A u \in Uploaders :
        At(u, "copy") /\ ItemOf(u) \notin torn
            => \E v \in Uploaders : Intact(v) /\ ItemOf(v) = ItemOf(u)

Files == LastIntact /\ UrlNamesWholeFile

LEMMA IntactWithin ==
    ASSUME UploadTypeOK, NEW u \in Uploaders, At(u, "copy")
    PROVE  1..upload[u].count \subseteq Whole /\ ItemOf(u) \in Media /\ config.local
  BY UploadAssumption DEF UploadTypeOK, Whole

\* Steps that touch no file and no copy.
LEMMA FilesSame ==
    ASSUME UploadTypeOK, Files, NEW u \in Uploaders, NEW q, q.at # "copy", ~At(u, "copy"),
           upload' = [upload EXCEPT ![u] = q],
           UNCHANGED <<config, object, urls, torn>>
    PROVE  Files'
<1>1. \A v \in Uploaders : At(v, "copy")' <=> At(v, "copy")
  BY DEF At, UploadTypeOK
<1>2. \A v \in Uploaders : At(v, "copy") => upload'[v] = upload[v]
  BY DEF At, UploadTypeOK
<1>3. Copying' = Copying
  BY <1>1, <1>2 DEF Copying, ItemOf
<1> QED  BY <1>1, <1>2, <1>3 DEF Files, LastIntact, Intact, ItemOf, UrlNamesWholeFile

LEMMA FilesStep == UploadTypeOK /\ Files /\ [UploadNext]_serverVars => Files'
<1> SUFFICES ASSUME UploadTypeOK, Files, [UploadNext]_serverVars PROVE Files'
  OBVIOUS
<1>1. ASSUME NEW u \in Uploaders, NEW f \in Media, PinFile(u, f) PROVE Files'
  BY <1>1, FilesSame DEF PinFile, Free, Set, At, answers
<1>2. ASSUME NEW u \in Uploaders, NEW m \in Metadata, PinToIPFS(u, m) PROVE Files'
  BY <1>2, FilesSame DEF PinToIPFS, Free, Set, At, answers
<1>3. ASSUME NEW u \in Uploaders, Attempt(u) \/ AttemptFails(u) \/ AnswerUnreadable(u)
      PROVE  Files'
  <2>1. /\ ~At(u, "copy")
        /\ UNCHANGED <<config, object, urls, torn>>
        /\ \E q : q.at # "copy" /\ upload' = [upload EXCEPT ![u] = q]
    BY <1>3 DEF Attempt, AttemptFails, AnswerUnreadable, Pinned, Set, End, At, NoUpload, answers
  <2> QED  BY <2>1, FilesSame
<1>4. ASSUME NEW u \in Uploaders, PutObjectFails(u) PROVE Files'
  BY <1>4, FilesSame DEF PutObjectFails, End, At, NoUpload, answers
<1>5. ASSUME NEW u \in Uploaders, PutObject(u) PROVE Files'
  <2>1. \A v \in Uploaders : ~At(v, "copy")
    BY <1>5, IntactWithin DEF PutObject
  <2>2. \A v \in Uploaders : ~At(v, "copy")'
    BY <1>5, <2>1 DEF PutObject, End, At, NoUpload, UploadTypeOK
  <2>3. \A f \in urls : object[f] = Whole
    BY <1>5 DEF PutObject, Files, UrlNamesWholeFile
  <2>4. \A f \in urls' : object'[f] = Whole
    BY <1>5, <2>3, Uploading DEF PutObject, UploadTypeOK, Doing, At, ItemOf
  <2> QED  BY <2>2, <2>4 DEF Files, LastIntact, UrlNamesWholeFile
<1>6. ASSUME NEW u \in Uploaders, CreateFile(u) PROVE Files'
  <2>1. ItemOf(u) \in Media
    BY <1>6, Uploading DEF CreateFile, Doing, At, ItemOf
  <2>2. /\ At(u, "copy")' /\ ItemOf(u)' = ItemOf(u) /\ upload'[u].count = 0
        /\ \A v \in Uploaders \ {u} : upload'[v] = upload[v]
        /\ config' = config /\ urls' = urls /\ torn' = torn /\ config.local
        /\ ~At(u, "copy")
    BY <1>6 DEF CreateFile, Set, At, ItemOf, UploadTypeOK, answers
  <2>3. Intact(u)'
    BY <2>2 DEF Intact
  <2>4. \A f \in Media \ {ItemOf(u)} : object'[f] = object[f]
    BY <1>6 DEF CreateFile, UploadTypeOK
  <2>5. \A v \in Uploaders : Intact(v) /\ ItemOf(v) # ItemOf(u) => Intact(v)' /\ ItemOf(v)' = ItemOf(v)
    BY <2>2, <2>4, IntactWithin DEF Intact, At, ItemOf
  <2>6. LastIntact'
    <3> SUFFICES ASSUME NEW v \in Uploaders, At(v, "copy")', ItemOf(v)' \notin torn'
                 PROVE  \E w \in Uploaders : Intact(w)' /\ ItemOf(w)' = ItemOf(v)'
      BY DEF LastIntact
    <3>1. CASE ItemOf(v)' = ItemOf(u)
      BY <2>2, <2>3, <3>1
    <3>2. CASE ItemOf(v)' # ItemOf(u)
      <4>1. v # u /\ At(v, "copy") /\ ItemOf(v)' = ItemOf(v)
        BY <2>2, <3>2 DEF At, ItemOf
      <4>2. PICK w \in Uploaders : Intact(w) /\ ItemOf(w) = ItemOf(v)
        BY <2>2, <4>1 DEF Files, LastIntact
      <4> QED  BY <2>5, <3>2, <4>1, <4>2
    <3> QED  BY <3>1, <3>2
  <2>7. Copying \subseteq Copying' /\ ItemOf(u) \in Copying'
    BY <2>2 DEF Copying, At, ItemOf
  <2>8. UrlNamesWholeFile'
    BY <2>2, <2>4, <2>7 DEF Files, UrlNamesWholeFile, UploadTypeOK
  <2> QED  BY <2>6, <2>8 DEF Files
<1>7. ASSUME NEW u \in Uploaders, Copy(u) PROVE Files'
  <2>1. /\ upload[u].count \in Nat /\ upload[u].count < Size /\ At(u, "copy")
        /\ ItemOf(u) \in Media
    BY <1>7, Uploading DEF Copy, Doing, At, ItemOf, Upload
  <2>2. /\ At(u, "copy")' /\ ItemOf(u)' = ItemOf(u) /\ upload'[u].count = upload[u].count + 1
        /\ \A v \in Uploaders \ {u} : upload'[v] = upload[v]
        /\ config' = config /\ urls' = urls /\ torn' = torn
    BY <1>7 DEF Copy, Set, At, ItemOf, UploadTypeOK, answers
  <2>3. /\ object'[ItemOf(u)] = object[ItemOf(u)] \cup {upload[u].count + 1}
        /\ \A f \in Media : object[f] \subseteq object'[f]
    BY <1>7, <2>1 DEF Copy, UploadTypeOK
  <2>4. \A v \in Uploaders : Intact(v) => Intact(v)' /\ ItemOf(v)' = ItemOf(v)
    <3>1. Intact(u) => Intact(u)'
      <4>1. 1..(upload[u].count + 1) = (1..upload[u].count) \cup {upload[u].count + 1}
        BY <2>1
      <4> QED  BY <2>2, <2>3, <4>1 DEF Intact
    <3>2. ASSUME NEW v \in Uploaders \ {u}, Intact(v) PROVE Intact(v)' /\ ItemOf(v)' = ItemOf(v)
      BY <2>2, <2>3, <3>2, IntactWithin DEF Intact, At, ItemOf
    <3> QED  BY <2>2, <3>1, <3>2
  <2>5. \A v \in Uploaders : (At(v, "copy")' <=> At(v, "copy")) /\ ItemOf(v)' = ItemOf(v)
    BY <2>1, <2>2 DEF At, ItemOf
  <2>6. Copying' = Copying
    BY <2>5 DEF Copying
  <2>7. LastIntact'
    BY <2>2, <2>4, <2>5 DEF Files, LastIntact
  <2>8. \A f \in Media : object[f] = Whole => object'[f] = Whole
    <3>1. upload[u].count + 1 \in Whole
      BY <2>1, UploadAssumption DEF Whole
    <3>2. \A f \in Media \ {ItemOf(u)} : object'[f] = object[f]
      BY <1>7 DEF Copy, UploadTypeOK
    <3> QED  BY <2>3, <3>1, <3>2
  <2>9. UrlNamesWholeFile'
    BY <2>2, <2>6, <2>8 DEF Files, UrlNamesWholeFile, UploadTypeOK
  <2> QED  BY <2>7, <2>9 DEF Files
<1>8. ASSUME NEW u \in Uploaders, Copied(u) PROVE Files'
  <2>1. At(u, "copy") /\ ItemOf(u) \in Media /\ upload[u].count = Size /\ config.local
    BY <1>8, Uploading DEF Copied, Doing, At, ItemOf
  <2>2. /\ ~At(u, "copy")'
        /\ \A v \in Uploaders \ {u} : upload'[v] = upload[v]
        /\ config' = config /\ object' = object /\ torn' = torn
        /\ urls' = urls \cup {ItemOf(u)}
    BY <1>8 DEF Copied, End, NoUpload, At, ItemOf, UploadTypeOK
  <2>3. \A v \in Uploaders \ {u} : /\ At(v, "copy")' <=> At(v, "copy")
                                   /\ ItemOf(v)' = ItemOf(v) /\ (Intact(v)' <=> Intact(v))
    BY <2>2 DEF At, ItemOf, Intact
  <2>4. Intact(u) => object[ItemOf(u)] = Whole
    BY <2>1, IntactWithin DEF Intact, Whole, UploadTypeOK
  <2>5. ASSUME NEW v \in Uploaders \ {u}, At(v, "copy"), ItemOf(v) \notin torn
        PROVE  \E w \in Uploaders \ {u} : Intact(w) /\ ItemOf(w) = ItemOf(v)
    <3>1. PICK w \in Uploaders : Intact(w) /\ ItemOf(w) = ItemOf(v)
      BY <2>5 DEF Files, LastIntact
    <3>2. CASE w = u
      BY <2>4, <2>5, <3>1, <3>2, IntactWithin DEF Intact
    <3> QED  BY <3>1, <3>2
  <2>6. LastIntact'
    <3> SUFFICES ASSUME NEW v \in Uploaders, At(v, "copy")', ItemOf(v)' \notin torn'
                 PROVE  \E w \in Uploaders : Intact(w)' /\ ItemOf(w)' = ItemOf(v)'
      BY DEF LastIntact
    <3>1. v # u /\ At(v, "copy") /\ ItemOf(v)' = ItemOf(v) /\ ItemOf(v) \notin torn
      BY <2>2, <2>3
    <3>2. PICK w \in Uploaders \ {u} : Intact(w) /\ ItemOf(w) = ItemOf(v)
      BY <2>5, <3>1
    <3> QED  BY <2>3, <3>1, <3>2
  <2>7. Copying \subseteq Copying' \cup {ItemOf(u)}
    BY <2>3 DEF Copying
  <2>8. object[ItemOf(u)] = Whole \/ ItemOf(u) \in Copying' \cup torn
    <3> SUFFICES ASSUME ItemOf(u) \notin torn, ~Intact(u) PROVE ItemOf(u) \in Copying'
      BY <2>4
    <3>1. PICK w \in Uploaders : Intact(w) /\ ItemOf(w) = ItemOf(u)
      BY <2>1 DEF Files, LastIntact
    <3>2. w # u /\ At(w, "copy")
      BY <3>1 DEF Intact
    <3> QED  BY <2>3, <3>1, <3>2 DEF Copying
  <2>9. UrlNamesWholeFile'
    BY <2>1, <2>2, <2>7, <2>8 DEF Files, UrlNamesWholeFile
  <2> QED  BY <2>6, <2>9 DEF Files
<1>9. ASSUME NEW u \in Uploaders, CopyFails(u) PROVE Files'
  <2>1. /\ At(u, "copy") /\ ~At(u, "copy")'
        /\ \A v \in Uploaders \ {u} : upload'[v] = upload[v]
        /\ config' = config /\ object' = object /\ urls' = urls
        /\ torn' = torn \cup {ItemOf(u)}
    BY <1>9 DEF CopyFails, End, NoUpload, At, ItemOf, UploadTypeOK, answers
  <2>2. \A v \in Uploaders \ {u} : /\ At(v, "copy")' <=> At(v, "copy")
                                   /\ ItemOf(v)' = ItemOf(v) /\ (Intact(v)' <=> Intact(v))
    BY <2>1 DEF At, ItemOf, Intact
  <2>3. LastIntact'
    <3> SUFFICES ASSUME NEW v \in Uploaders, At(v, "copy")', ItemOf(v)' \notin torn'
                 PROVE  \E w \in Uploaders : Intact(w)' /\ ItemOf(w)' = ItemOf(v)'
      BY DEF LastIntact
    <3>1. /\ v # u /\ At(v, "copy") /\ ItemOf(v)' = ItemOf(v)
          /\ ItemOf(v) \notin torn /\ ItemOf(v) # ItemOf(u)
      BY <2>1, <2>2
    <3>2. PICK w \in Uploaders : Intact(w) /\ ItemOf(w) = ItemOf(v)
      BY <3>1 DEF Files, LastIntact
    <3> QED  BY <2>2, <3>1, <3>2
  <2>4. Copying \cup torn \subseteq Copying' \cup torn'
    BY <2>1, <2>2 DEF Copying
  <2>5. UrlNamesWholeFile'
    BY <2>1, <2>4 DEF Files, UrlNamesWholeFile
  <2> QED  BY <2>3, <2>5 DEF Files
<1>10. CASE UNCHANGED <<config, object, urls, upload, torn>>
  BY <1>10 DEF Files, LastIntact, Intact, At, ItemOf, UrlNamesWholeFile, Copying
<1>11. ASSUME ServerStep PROVE Files'
  <2>1. UNCHANGED <<config, object, urls>>
    BY <1>11 DEF ServerStep, answers
  <2>2. CASE pc' = "serving"
    BY <1>10, <1>11, <2>1, <2>2 DEF ServerStep
  <2>3. CASE pc' # "serving"
    <3>1. torn' = torn \cup Copying /\ \A v \in Uploaders : ~At(v, "copy")'
      BY <1>11, <2>3 DEF ServerStep, At, NoUpload
    <3> QED  BY <2>1, <3>1 DEF Files, LastIntact, UrlNamesWholeFile
  <2> QED  BY <2>2, <2>3
<1>12. \/ ServerStep
       \/ \E u \in Uploaders : UploadStep(u)
       \/ UNCHANGED <<config, object, urls, upload, torn>>
  BY DEF UploadNext, RegisterOnChain, Process, serverVars, uploadVars, answers
<1> QED
  BY <1>1, <1>2, <1>3, <1>4, <1>5, <1>6, <1>7, <1>8, <1>9, <1>10, <1>11, <1>12 DEF UploadStep

-----------------------------------------------------------------------------

Correct ==
    /\ TypeOK /\ Staged /\ Creating /\ OneUnfinishedPerFault
    /\ UploadTypeOK /\ PinnedIsThere /\ DegradedOnlyIfMock
    /\ Files

LEMMA InitCorrect == UploadInit => Correct
<1> SUFFICES ASSUME UploadInit PROVE Correct
  OBVIOUS
<1>1. TypeOK /\ Staged /\ Creating
  <2>1. TypeOK
    <3>1. Init
      BY DEF UploadInit
    <3>2. /\ 0 \in 0..(Attempts - 1) /\ 0 \in 0..Migrations /\ MaxFaults \in 0..MaxFaults
          /\ 1 \in 1..(Len(Plan) + 1)
      BY StartupAssumption, PlanLength
    <3> QED  BY <3>1, <3>2 DEF Init, TypeOK
  <2>2. Staged /\ Creating
    BY DEF UploadInit, Init, Staged, Creating
  <2> QED  BY <2>1, <2>2
<1>2. OneUnfinishedPerFault
  <2>1. Unfinished \ UnderWay = {}
    BY DEF UploadInit, Init, Unfinished, Existing
  <2> QED  BY <2>1, FS_EmptySet, StartupAssumption DEF UploadInit, Init, OneUnfinishedPerFault
<1>3. UploadTypeOK
  BY NoUploadType DEF UploadInit, Init, UploadTypeOK, Upload, NoUpload, At
<1>4. PinnedIsThere /\ DegradedOnlyIfMock
  BY DEF UploadInit, PinnedIsThere, DegradedOnlyIfMock
<1>5. Files
  BY DEF UploadInit, Files, LastIntact, UrlNamesWholeFile, At, NoUpload
<1> QED  BY <1>1, <1>2, <1>3, <1>4, <1>5 DEF Correct

LEMMA UploadsCorrect == UploadSpec => []Correct
<1>1. Correct /\ [UploadNext]_serverVars => Correct'
  BY UploadsAreStarts, StartTypeStep, StagedStep, CreatingStep, UnfinishedStep, UploadTypeStep,
     PinnedStep, DegradedStep, FilesStep DEF Correct
<1> QED  BY <1>1, InitCorrect, PTL DEF UploadSpec

\* The start, the stores and the uploads keep their types.
THEOREM TypeCorrect == UploadSpec => [](TypeOK /\ UploadTypeOK)
<1>1. Correct => TypeOK /\ UploadTypeOK
  BY DEF Correct
<1> QED  BY <1>1, UploadsCorrect, PTL

\* Nothing is ingested and nothing served before the schema is complete and all
\* collections exist, whatever earlier starts left behind.
THEOREM StoresComplete == UploadSpec => []RunsOnCompleteStores
<1>1. Correct => RunsOnCompleteStores
  BY DEF Correct, Staged, RunsOnCompleteStores
<1> QED  BY <1>1, UploadsCorrect, PTL

\* Each fault leaves at most one collection without its indexes.
THEOREM OneUnfinishedAtMost == UploadSpec => []OneUnfinishedPerFault
<1>1. Correct => OneUnfinishedPerFault
  BY DEF Correct
<1> QED  BY <1>1, UploadsCorrect, PTL

\* A URL that was answered names the whole file, unless a copy of the file to the
\* disk is under way or was interrupted.
THEOREM UrlsNameWholeFiles == UploadSpec => []UrlNamesWholeFile
<1>1. Correct => UrlNamesWholeFile
  BY DEF Correct, Files
<1> QED  BY <1>1, UploadsCorrect, PTL

\* Metadata are lost only by an identifier that was made up, or by a fault.
THEOREM MetadataKept == UploadSpec => []DegradedOnlyIfMock
<1>1. Correct => DegradedOnlyIfMock
  BY DEF Correct
<1> QED  BY <1>1, UploadsCorrect, PTL
=============================================================================
