------------------------ MODULE TopicContractProofs ------------------------
(***************************************************************************)
(* Topic implements TopicContract, for every value of the constants, as    *)
(* long as metadata does not lag.                                          *)
(***************************************************************************)
EXTENDS TopicProofs

USE SettingsAssumption, TopicAssumption

----------------------------------------------------------------------------
(* The settings a record amounts to.                                       *)

(* They depend on the attributes that Streamline applies, and on no other. *)
LEMMA AppliedSame ==
  ASSUME NEW s \in Settings, NEW t \in Settings,
         \A a \in Attr \ Legacy : s[a] = t[a]
  PROVE  AppliedConf(s) = AppliedConf(t)
<1> DEFINE own(u) == {a \in Dedicated \cup Legacy : u[a] \notin Absent}
<1>1. "config" \in Attr \ Legacy /\ \A a \in Dedicated : a \in Attr \ Legacy
  BY DEF Attr
<1>2. s["config"] = t["config"]
  BY <1>1
<1>3. own(s) \ Legacy = own(t) \ Legacy
  BY <1>1
<1>4. CASE s["config"] \in Absent
  <2>1. BuildConfig(s) = [k \in own(s) |-> s[k]] /\ BuildConfig(t) = [k \in own(t) |-> t[k]]
    BY <1>2, <1>4 DEF BuildConfig
  <2>2. DOMAIN BuildConfig(s) \ Legacy = DOMAIN BuildConfig(t) \ Legacy
    BY <1>3, <2>1
  <2>3. \A k \in DOMAIN BuildConfig(s) \ Legacy : BuildConfig(s)[k] = BuildConfig(t)[k]
    BY <1>1, <1>3, <2>1
  <2> QED
    BY <2>2, <2>3 DEF AppliedConf
<1>5. CASE s["config"] \notin Absent
  <2> DEFINE map == s["config"]
             keys(u) == own(u) \cup DOMAIN map
  <2>1. /\ BuildConfig(s) = [k \in keys(s) |-> IF k \in DOMAIN map THEN map[k] ELSE s[k]]
        /\ BuildConfig(t) = [k \in keys(t) |-> IF k \in DOMAIN map THEN map[k] ELSE t[k]]
    BY <1>2, <1>5 DEF BuildConfig
  <2>2. keys(s) \ Legacy = keys(t) \ Legacy
    BY <1>3
  <2>3. DOMAIN BuildConfig(s) \ Legacy = DOMAIN BuildConfig(t) \ Legacy
    BY <2>1, <2>2
  <2>4. \A k \in DOMAIN BuildConfig(s) \ Legacy : BuildConfig(s)[k] = BuildConfig(t)[k]
    <3> SUFFICES ASSUME NEW k \in keys(s) \ Legacy
                 PROVE  BuildConfig(s)[k] = BuildConfig(t)[k]
      BY <2>1
    <3>1. k \in keys(t)
      BY <2>2
    <3>2. k \in DOMAIN map \/ s[k] = t[k]
      BY <1>1
    <3> QED
      BY <2>1, <3>1, <3>2
  <2> QED
    BY <2>3, <2>4 DEF AppliedConf
<1> QED
  BY <1>4, <1>5

(* Without legacy settings they are all that was sent.                     *)
LEMMA AppliedAll ==
  ASSUME NEW s \in Settings, \A a \in Legacy : s[a] = Null
  PROVE  AppliedConf(s) = BuildConfig(s)
<1>1. \A a \in Legacy : s[a] \in Absent
  BY DEF Absent
<1>2. s["config"] \in Absent \/ DOMAIN s["config"] \subseteq Keys
  BY SettingsElim DEF MapValue
<1>3. DOMAIN BuildConfig(s) \cap Legacy = {}
  BY <1>1, <1>2 DEF BuildConfig
<1>4. BuildConfig(s) = [k \in DOMAIN BuildConfig(s) |-> BuildConfig(s)[k]]
  BY DEF BuildConfig
<1>5. DOMAIN BuildConfig(s) \ Legacy = DOMAIN BuildConfig(s)
  BY <1>3
<1> QED
  BY <1>4, <1>5 DEF AppliedConf

----------------------------------------------------------------------------
(* Views of the record.                                                    *)

(* The contract sees a missing record exactly if there is none.            *)
LEMMA ViewOfNoRecord ==
  ASSUME WorldTyped
  PROVE  View(record) = View(NoRecord) <=> ~record.exists
<1>1. View(record).exists = record.exists /\ View(NoRecord).exists = FALSE
  BY DEF View, NoRecord
<1>2. ~record.exists => record = NoRecord
  BY RecordElim
<1> QED
  BY <1>1, <1>2, RecordElim

----------------------------------------------------------------------------
(* Steps.                                                                  *)

(* Every operation that core begins is one the contract lets begin.        *)
LEMMA BeginRefines ==
  ASSUME WorldTyped, CoreStep
  PROVE  Contract!Begin
<1>1. UNCHANGED <<topic, record>> /\ op = "none"
  BY DEF CoreStep, StartCreate, StartUpdate, StartReplace, StartDestroy,
         StartRefresh, StartImport, Begin, brokerVars
<1>2. op' \in {"create", "read", "import", "update", "delete"}
      /\ (op' \in {"create", "import"} <=> ~record.exists)
  BY DEF CoreStep, StartCreate, StartUpdate, StartReplace, StartDestroy,
         StartRefresh, StartImport, Begin, PlanKind
<1>3. View(record)' = View(record)
  BY <1>1 DEF View
<1> QED
  BY <1>1, <1>2, <1>3, ViewOfNoRecord DEF Contract!Begin

(* Steps that leave record and topic alone, and do not begin an operation. *)
LEMMA QuietRefines ==
  ASSUME UNCHANGED <<record, topic>>, \/ op' = op
                                      \/ op # "none" /\ op' = "none"
  PROVE  Contract!Next
<1>1. View(record)' = View(record)
  BY DEF View
<1>2. CASE op' = op
  BY <1>1, <1>2 DEF Contract!Next, Contract!Others, View
<1>3. CASE op # "none" /\ op' = "none"
  BY <1>1, <1>3 DEF Contract!Next, Contract!Fail, View
<1> QED
  BY <1>2, <1>3

(* What a request may do to the topic, whenever it is executed.            *)
LEMMA RequestMoves ==
  ASSUME WorldTyped, NEW r \in RequestValue, Execute(r)
  PROVE  \/ UNCHANGED topic
         \/ r.kind = "create" /\ topic.parts = 0
         \/ r.kind = "expand" /\ Contract!Grows
         \/ r.kind = "delete" /\ topic'.parts = 0
<1>1. CASE Answer(r) # "ok"
  BY <1>1 DEF Execute, brokerVars
<1>2. CASE Answer(r) = "ok"
  <2>1. topic' = Effect(r)
    BY <1>2 DEF Execute, TopicBecomes
  <2>2. CASE r.kind = "create"
    BY <1>2, <2>2, TopicElim DEF Answer, Exists
  <2>3. CASE r.kind = "delete"
    BY <2>1, <2>3 DEF Effect, NoTopic
  <2>4. CASE r.kind = "expand"
    <3>1. Exists /\ ~(r.parts <= topic.parts) /\ r.parts \in Partitions
      BY <1>2, <2>4 DEF Answer, RequestValue
    <3>2. topic'.parts = r.parts /\ topic'.conf = topic.conf
      BY <2>1, <2>4, <3>1, TopicElim DEF Effect
    <3> QED
      BY <2>4, <3>1, <3>2, TopicElim DEF Contract!Grows, Partitions
  <2> QED
    BY <2>2, <2>3, <2>4 DEF RequestValue
<1> QED
  BY <1>1, <1>2

(* A request whose reply is lost: the operation fails, or is tried again.  *)
LEMMA ReplyLostRefines ==
  ASSUME TaskTyped, TaskOK, WorldTyped, ReplyLost
  PROVE  Contract!Next
<1>1. Request \in RequestValue /\ Execute(Request) /\ UNCHANGED record
  BY RequestTyped DEF ReplyLost
<1>2. \/ UNCHANGED topic
      \/ op = "create" /\ topic.parts = 0
      \/ op = "delete" /\ topic'.parts = 0
      \/ op = "update" /\ Contract!Grows
  <2>1. op \in {"create", "update", "delete"}
    BY DEF ReplyLost, TaskOK
  <2>2. CASE op = "create"
    BY <1>1, <2>2, RequestMoves DEF Request
  <2>3. CASE op = "delete"
    BY <1>1, <2>3, RequestMoves DEF Request
  <2>4. CASE op = "update"
    BY <1>1, <2>4, RequestMoves DEF Request
  <2> QED
    BY <2>1, <2>2, <2>3, <2>4
<1>3. View(record)' = View(record)
  BY <1>1 DEF View
<1>4. op # "none" /\ (op' = op \/ op' = "none")
  <2>1. op # "none" /\ (Finish("failed") \/ AttemptFails)
    BY DEF ReplyLost, RequestFails, TaskOK
  <2>2. Finish("failed") => op' = "none"
    BY DEF Finish
  <2>3. AttemptFails => op' = op \/ op' = "none"
    BY DEF AttemptFails, GoTo, Finish
  <2> QED
    BY <2>1, <2>2, <2>3
<1>5. CASE op' = op
  BY <1>2, <1>3, <1>5 DEF Contract!Next, Contract!Others
<1>6. CASE op' = "none"
  BY <1>2, <1>3, <1>4, <1>6 DEF Contract!Next, Contract!Fail
<1> QED
  BY <1>4, <1>5, <1>6

(* Administrators, late requests and metadata, while the handler waits.    *)
LEMMA EnvironmentRefines ==
  ASSUME WorldTyped, EnvironmentStep, ~Killed
  PROVE  Contract!Next
<1>1. UNCHANGED <<record, op>>
  BY DEF EnvironmentStep, LateArrives, LateDropped, AdminCreates,
     AdminExpands, AdminDeletes, MetadataConverges, taskVars
<1>2. \/ UNCHANGED topic \/ Contract!Grows
      \/ topic.parts = 0 \/ topic'.parts = 0
  <2>1. ASSUME NEW r \in late, LateArrives(r)
        PROVE  UNCHANGED topic \/ Contract!Grows \/ topic.parts = 0 \/ topic'.parts = 0
    BY <2>1, RequestMoves DEF LateArrives, WorldTyped
  <2>2. ASSUME NEW n \in Partitions, AdminExpands(n)
        PROVE  Contract!Grows
    <3>1. Exists /\ n > topic.parts /\ topic' = [topic EXCEPT !.parts = n]
      BY <2>2 DEF AdminExpands, TopicBecomes
    <3>2. topic'.parts = n /\ topic'.conf = topic.conf
      BY <3>1, TopicElim
    <3> QED
      BY <3>1, <3>2, TopicElim DEF Contract!Grows, Partitions
  <2>3. ASSUME NEW n \in Partitions, AdminCreates(n)
        PROVE  topic.parts = 0
    BY <2>3, TopicElim DEF AdminCreates, Exists
  <2>4. AdminDeletes => topic'.parts = 0
    BY DEF AdminDeletes, TopicBecomes, NoTopic
  <2>5. ASSUME NEW r \in late, LateDropped(r)
        PROVE  UNCHANGED topic
    BY <2>5 DEF LateDropped, brokerVars
  <2>6. MetadataConverges => UNCHANGED topic
    BY DEF MetadataConverges
  <2> QED
    BY <2>1, <2>2, <2>3, <2>4, <2>5, <2>6 DEF EnvironmentStep
<1>3. View(record)' = View(record)
  BY <1>1 DEF View
<1> QED
  BY <1>1, <1>2, <1>3 DEF Contract!Next, Contract!Others

(* A CreateTopics that is accepted is the contract's Create: the record    *)
(* reads as the settings the topic was made with.                          *)
LEMMA CreateRefines ==
  ASSUME TaskTyped, TaskOK, WorldTyped, BondInv,
         op = "create", step = "request",
         Accepted(Answer(Request)), Execute(Request), CreateRecords
  PROVE  Contract!Create
<1>1. /\ ~Exists /\ BondInv' /\ record' \in RecordValue
      /\ topic' = [parts |-> config.parts, conf |-> BuildConfig(CreatePlan(config))]
  BY CreateEnds
<1>2. record'.exists = TRUE /\ record'.parts = config.parts
      /\ "created" \in bond' /\ op' = "none"
  BY DEF CreateRecords, Recorded, Finish
<1>3. record'.set \in Settings
  <2>1. ~NoRecord.exists
    BY DEF NoRecord
  <2>2. record' \in [exists : {TRUE}, parts : Partitions, set : KnownSettings]
    BY <1>1, <1>2, <2>1 DEF RecordValue
  <2> QED
    BY <2>2, KnownElim
<1>4. AppliedConf(record'.set) = BuildConfig(record'.set)
  BY <1>1, <1>2, <1>3, AppliedAll DEF BondInv, BondOK
<1>5. BuildConfig(record'.set) = topic'.conf
  BY <1>1, <1>2 DEF BondInv, SettingsFaithful
<1>6. View(record)' = [exists |-> TRUE, parts |-> topic'.parts, conf |-> topic'.conf]
  BY <1>1, <1>2, <1>4, <1>5 DEF View
<1>7. topic.parts = 0
  BY <1>1, TopicElim DEF Exists
<1>8. topic'.parts > 0
  BY <1>1 DEF TaskOK, Config, Partitions
<1>9. View(record) = View(NoRecord)
  BY ViewOfNoRecord DEF TaskOK
<1> QED
  BY <1>2, <1>6, <1>7, <1>8, <1>9 DEF Contract!Create, Contract!Recorded

(* An in-place update records the settings that were there.                *)
LEMMA UpdateApplies ==
  ASSUME TaskTyped, TaskOK, WorldTyped, op = "update"
  PROVE  AppliedConf(UnknownAsNull(UpdatePlan(config))) = AppliedConf(record.set)
<1> DEFINE set == UnknownAsNull(UpdatePlan(config))
<1>1. config \in Config /\ PlanKind(config) = "update"
  BY DEF TaskOK
<1>2. ~RequiresReplace(config.set, UpdatePlan(config), record.set)
  BY <1>1 DEF PlanKind
<1>3. record.set \in KnownSettings /\ config.set \in Settings /\ Changed(config) \in BOOLEAN
      /\ UpdatePlan(config) \in Settings
  BY <1>1, RecordElim, UpdatePlanTyped DEF Config
<1>4. \A a \in Computed : set[a] = record.set[a]
  BY <1>2, <1>3, InPlaceKeeps DEF UpdatePlan
<1>5. \A a \in Attr \ Legacy : a \in Computed
  BY DEF Computed
<1>6. set \in Settings /\ record.set \in Settings
  BY <1>3, NullTyped, KnownElim
<1> HIDE DEF set
<1>7. AppliedConf(set) = AppliedConf(record.set)
  BY <1>4, <1>5, <1>6, AppliedSame
<1> QED
  BY <1>7 DEF set

(* An Update that ends well is the contract's Update: the settings a       *)
(* record amounts to do not change.                                        *)
LEMMA UpdateRefines ==
  ASSUME TaskTyped, TaskOK, WorldTyped,
         op = "update", step # "begin", Exists,
         topic'.parts >= topic.parts, topic'.conf = topic.conf,
         config.parts <= topic'.parts, NEW owed, UpdateRecords(owed)
  PROVE  Contract!Update
<1>1. record' = Recorded(config.parts, UnknownAsNull(UpdatePlan(config))) /\ op' = "none"
  BY DEF UpdateRecords, Finish
<1>2. View(record)' = [exists |-> TRUE, parts |-> config.parts, conf |-> AppliedConf(record.set)]
  BY <1>1, UpdateApplies DEF View, Recorded
<1>3. View(record) = [exists |-> TRUE, parts |-> record.parts, conf |-> AppliedConf(record.set)]
  BY RecordElim DEF View, TaskOK
<1>4. record.parts <= config.parts
  BY DEF TaskOK
<1>5. topic.parts > 0
  BY DEF Exists
<1> HIDE DEF View
<1> QED
  BY <1>1, <1>2, <1>3, <1>4, <1>5 DEF Contract!Update, Contract!Grows, Contract!Recorded

(* A Read that finds the topic is the contract's Read.                     *)
LEMMA ReadRefines ==
  ASSUME TaskTyped, TaskOK, WorldTyped, stale = {},
         NEW n \in Partitions, ReadFinds(n)
  PROVE  Contract!Read
<1>1. op \in {"read", "import"} /\ topic' = topic /\ n = topic.parts /\ op' = "none"
      /\ record' = [record EXCEPT !.exists = TRUE, !.parts = n]
  BY DEF ReadFinds, ReadRecords, Visible, Finish, brokerVars
<1>2. record' = [exists |-> TRUE, parts |-> n, set |-> record.set]
  BY <1>1 DEF WorldTyped, RecordValue, NoRecord
<1>3. View(record)' = [exists |-> TRUE, parts |-> topic.parts, conf |-> View(record).conf]
  BY <1>1, <1>2 DEF View
<1>4. topic.parts > 0
  BY <1>1 DEF Partitions
<1> QED
  BY <1>1, <1>3, <1>4 DEF Contract!Read, Contract!Recorded

(* A record dropped with no topic left is the contract's Drop.             *)
LEMMA DropRefines ==
  ASSUME record' = NoRecord, topic'.parts = 0,
         \/ op \in {"read", "delete"} /\ op' = "none"
         \/ op = "delete" /\ op' = "create"
  PROVE  Contract!Drop
<1>1. View(record)' = View(NoRecord)
  BY DEF View
<1> QED
  BY <1>1 DEF Contract!Drop

(* The steps, told apart by what they do to the record and the operation.  *)
LEMMA OtherSteps ==
  ASSUME [Next]_vars, ~OmittedResults
  PROVE  \/ CoreStep
         \/ /\ UNCHANGED <<record, topic>>
            /\ op' = op \/ (op # "none" /\ op' = "none")
         \/ ReplyLost
         \/ EnvironmentStep /\ ~Killed
         \/ \E n \in Partitions : ReadFinds(n) \/ UpdateFindsEnough(n)
         \/ ListingConfirms /\ record' = NoRecord
         \/ RequestSucceeds
         \/ op = "none" /\ ClientStep
<1>1. CASE CreateRejects \/ CreateSends \/ UpdateRejectsDecrease \/ UpdateReads
             \/ BackoffElapses \/ BackoffCancelled \/ Killed
  BY <1>1 DEF CreateRejects, CreateSends, UpdateRejectsDecrease, UpdateReads,
     BackoffElapses, BackoffCancelled, Killed, Finish, GoTo, ClientStep, brokerVars
<1>2. CASE MetadataFails \/ ControllerResolved \/ MetadataUnknown \/ ListingShows
             \/ RequestRefused \/ DeleteUnknown \/ RequestLost \/ RequestDelayed
  BY <1>2 DEF MetadataFails, ControllerResolved, MetadataUnknown, ListingShows,
     RequestRefused, DeleteUnknown, RequestLost, RequestDelayed,
     RequestFails, AttemptFails, Finish, GoTo, ClientStep, brokerVars
<1>3. ASSUME NEW n \in Partitions, UpdateFindsFewer(n)
      PROVE  UNCHANGED <<record, topic>> /\ op' = op
  BY <1>3 DEF UpdateFindsFewer, GoTo, brokerVars
<1>4. CASE ListingConfirms
  BY <1>4 DEF ListingConfirms, DeleteRecords, Finish, brokerVars
<1>5. CASE UNCHANGED vars
  BY <1>5 DEF vars, taskVars, brokerVars
<1> QED
  BY <1>1, <1>2, <1>3, <1>4, <1>5
     DEF Next, ClientStep, EnvironmentStep, ExpansionUnanswered

(* Every step of handler, client, broker and administrators is a step of   *)
(* the contract, or a stutter.                                             *)
THEOREM Implements ==
  ASSUME ~LaggingMetadata, ~OmittedResults
  PROVE  Spec => ImplementsContract
<1>1. Init => Contract!Init
  BY DEF Init, Contract!Init
<1>2. IInv /\ [Next]_vars => [Contract!Next]_(Contract!vars)
  <2> SUFFICES ASSUME IInv, [Next]_vars PROVE Contract!Next
    OBVIOUS
  <2>1. TaskTyped /\ TaskOK /\ WorldTyped /\ BondInv /\ stale = {}
    BY InvParts DEF BondInv, BondOK
  <2>2. CASE CoreStep
    BY <2>1, <2>2, BeginRefines DEF Contract!Next
  <2>3. CASE /\ UNCHANGED <<record, topic>>
             /\ op' = op \/ (op # "none" /\ op' = "none")
    BY <2>3, QuietRefines
  <2>4. CASE op = "none" /\ ClientStep
    <3>1. step = "idle"
      BY <2>1, <2>4 DEF TaskOK
    <3> QED
      BY <2>4, <3>1
         DEF ClientStep, CreateRejects, CreateSends, UpdateRejectsDecrease,
             UpdateReads, BackoffElapses, BackoffCancelled, MetadataFails,
             ControllerResolved, MetadataUnknown, ListingShows, ListingConfirms,
             RequestRefused, RequestSucceeds, DeleteUnknown, ReplyLost,
             RequestLost, RequestDelayed, ReadFinds, UpdateFindsEnough,
             UpdateFindsFewer, ExpansionUnanswered
  <2>5. ASSUME NEW n \in Partitions, ReadFinds(n)
        PROVE  Contract!Next
    BY <2>1, <2>5, ReadRefines DEF Contract!Next
  <2>6. ASSUME NEW n \in Partitions, UpdateFindsEnough(n)
        PROVE  Contract!Next
    <3>1. op = "update" /\ step # "begin" /\ topic' = topic /\ n = topic.parts
          /\ config.parts <= n /\ \E owed : UpdateRecords(owed)
      BY <2>1, <2>6 DEF UpdateFindsEnough, EnoughPartitions, Visible, brokerVars
    <3>2. Exists /\ topic'.parts >= topic.parts
      BY <3>1 DEF Exists, Partitions
    <3> QED
      BY <2>1, <3>1, <3>2, UpdateRefines DEF Contract!Next
  <2>7. CASE ListingConfirms /\ record' = NoRecord
    <3>1. topic'.parts = 0
      BY <2>1, <2>7 DEF ListingConfirms, AbsenceConfirmed, Visible, brokerVars
    <3>2. CASE op \in {"read", "delete"}
      BY <2>7, <3>1, <3>2, DropRefines DEF Contract!Next, ListingConfirms, DeleteRecords, Finish
    <3>3. CASE op \notin {"read", "delete"}
      BY <2>7, <3>3, QuietRefines DEF ListingConfirms, Finish, brokerVars
    <3> QED
      BY <3>2, <3>3
  <2>8. CASE RequestSucceeds
    <3>1. step = "request" /\ Accepted(Answer(Request)) /\ Execute(Request)
      BY <2>8 DEF RequestSucceeds
    <3>2. CASE op = "create" /\ CreateRecords
      BY <2>1, <3>1, <3>2, CreateRefines DEF Contract!Next
    <3>3. CASE op = "delete" /\ DeleteRecords
      <4>1. topic' = NoTopic
        BY <3>1, <3>3 DEF Accepted, Execute, TopicBecomes, Effect, Request
      <4>2. topic'.parts = 0 /\ record' = NoRecord /\ op' \in {"none", "create"}
        BY <3>3, <4>1 DEF NoTopic, DeleteRecords, Finish
      <4> QED
        BY <3>3, <4>2, DropRefines DEF Contract!Next
    <3>4. CASE op = "update" /\ UpdateRecords(bond \cup {"sized"})
      <4>1. Request \in RequestValue /\ config \in Config
        BY <2>1, <3>1, <3>4, RequestTyped DEF TaskOK
      <4>2. Request = [kind |-> "expand", parts |-> config.parts, conf |-> NoConf]
        BY <3>4 DEF Request
      <4>3. Exists /\ config.parts > topic.parts
        BY <2>1, <3>1, <4>1, <4>2, TopicElim DEF Accepted, Answer, Config, Partitions
      <4>4. topic' = [topic EXCEPT !.parts = config.parts]
        BY <3>1, <4>2 DEF Accepted, Execute, TopicBecomes, Effect
      <4>5. topic'.parts = config.parts /\ topic'.conf = topic.conf
        BY <2>1, <4>3, <4>4, TopicElim
      <4>6. topic'.parts >= topic.parts /\ config.parts <= topic'.parts
        BY <2>1, <4>1, <4>3, <4>5, TopicElim DEF Config, Partitions
      <4>7. Contract!Update
        BY <2>1, <3>1, <3>4, <4>3, <4>5, <4>6, UpdateRefines
      <4> QED
        BY <4>7 DEF Contract!Next
    <3> QED
      BY <2>8, <3>2, <3>3, <3>4 DEF RequestSucceeds
  <2> QED
    BY <2>1, <2>2, <2>3, <2>4, <2>5, <2>6, <2>7, <2>8, OtherSteps,
       ReplyLostRefines, EnvironmentRefines
<1> QED
  BY <1>1, <1>2, Invariance, PTL DEF Spec, ImplementsContract, Contract!Spec
============================================================================
