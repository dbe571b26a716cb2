---------------------------- MODULE TopicProofs ----------------------------
(***************************************************************************)
(* What holds of Topic for every value of its constants.                   *)
(***************************************************************************)
EXTENDS Topic, TopicSettingsProofs

USE SettingsAssumption, TopicAssumption

(* The three parts of IInv about the record and the topic it describes.    *)
BondInv == BondOK /\ SettingsFaithful /\ PartitionsNotOverstated

(* The two parts of TypeOK: the running operation, and the rest.           *)
TaskTyped ==
  /\ op \in Ops
  /\ step \in Steps
  /\ attempt \in 0..(MaxRetries - 1)
  /\ config \in {NoConfig} \cup Config
  /\ replacing \in BOOLEAN
  /\ last \in [op : Ops, result : {"none", "ok", "failed", "invalid"}]

WorldTyped ==
  /\ topic \in TopicValue
  /\ stale \in SUBSET (0..MaxPartitions)
  /\ late \in SUBSET RequestValue
  /\ record \in RecordValue
  /\ bond \in SUBSET {"created", "sized"}

(* TypeOK falls into the part about the running operation and the part     *)
(* about broker, network and record.                                       *)
LEMMA TypeParts == TypeOK <=> TaskTyped /\ WorldTyped
BY DEF TypeOK, TaskTyped, WorldTyped

----------------------------------------------------------------------------
(* Operations that begin, go on and end.                                   *)

(* Whatever handler ends, the idle state it leaves behind is a good one.   *)
LEMMA FinishTask ==
  ASSUME TaskTyped, NEW result \in {"ok", "failed", "invalid"}, Finish(result)
  PROVE  TaskTyped' /\ TaskOK'
<1>1. TaskTyped'
  <2>1. config' \in {NoConfig} \cup Config
    BY DEF TaskTyped, Finish
  <2>2. 0 \in 0..(MaxRetries - 1)
    OBVIOUS
  <2>3. last' \in [op : Ops, result : {"none", "ok", "failed", "invalid"}]
    BY DEF TaskTyped, Finish
  <2> QED
    BY <2>1, <2>2, <2>3 DEF TaskTyped, Finish, Ops, Steps
<1>2. TaskOK'
  BY DEF TaskOK, Finish
<1> QED
  BY <1>1, <1>2

(* Moving a handler to another step keeps its types.                       *)
LEMMA GoToTyped ==
  ASSUME TaskTyped, NEW s \in Steps, GoTo(s)
  PROVE  TaskTyped'
BY DEF TaskTyped, GoTo

(* As long as record and configuration stay, the plan stays.               *)
LEMMA PlanStable ==
  ASSUME UNCHANGED <<record, config>>
  PROVE  PlanKind(config)' = PlanKind(config)
BY DEF PlanKind, UpdatePlan, Changed

(* A configuration Create may send stays one while it is not replaced.     *)
LEMMA CreatePlanStable ==
  ASSUME UNCHANGED config
  PROVE  (Rejected(config.set, CreatePlan(config)))' <=> Rejected(config.set, CreatePlan(config))
BY DEF CreatePlan

(* A handler that goes on keeps what it knows, if it may be at s.          *)
LEMMA GoToTask ==
  ASSUME TaskOK, UNCHANGED record, NEW s \in Steps, GoTo(s),
         op # "none", s # "idle",
         op = "update" => s \in {"begin", "metadata", "listing", "request", "backoff"},
         (op = "update" /\ s # "begin") => record.parts <= config.parts,
         op = "create" => s \in {"begin", "controller", "request", "backoff"},
         (op = "create" /\ s # "begin") => ~Rejected(config.set, CreatePlan(config)),
         op \in {"read", "import"} => s \in {"metadata", "listing", "backoff"},
         s = "backoff" => attempt + 1 < MaxRetries,
         op = "delete" => s \in {"controller", "request", "listing", "backoff"},
         op \in Ops
  PROVE  TaskOK'
<1>1. UNCHANGED <<op, attempt, config, replacing, record>> /\ step' = s
  BY DEF GoTo
<1>2. PlanKind(config)' = PlanKind(config)
  BY <1>1, PlanStable
<1>3. (Rejected(config.set, CreatePlan(config)))' <=> Rejected(config.set, CreatePlan(config))
  BY <1>1, CreatePlanStable
<1> QED
  BY <1>1, <1>2, <1>3 DEF TaskOK, Ops

(* withRetry after a failed attempt: either there is an attempt left, and  *)
(* the bound on attempts holds, or the operation has ended.                *)
LEMMA FailTask ==
  ASSUME TaskTyped, TaskOK, UNCHANGED record, AttemptFails,
         op # "none", step # "begin"
  PROVE  TaskTyped' /\ TaskOK'
<1>1. CASE Finish("failed")
  BY <1>1, FinishTask
<1>2. CASE MoreAttempts /\ GoTo("backoff")
  <2>1. TaskTyped'
    BY <1>2, GoToTyped DEF Steps
  <2>2. attempt + 1 < MaxRetries
    BY <1>2 DEF TaskTyped, MoreAttempts
  <2>3. TaskOK'
    BY <1>2, <2>2, GoToTask DEF TaskOK, TaskTyped, Steps
  <2> QED
    BY <2>1, <2>3
<1> QED
  BY <1>1, <1>2 DEF AttemptFails

(* An operation that Terraform core begins knows what it is meant to know. *)
LEMMA BeginTask ==
  ASSUME TaskTyped, UNCHANGED record,
         NEW o \in Ops, NEW s \in Steps, NEW c \in Config,
         NEW r \in BOOLEAN, Begin(o, s, c, r), WhollyKnown(c.set),
         \/ o = "create" /\ s = "begin" /\ ~record.exists /\ ~r
         \/ o = "update" /\ s = "begin" /\ record.exists /\ ~r /\ PlanKind(c) = "update"
         \/ o = "delete" /\ s = "controller" /\ record.exists
  PROVE  TaskTyped' /\ TaskOK'
<1>1. TaskTyped'
  BY DEF TaskTyped, Begin, Ops, NoResult
<1>2. op' = o /\ step' = s /\ config' = c /\ replacing' = r /\ record' = record
  BY DEF Begin
<1>3. o = "update" => PlanKind(config)' = PlanKind(c)
  BY <1>2 DEF PlanKind, UpdatePlan, Changed
<1>4. TaskOK'
  BY <1>2, <1>3 DEF TaskOK
<1> QED
  BY <1>1, <1>4

(* Operations without a configuration.                                     *)
LEMMA BeginPlain ==
  ASSUME TaskTyped, UNCHANGED record,
         NEW o \in Ops, NEW s \in Steps,
         op' = o, step' = s, attempt' = 0, config' = NoConfig,
         replacing' = FALSE, last' = NoResult,
         \/ o = "delete" /\ s = "controller" /\ record.exists
         \/ o = "read" /\ s = "metadata" /\ record.exists
         \/ o = "import" /\ s = "metadata" /\ ~record.exists
  PROVE  TaskTyped' /\ TaskOK'
<1>1. 0 \in 0..(MaxRetries - 1)
  OBVIOUS
<1>2. NoResult \in [op : Ops, result : {"none", "ok", "failed", "invalid"}]
  BY DEF NoResult, Ops
<1>3. TaskTyped'
  BY <1>1, <1>2 DEF TaskTyped
<1>4. TaskOK'
  BY DEF TaskOK
<1> QED
  BY <1>3, <1>4

----------------------------------------------------------------------------
(* The broker.                                                             *)

(* What a typed record gives: settings that are known, and partitions as   *)
(* soon as it exists.                                                      *)
LEMMA RecordElim ==
  ASSUME WorldTyped
  PROVE  /\ record.exists \in BOOLEAN
         /\ record.set \in KnownSettings
         /\ record.parts \in 0..MaxPartitions
         /\ record.exists => record.parts \in Partitions
         /\ ~record.exists => record = NoRecord
<1>1. CASE record = NoRecord
  <2>1. record.exists = FALSE /\ record.parts = 0 /\ record.set = NoSettings
    BY <1>1 DEF NoRecord
  <2>2. 0 \in 0..MaxPartitions
    OBVIOUS
  <2> QED
    BY <1>1, <2>1, <2>2, NoSettingsKnown
<1>2. CASE record \in [exists : {TRUE}, parts : Partitions, set : KnownSettings]
  <2>1. record.exists = TRUE /\ record.parts \in Partitions /\ record.set \in KnownSettings
    BY <1>2
  <2>2. \A n \in Partitions : n \in 0..MaxPartitions
    BY DEF Partitions
  <2> QED
    BY <2>1, <2>2
<1> QED
  BY <1>1, <1>2 DEF WorldTyped, RecordValue

(* What a typed topic gives: it exists exactly if it has partitions.       *)
LEMMA TopicElim ==
  ASSUME WorldTyped
  PROVE  /\ topic.parts \in 0..MaxPartitions
         /\ Exists <=> topic.parts \in Partitions
         /\ Exists <=> topic \in [parts : Partitions, conf : BrokerConf]
         /\ ~Exists => topic = NoTopic
BY DEF WorldTyped, TopicValue, NoTopic, Partitions, Exists

(* A change of the topic keeps the types of what brokers may report.       *)
LEMMA BecomesTyped ==
  ASSUME WorldTyped, NEW t \in TopicValue, TopicBecomes(t)
  PROVE  topic' \in TopicValue /\ stale' \in SUBSET (0..MaxPartitions)
BY TopicElim DEF WorldTyped, TopicBecomes

(* A request that is executed leaves a topic; only an expansion leaves the *)
(* same topic, and then a bigger one.                                      *)
LEMMA ExecuteTyped ==
  ASSUME WorldTyped, NEW r \in RequestValue, Execute(r)
  PROVE  /\ topic' \in TopicValue
         /\ stale' \in SUBSET (0..MaxPartitions)
         /\ ~LaggingMetadata => stale' \in {{}, stale}
         /\ BondAfter(r) \in {{}, bond}
         /\ BondAfter(r) # {} /\ Exists =>
              topic'.parts >= topic.parts /\ topic'.conf = topic.conf
<1>1. CASE Answer(r) # "ok"
  <2>1. topic' = topic /\ stale' = stale
    BY <1>1 DEF Execute, brokerVars
  <2>2. BondAfter(r) = bond
    BY <1>1 DEF BondAfter
  <2>3. topic.parts >= topic.parts
    BY TopicElim
  <2> QED
    BY <2>1, <2>2, <2>3 DEF WorldTyped
<1>2. CASE Answer(r) = "ok"
  <2>1. Effect(r) \in TopicValue
    <3>1. CASE r.kind = "create"
      BY <3>1 DEF Effect, RequestValue, TopicValue
    <3>2. CASE r.kind = "delete"
      BY <3>2 DEF Effect, TopicValue
    <3>3. CASE r.kind = "expand"
      <4>1. Exists
        BY <1>2, <3>3 DEF Answer
      <4> QED
        BY <3>3, <4>1, TopicElim DEF Effect, RequestValue, TopicValue
    <3> QED
      BY <3>1, <3>2, <3>3 DEF RequestValue
  <2>2. topic' = Effect(r) /\ (~LaggingMetadata => stale' = {})
    BY <1>2 DEF Execute, TopicBecomes
  <2>3. topic' \in TopicValue /\ stale' \in SUBSET (0..MaxPartitions)
    BY <1>2, <2>1, BecomesTyped DEF Execute
  <2>4. CASE r.kind = "expand"
    <3>1. Exists /\ r.parts > topic.parts
      BY <1>2, <2>4, TopicElim DEF Answer, RequestValue, Partitions
    <3>2. topic' = [topic EXCEPT !.parts = r.parts]
      BY <2>2, <2>4 DEF Effect
    <3>3. topic'.parts = r.parts /\ topic'.conf = topic.conf
      BY <3>1, <3>2, TopicElim
    <3> QED
      BY <2>2, <2>3, <3>1, <3>3, TopicElim DEF BondAfter, RequestValue, Partitions
  <2>5. CASE r.kind # "expand"
    BY <1>2, <2>2, <2>3, <2>5 DEF BondAfter
  <2> QED
    BY <2>4, <2>5
<1> QED
  BY <1>1, <1>2

(* While the record stays, an executed request keeps the bond true.        *)
LEMMA ExecuteBond ==
  ASSUME WorldTyped, BondInv, NEW r \in RequestValue, Execute(r),
         bond' = BondAfter(r), UNCHANGED record
  PROVE  BondInv' /\ bond' \in SUBSET {"created", "sized"}
<1>1. bond' \in {{}, bond} /\ (~LaggingMetadata => stale' = {})
  BY ExecuteTyped DEF BondInv, BondOK
<1>2. CASE bond' = {}
  BY <1>1, <1>2 DEF BondInv, BondOK, SettingsFaithful, PartitionsNotOverstated
<1>3. CASE bond' # {}
  <2>1. bond' = bond /\ Exists /\ record.exists
    BY <1>1, <1>3 DEF BondInv, BondOK
  <2>2. topic'.parts >= topic.parts /\ topic'.conf = topic.conf
    BY <1>3, <2>1, ExecuteTyped
  <2>3. topic'.parts \in 0..MaxPartitions
    BY ExecuteTyped DEF TopicValue, NoTopic, Partitions
  <2>4. Exists'
    BY <2>1, <2>2, <2>3, TopicElim DEF Exists, Partitions
  <2>5. PartitionsNotOverstated'
    BY <2>1, <2>2, <2>3, TopicElim, RecordElim
       DEF BondInv, PartitionsNotOverstated, Partitions
  <2>6. SettingsFaithful'
    BY <2>1, <2>2 DEF BondInv, SettingsFaithful
  <2>7. BondOK'
    BY <1>1, <2>1, <2>4 DEF BondInv, BondOK
  <2> QED
    BY <2>1, <2>5, <2>6, <2>7 DEF BondInv, WorldTyped
<1> QED
  BY <1>2, <1>3 DEF WorldTyped

----------------------------------------------------------------------------
(* Plans and requests.                                                     *)

(* The plan of a creation is a settings function.                          *)
LEMMA CreatePlanTyped ==
  ASSUME NEW c \in Config
  PROVE  CreatePlan(c) \in Settings
BY PlanTyped, NoSettingsKnown DEF CreatePlan, Config

(* The plan of an update is a settings function.                           *)
LEMMA UpdatePlanTyped ==
  ASSUME WorldTyped, NEW c \in Config
  PROVE  UpdatePlan(c) \in Settings /\ Changed(c) \in BOOLEAN
<1>1. Changed(c) \in BOOLEAN
  BY DEF Changed
<1> QED
  BY <1>1, PlanTyped, RecordElim DEF UpdatePlan, Config

(* A topic made without settings is one the broker may hold.               *)
LEMMA NoConfTyped == NoConf \in BrokerConf
<1>1. NoConf \in [{} -> Value]
  BY DEF NoConf
<1> QED
  BY <1>1 DEF BrokerConf

(* A handler about to send a request has a well-formed one.                *)
LEMMA RequestTyped ==
  ASSUME TaskTyped, TaskOK, step = "request"
  PROVE  Request \in RequestValue
<1>1. CASE op = "create"
  <2>1. config \in Config
    BY <1>1 DEF TaskOK
  <2>2. BuildConfig(CreatePlan(config)) \in BrokerConf
    BY <2>1, CreatePlanTyped, BuildTyped
  <2> QED
    BY <1>1, <2>1, <2>2 DEF Request, RequestValue, Config
<1>2. CASE op = "delete"
  BY <1>2 DEF Request, RequestValue
<1>3. CASE op = "update"
  <2>1. config \in Config
    BY <1>3 DEF TaskOK
  <2> QED
    BY <1>3, <2>1, NoConfTyped DEF Request, RequestValue, Config
<1> QED
  BY <1>1, <1>2, <1>3 DEF TaskOK

(* An in-place update of a record without legacy settings records the      *)
(* settings it found.                                                      *)
LEMMA UpdateKeepsSettings ==
  ASSUME WorldTyped, TaskOK, op = "update",
         \A a \in Legacy : record.set[a] = Null
  PROVE  UnknownAsNull(UpdatePlan(config)) = record.set
<1> DEFINE plan == UpdatePlan(config)
<1>1. config \in Config /\ PlanKind(config) = "update"
  BY DEF TaskOK
<1>2. ~RequiresReplace(config.set, plan, record.set)
  BY <1>1 DEF PlanKind
<1>3. record.set \in KnownSettings /\ config.set \in Settings /\ Changed(config) \in BOOLEAN
  BY <1>1, RecordElim, UpdatePlanTyped DEF Config
<1>4. \A a \in Computed : UnknownAsNull(plan)[a] = record.set[a]
  BY <1>2, <1>3, InPlaceKeeps DEF UpdatePlan
<1>5. \A a \in Attr \ Computed : UnknownAsNull(plan)[a] = record.set[a]
  <2> SUFFICES ASSUME NEW a \in Attr \ Computed
               PROVE  UnknownAsNull(plan)[a] = record.set[a]
    OBVIOUS
  <2>1. record.set[a] = Null
    BY DEF Computed
  <2>2. CASE config.set[a] # Null
    BY <1>2, <2>1, <2>2 DEF RequiresReplace, UnknownAsNull
  <2>3. CASE config.set[a] = Null
    <3>1. plan[a] = Null
      BY <2>3 DEF UpdatePlan, PlanSettings, UseStateForUnknown, MarkUnknown, Proposed
    <3> QED
      BY <2>1, <3>1 DEF UnknownAsNull
  <2> QED
    BY <2>2, <2>3
<1>6. record.set \in [Attr -> Value \cup MapValue \cup Absent]
  BY <1>3, KnownElim, SettingsElim
<1>7. UnknownAsNull(plan) = [a \in Attr |-> UnknownAsNull(plan)[a]]
  BY DEF UnknownAsNull
<1>8. \A a \in Attr : UnknownAsNull(plan)[a] = record.set[a]
  BY <1>4, <1>5
<1> QED
  BY <1>6, <1>7, <1>8

----------------------------------------------------------------------------
(* The ends of the handlers.                                               *)

(* Create's request was accepted.                                          *)
LEMMA CreateEnds ==
  ASSUME WorldTyped, TaskTyped, TaskOK, BondInv,
         op = "create", step = "request",
         Accepted(Answer(Request)), Execute(Request), CreateRecords
  PROVE  /\ ~Exists
         /\ topic' = [parts |-> config.parts, conf |-> BuildConfig(CreatePlan(config))]
         /\ record' \in RecordValue
         /\ bond' \in SUBSET {"created", "sized"}
         /\ BondInv'
         /\ TaskTyped' /\ TaskOK'
<1> DEFINE plan == CreatePlan(config)
           set  == UnknownAsNull(ClearUnknown(plan))
<1>1. config \in Config /\ plan \in Settings /\ ~Unsupported(plan)
  BY CreatePlanTyped DEF TaskOK, Rejected
<1>2. Request.kind = "create" /\ Request.parts = config.parts
      /\ Request.conf = BuildConfig(plan)
  BY DEF Request
<1>3. ~Exists /\ Answer(Request) = "ok"
  BY <1>2 DEF Accepted, Answer
<1>4. topic' = [parts |-> config.parts, conf |-> BuildConfig(plan)]
      /\ (~LaggingMetadata => stale' = {})
  BY <1>2, <1>3 DEF Execute, TopicBecomes, Effect
<1>5. ClearUnknown(plan) \in Settings /\ set \in KnownSettings
  BY <1>1, ClearTyped, NullTyped
<1>6. BuildConfig(set) = BuildConfig(plan)
  BY <1>1, <1>5, BuildUnknownAsNull, BuildClearUnknown
<1>7. record' = [exists |-> TRUE, parts |-> config.parts, set |-> set]
      /\ bond' = {"created", "sized"}
  BY DEF CreateRecords, Recorded
<1>8. record' \in RecordValue
  BY <1>1, <1>5, <1>7 DEF RecordValue, Config
<1>9. \A a \in Legacy : set[a] = Null
  <2>1. \A a \in Legacy : a \in Attr /\ plan[a] \in Absent
    BY <1>1 DEF Unsupported, Attr
  <2> QED
    BY <2>1 DEF UnknownAsNull, ClearUnknown, Absent
<1>10. config.parts \in Nat /\ config.parts > 0
  BY <1>1 DEF Config, Partitions
<1>11. BondInv'
  BY <1>4, <1>6, <1>7, <1>9, <1>10
     DEF BondInv, BondOK, SettingsFaithful, PartitionsNotOverstated, Exists
<1>12. TaskTyped' /\ TaskOK'
  BY FinishTask DEF CreateRecords
<1> QED
  BY <1>3, <1>4, <1>7, <1>8, <1>11, <1>12

(* Update ends well, owing the topic no more than it should.               *)
LEMMA UpdateEnds ==
  ASSUME WorldTyped, TaskTyped, TaskOK, BondInv,
         op = "update", step # "begin",
         NEW owed \in SUBSET (bond \cup {"sized"}),
         "sized" \in owed => config.parts <= topic'.parts,
         owed # {} => Exists' /\ topic'.conf = topic.conf,
         ~LaggingMetadata => stale' = {},
         UpdateRecords(owed)
  PROVE  /\ record' \in RecordValue
         /\ bond' \in SUBSET {"created", "sized"}
         /\ BondInv'
         /\ TaskTyped' /\ TaskOK'
<1> DEFINE set == UnknownAsNull(UpdatePlan(config))
<1>1. config \in Config /\ set \in KnownSettings
  BY UpdatePlanTyped, NullTyped DEF TaskOK
<1>2. record' = [exists |-> TRUE, parts |-> config.parts, set |-> set] /\ bond' = owed
  BY DEF UpdateRecords, Recorded
<1>3. record' \in RecordValue
  BY <1>1, <1>2 DEF RecordValue, Config
<1>4. bond' \in SUBSET {"created", "sized"}
  BY <1>2 DEF WorldTyped
<1>5. record'.exists /\ record'.parts = config.parts /\ record'.set = set
  BY <1>2
<1>6. PartitionsNotOverstated'
  BY <1>2, <1>5 DEF PartitionsNotOverstated
<1>7. ASSUME "created" \in owed
      PROVE  /\ set = record.set
             /\ \A a \in Legacy : record.set[a] = Null
             /\ BuildConfig(record.set) = topic.conf
             /\ topic'.conf = topic.conf
  <2>1. "created" \in bond
    BY <1>7
  <2>2. \A a \in Legacy : record.set[a] = Null
    BY <2>1 DEF BondInv, BondOK
  <2> QED
    BY <1>7, <2>1, <2>2, UpdateKeepsSettings DEF BondInv, SettingsFaithful
<1> HIDE DEF set
<1>8. SettingsFaithful'
  <2>1. CASE "created" \in owed
    BY <1>2, <1>5, <1>7, <2>1 DEF SettingsFaithful
  <2>2. CASE "created" \notin owed
    BY <1>2, <2>2 DEF SettingsFaithful
  <2> QED
    BY <2>1, <2>2
<1>9. BondOK'
  <2>1. CASE "created" \in owed
    BY <1>2, <1>5, <1>7, <2>1 DEF BondOK
  <2>2. CASE "created" \notin owed
    BY <1>2, <1>5, <2>2 DEF BondOK
  <2> QED
    BY <2>1, <2>2
<1>10. TaskTyped' /\ TaskOK'
  BY FinishTask DEF UpdateRecords
<1> QED
  BY <1>3, <1>4, <1>6, <1>8, <1>9, <1>10 DEF BondInv

(* A read found n partitions.                                              *)
LEMMA ReadEnds ==
  ASSUME WorldTyped, TaskTyped, TaskOK, BondInv,
         op \in {"read", "import"}, NEW n \in Partitions,
         ReadRecords(n, Sized(n)), UNCHANGED brokerVars
  PROVE  /\ record' \in RecordValue
         /\ bond' \in SUBSET {"created", "sized"}
         /\ BondInv'
         /\ TaskTyped' /\ TaskOK'
<1>1. record' = [record EXCEPT !.exists = TRUE, !.parts = n] /\ bond' = Sized(n)
  BY DEF ReadRecords
<1>2. topic' = topic /\ stale' = stale
  BY DEF brokerVars
<1>3. record.set \in KnownSettings
  BY RecordElim
<1>4. record' = [exists |-> TRUE, parts |-> n, set |-> record.set]
  BY <1>1 DEF WorldTyped, RecordValue, NoRecord
<1>5. record' \in RecordValue
  BY <1>3, <1>4 DEF RecordValue
<1>6. bond' \in SUBSET {"created", "sized"}
  BY <1>1 DEF Sized, WorldTyped
<1>7. record'.exists /\ record'.parts = n /\ record'.set = record.set
  BY <1>4
<1>8. "sized" \in bond' => topic.parts = n
  BY <1>1 DEF Sized
<1>9. "created" \in bond' => "created" \in bond
  BY <1>1 DEF Sized
<1>10. bond' # {} => Exists
  <2>1. CASE n = topic.parts
    BY <2>1, TopicElim
  <2>2. CASE n # topic.parts
    BY <1>1, <2>2 DEF Sized, BondInv, BondOK
  <2> QED
    BY <2>1, <2>2
<1>11. SettingsFaithful'
  BY <1>2, <1>7, <1>9 DEF BondInv, SettingsFaithful
<1>12. PartitionsNotOverstated'
  BY <1>2, <1>7, <1>8 DEF PartitionsNotOverstated, Partitions
<1>13. BondOK'
  BY <1>2, <1>7, <1>9, <1>10 DEF BondInv, BondOK, Exists
<1>14. TaskTyped' /\ TaskOK'
  BY FinishTask DEF ReadRecords
<1> QED
  BY <1>5, <1>6, <1>11, <1>12, <1>13, <1>14 DEF BondInv

(* Without a record nothing is owed to the topic.                          *)
LEMMA NothingOwed ==
  ASSUME bond' = {}, ~LaggingMetadata => stale' = {}
  PROVE  BondInv'
BY DEF BondInv, BondOK, SettingsFaithful, PartitionsNotOverstated

(* A delete succeeded; a replacement goes on to create.                    *)
LEMMA DeleteEnds ==
  ASSUME TaskTyped, TaskOK, op = "delete", DeleteRecords
  PROVE  /\ record' = NoRecord /\ record' \in RecordValue
         /\ bond' = {}
         /\ TaskTyped' /\ TaskOK'
<1>1. record' = NoRecord /\ bond' = {}
  BY DEF DeleteRecords
<1>2. record' \in RecordValue
  BY <1>1 DEF RecordValue
<1>3. CASE Finish("ok")
  BY <1>1, <1>2, <1>3, FinishTask
<1>4. CASE ~Finish("ok")
  <2>1. /\ replacing
        /\ op' = "create" /\ step' = "begin" /\ attempt' = 0
        /\ replacing' = FALSE /\ config' = config /\ last' = last
    BY <1>4 DEF DeleteRecords
  <2>2. TaskTyped'
    <3>1. 0 \in 0..(MaxRetries - 1)
      OBVIOUS
    <3> QED
      BY <2>1, <3>1 DEF TaskTyped, Ops, Steps
  <2>3. TaskOK'
    BY <1>1, <2>1 DEF TaskOK, NoRecord
  <2> QED
    BY <1>1, <1>2, <2>2, <2>3
<1> QED
  BY <1>3, <1>4

----------------------------------------------------------------------------
(* IInv is inductive.                                                      *)

(* The inductive invariant in the four parts the steps are checked for.    *)
LEMMA InvParts == IInv <=> TaskTyped /\ TaskOK /\ WorldTyped /\ BondInv
BY TypeParts DEF IInv, BondInv

(* The same for the next state: four parts make the invariant.             *)
LEMMA InvNext ==
  ASSUME TaskTyped', TaskOK', WorldTyped', BondInv'
  PROVE  IInv'
BY DEF IInv, BondInv, TypeOK, TaskTyped, WorldTyped

(* Steps that only move the handler.                                       *)
LEMMA StillWorld ==
  ASSUME WorldTyped, BondInv, UNCHANGED <<brokerVars, late, record, bond>>
  PROVE  WorldTyped' /\ BondInv'
BY DEF WorldTyped, BondInv, BondOK, SettingsFaithful, PartitionsNotOverstated,
       Exists, brokerVars

(* Steps that leave handler and record alone.                              *)
LEMMA StillTask ==
  ASSUME TaskTyped, TaskOK, UNCHANGED <<record, taskVars>>
  PROVE  TaskTyped' /\ TaskOK'
<1>1. UNCHANGED <<op, step, attempt, config, replacing, last, record>>
  BY DEF taskVars
<1>2. TaskTyped'
  BY <1>1 DEF TaskTyped
<1>3. PlanKind(config)' = PlanKind(config)
  BY <1>1, PlanStable
<1>4. (Rejected(config.set, CreatePlan(config)))' <=> Rejected(config.set, CreatePlan(config))
  BY <1>1, CreatePlanStable
<1>5. TaskOK'
  BY <1>1, <1>3, <1>4 DEF TaskOK
<1> QED
  BY <1>2, <1>5

(* Terraform core starts operations only with what IInv allows.            *)
LEMMA ResolutionKnown ==
  ASSUME NEW c \in Configs, NEW r \in Resolutions(c)
  PROVE  r \in Config /\ WhollyKnown(r.set)
BY DEF Resolutions

(* Whatever operation Terraform core begins, the invariant is kept.        *)
LEMMA CoreKeeps == IInv /\ CoreStep => IInv'
<1> SUFFICES ASSUME TaskTyped, TaskOK, WorldTyped, BondInv, CoreStep
             PROVE  IInv'
  BY InvParts
<1>1. UNCHANGED <<brokerVars, late, record, bond>>
  BY DEF CoreStep, StartCreate, StartUpdate, StartReplace, StartDestroy,
         StartRefresh, StartImport
<1>2. WorldTyped' /\ BondInv'
  BY <1>1, StillWorld
<1>3. ASSUME NEW c \in Configs, StartCreate(c)
      PROVE  TaskTyped' /\ TaskOK'
  <2>1. PICK r \in Resolutions(c) : Begin("create", "begin", r, FALSE)
    BY <1>3 DEF StartCreate
  <2>2. r \in Config /\ WhollyKnown(r.set)
    BY ResolutionKnown
  <2>3. ~record.exists
    BY <1>3 DEF StartCreate, PlanKind
  <2> QED
    BY <1>1, <2>1, <2>2, <2>3, BeginTask DEF Ops, Steps
<1>4. ASSUME NEW c \in Configs, StartUpdate(c)
      PROVE  TaskTyped' /\ TaskOK'
  <2>1. c \in Config /\ WhollyKnown(c.set) /\ PlanKind(c) = "update"
    BY <1>4 DEF StartUpdate
  <2>2. record.exists
    BY <2>1 DEF PlanKind
  <2> QED
    BY <1>1, <1>4, <2>1, <2>2, BeginTask DEF StartUpdate, Ops, Steps
<1>5. ASSUME NEW c \in Configs, StartReplace(c)
      PROVE  TaskTyped' /\ TaskOK'
  <2>1. PICK r \in Resolutions(c) : Begin("delete", "controller", r, TRUE)
    BY <1>5 DEF StartReplace
  <2>2. r \in Config /\ WhollyKnown(r.set)
    BY ResolutionKnown
  <2>3. record.exists
    BY <1>5 DEF StartReplace, PlanKind
  <2> QED
    BY <1>1, <2>1, <2>2, <2>3, BeginTask DEF Ops, Steps
<1>6. CASE StartDestroy
  <2>1. record.exists /\ op' = "delete" /\ step' = "controller" /\ attempt' = 0
        /\ config' = NoConfig /\ replacing' = FALSE /\ last' = NoResult
    BY <1>6 DEF StartDestroy, Begin
  <2>2. "delete" \in Ops /\ "controller" \in Steps
    BY DEF Ops, Steps
  <2> QED
    BY <1>1, <1>2, <2>1, <2>2, BeginPlain, InvNext
<1>7. CASE StartRefresh
  <2>1. record.exists /\ op' = "read" /\ step' = "metadata" /\ attempt' = 0
        /\ config' = NoConfig /\ replacing' = FALSE /\ last' = NoResult
    BY <1>7 DEF StartRefresh, Begin
  <2>2. "read" \in Ops /\ "metadata" \in Steps
    BY DEF Ops, Steps
  <2> QED
    BY <1>1, <1>2, <2>1, <2>2, BeginPlain, InvNext
<1>8. CASE StartImport
  <2>1. ~record.exists /\ op' = "import" /\ step' = "metadata" /\ attempt' = 0
        /\ config' = NoConfig /\ replacing' = FALSE /\ last' = NoResult
    BY <1>8 DEF StartImport, Begin
  <2>2. "import" \in Ops /\ "metadata" \in Steps
    BY DEF Ops, Steps
  <2> QED
    BY <1>1, <1>2, <2>1, <2>2, BeginPlain, InvNext
<1> QED
  BY <1>2, <1>3, <1>4, <1>5, <1>6, <1>7, <1>8, InvNext DEF CoreStep

(* The environment: it never writes the record.                            *)
LEMMA EnvironmentKeeps == IInv /\ EnvironmentStep => IInv'
<1> SUFFICES ASSUME TaskTyped, TaskOK, WorldTyped, BondInv, EnvironmentStep
             PROVE  IInv'
  BY InvParts
<1>1. CASE Killed
  <2>1. UNCHANGED <<brokerVars, late, record, bond>> /\ Finish("failed")
    BY <1>1 DEF Killed
  <2> QED
    BY <2>1, StillWorld, FinishTask, InvNext
<1>2. ASSUME NEW r \in late, LateArrives(r)
      PROVE  IInv'
  <2>1. r \in RequestValue /\ late' \in SUBSET RequestValue
    BY <1>2 DEF LateArrives, WorldTyped
  <2>2. Execute(r) /\ bond' = BondAfter(r) /\ UNCHANGED <<record, taskVars>>
    BY <1>2 DEF LateArrives
  <2>3. topic' \in TopicValue /\ stale' \in SUBSET (0..MaxPartitions)
    BY <2>1, <2>2, ExecuteTyped
  <2>4. BondInv' /\ bond' \in SUBSET {"created", "sized"}
    BY <2>1, <2>2, ExecuteBond
  <2>5. WorldTyped'
    BY <2>1, <2>2, <2>3, <2>4 DEF WorldTyped
  <2> QED
    BY <2>2, <2>4, <2>5, StillTask, InvNext
<1>3. ASSUME NEW r \in late, LateDropped(r)
      PROVE  IInv'
  <2>1. late' \in SUBSET RequestValue /\ UNCHANGED <<topic, stale, record, bond, taskVars>>
    BY <1>3 DEF LateDropped, WorldTyped, brokerVars
  <2>2. WorldTyped'
    BY <2>1 DEF WorldTyped
  <2>3. BondInv'
    BY <2>1 DEF BondInv, BondOK, SettingsFaithful, PartitionsNotOverstated, Exists
  <2> QED
    BY <2>1, <2>2, <2>3, StillTask, InvNext
<1>4. ASSUME NEW t \in {NoTopic} \cup [parts : Partitions, conf : {NoConf}],
             TopicBecomes(t), bond' = {}, UNCHANGED <<late, record, taskVars>>
      PROVE  IInv'
  <2>1. NoConf \in BrokerConf
    BY NoConfTyped
  <2>2. t \in TopicValue
    BY <2>1 DEF TopicValue
  <2>3. topic' \in TopicValue /\ stale' \in SUBSET (0..MaxPartitions)
    BY <1>4, <2>2, BecomesTyped
  <2>4. WorldTyped'
    BY <1>4, <2>3 DEF WorldTyped
  <2>5. BondInv'
    BY <1>4, NothingOwed DEF TopicBecomes
  <2> QED
    BY <1>4, <2>4, <2>5, StillTask, InvNext
<1>5. ASSUME NEW n \in Partitions, AdminCreates(n)
      PROVE  IInv'
  BY <1>4, <1>5 DEF AdminCreates
<1>6. CASE AdminDeletes
  BY <1>4, <1>6 DEF AdminDeletes
<1>7. ASSUME NEW n \in Partitions, AdminExpands(n)
      PROVE  IInv'
  <2> DEFINE t == [topic EXCEPT !.parts = n]
  <2>1. Exists /\ n > topic.parts /\ TopicBecomes(t) /\ UNCHANGED <<late, record, taskVars, bond>>
    BY <1>7 DEF AdminExpands
  <2>2. topic \in [parts : Partitions, conf : BrokerConf]
    BY <2>1, TopicElim
  <2>3. t \in TopicValue /\ t.parts = n /\ t.conf = topic.conf
    BY <2>2 DEF TopicValue
  <2> HIDE DEF t
  <2>4. topic' = t /\ topic' \in TopicValue /\ stale' \in SUBSET (0..MaxPartitions)
        /\ (~LaggingMetadata => stale' = {})
    BY <2>1, <2>3, BecomesTyped DEF TopicBecomes
  <2>5. WorldTyped'
    BY <2>1, <2>4 DEF WorldTyped
  <2>6. SettingsFaithful'
    BY <2>1, <2>3, <2>4 DEF BondInv, SettingsFaithful
  <2>7. PartitionsNotOverstated'
    BY <2>1, <2>3, <2>4, RecordElim, TopicElim DEF BondInv, PartitionsNotOverstated, Partitions
  <2>8. BondOK'
    BY <2>1, <2>3, <2>4 DEF BondInv, BondOK, Exists, Partitions
  <2> QED
    BY <2>1, <2>5, <2>6, <2>7, <2>8, StillTask, InvNext DEF BondInv
<1>8. CASE MetadataConverges
  <2>1. stale' = {} /\ UNCHANGED <<topic, late, record, taskVars, bond>>
    BY <1>8 DEF MetadataConverges
  <2>2. WorldTyped'
    BY <2>1 DEF WorldTyped
  <2>3. BondInv'
    BY <2>1 DEF BondInv, BondOK, SettingsFaithful, PartitionsNotOverstated, Exists
  <2> QED
    BY <2>1, <2>2, <2>3, StillTask, InvNext
<1> QED
  BY <1>1, <1>2, <1>3, <1>5, <1>6, <1>7, <1>8 DEF EnvironmentStep

(* The client's steps that neither reach the broker's state nor write the  *)
(* record.                                                                 *)
LEMMA QuietKeeps ==
  ASSUME TaskTyped, TaskOK, WorldTyped, BondInv,
         UNCHANGED <<brokerVars, late, record, bond>>,
         TaskTyped' /\ TaskOK'
  PROVE  IInv'
BY StillWorld, InvNext

(* The checks at the head of Create and Update, and the backoff, keep the  *)
(* invariant.                                                              *)
LEMMA HeadsKeep ==
  ASSUME TaskTyped, TaskOK, WorldTyped, BondInv,
         CreateRejects \/ CreateSends \/ UpdateRejectsDecrease \/ UpdateReads
           \/ BackoffElapses \/ BackoffCancelled
  PROVE  IInv'
<1>1. UNCHANGED <<brokerVars, late, record, bond>>
  BY DEF CreateRejects, CreateSends, UpdateRejectsDecrease, UpdateReads,
         BackoffElapses, BackoffCancelled
<1>2. record.parts \in Int /\ (op = "update" => config.parts \in Int)
  BY RecordElim DEF TaskOK, Config, Partitions
<1>3. CASE Finish("failed")
  BY <1>1, <1>3, FinishTask, QuietKeeps
<1>4. CASE CreateSends
  <2>1. GoTo("controller") /\ op = "create" /\ ~Rejected(config.set, CreatePlan(config))
    BY <1>4 DEF CreateSends
  <2>2. "controller" \in Steps /\ op \in Ops
    BY <2>1 DEF Steps, Ops
  <2>3. TaskTyped'
    BY <2>1, <2>2, GoToTyped
  <2>4. TaskOK'
    BY <1>1, <2>1, <2>2, GoToTask
  <2> QED
    BY <1>1, <2>3, <2>4, QuietKeeps
<1>5. CASE UpdateReads
  <2>1. GoTo("metadata") /\ op = "update" /\ record.parts <= config.parts
    BY <1>2, <1>5 DEF UpdateReads
  <2>2. "metadata" \in Steps /\ op \in Ops
    BY <2>1 DEF Steps, Ops
  <2>3. TaskTyped'
    BY <2>1, <2>2, GoToTyped
  <2>4. TaskOK'
    BY <1>1, <2>1, <2>2, GoToTask
  <2> QED
    BY <1>1, <2>3, <2>4, QuietKeeps
<1>6. CASE BackoffElapses
  <2>1. /\ step = "backoff" /\ attempt' = attempt + 1 /\ step' = FirstStep
        /\ UNCHANGED <<op, config, replacing, last, record>>
    BY <1>1, <1>6 DEF BackoffElapses
  <2>2. op # "none" /\ step # "begin" /\ attempt + 1 < MaxRetries
    BY <2>1 DEF TaskOK
  <2>3. TaskTyped'
    <3>1. attempt' \in 0..(MaxRetries - 1)
      BY <2>1, <2>2 DEF TaskTyped
    <3> QED
      BY <2>1, <3>1 DEF TaskTyped, FirstStep, Steps
  <2>4. PlanKind(config)' = PlanKind(config)
    BY <2>1, PlanStable
  <2>5. (Rejected(config.set, CreatePlan(config)))' <=> Rejected(config.set, CreatePlan(config))
    BY <2>1, CreatePlanStable
  <2>6. TaskOK'
    BY <2>1, <2>2, <2>4, <2>5 DEF TaskOK, TaskTyped, FirstStep, Ops
  <2> QED
    BY <1>1, <2>3, <2>6, QuietKeeps
<1> QED
  BY <1>3, <1>4, <1>5, <1>6
     DEF CreateRejects, UpdateRejectsDecrease, BackoffCancelled

(* Every answer to a metadata request, stale ones included, keeps the      *)
(* invariant.                                                              *)
LEMMA MetadataKeeps ==
  ASSUME TaskTyped, TaskOK, WorldTyped, BondInv,
         \/ MetadataFails \/ ControllerResolved \/ MetadataUnknown \/ ListingShows
         \/ \E n \in Partitions :
              ReadFinds(n) \/ UpdateFindsEnough(n) \/ UpdateFindsFewer(n)
         \/ ListingConfirms
  PROVE  IInv'
<1>1. CASE MetadataFails \/ ListingShows
  <2>1. UNCHANGED <<brokerVars, late, record, bond>> /\ AttemptFails
    BY <1>1 DEF MetadataFails, ListingShows
  <2>2. op # "none" /\ step # "begin"
    BY <1>1 DEF MetadataFails, ListingShows, TaskOK
  <2> QED
    BY <2>1, <2>2, FailTask, QuietKeeps
<1>2. ASSUME NEW s \in {"request", "listing"}, GoTo(s),
             UNCHANGED <<brokerVars, late, record, bond>>,
             \/ s = "request" /\ step = "controller"
             \/ s = "request" /\ op = "update" /\ step = "metadata"
             \/ s = "listing" /\ step = "metadata"
      PROVE  IInv'
  <2>1. s \in Steps /\ op \in Ops /\ op # "none" /\ s # "idle"
    BY <1>2 DEF Steps, TaskTyped, TaskOK
  <2>2. TaskTyped'
    BY <1>2, <2>1, GoToTyped
  <2>3. TaskOK'
    BY <1>2, <2>1, GoToTask DEF TaskOK
  <2> QED
    BY <1>2, <2>2, <2>3, QuietKeeps
<1>3. CASE ControllerResolved
  BY <1>2, <1>3 DEF ControllerResolved
<1>4. CASE MetadataUnknown
  BY <1>2, <1>4 DEF MetadataUnknown
<1>5. ASSUME NEW n \in Partitions, UpdateFindsFewer(n)
      PROVE  IInv'
  BY <1>2, <1>5 DEF UpdateFindsFewer
<1>6. ASSUME NEW n \in Partitions, ReadFinds(n)
      PROVE  IInv'
  <2>1. op \in {"read", "import"} /\ ReadRecords(n, Sized(n))
        /\ UNCHANGED <<brokerVars, late>>
    BY <1>6 DEF ReadFinds
  <2>2. /\ record' \in RecordValue /\ bond' \in SUBSET {"created", "sized"}
        /\ BondInv' /\ TaskTyped' /\ TaskOK'
    BY <2>1, ReadEnds
  <2>3. WorldTyped'
    BY <2>1, <2>2 DEF WorldTyped, brokerVars
  <2> QED
    BY <2>2, <2>3, InvNext
<1>7. ASSUME NEW n \in Partitions, UpdateFindsEnough(n)
      PROVE  IInv'
  <2> DEFINE owed == Sized(n)
  <2>1. op = "update" /\ step # "begin" /\ UpdateRecords(owed)
        /\ UNCHANGED <<topic, stale, late>> /\ config.parts <= n
    BY <1>7 DEF UpdateFindsEnough, EnoughPartitions, brokerVars
  <2>2. owed \in SUBSET (bond \cup {"sized"})
    BY DEF Sized
  <2>3. "sized" \in owed => config.parts <= topic'.parts
    BY <2>1 DEF Sized
  <2>4. owed # {} => Exists'
    <3>1. CASE n = topic.parts
      BY <2>1, <3>1 DEF Exists, Partitions
    <3>2. CASE n # topic.parts
      BY <2>1, <3>2 DEF Sized, Exists, BondInv, BondOK
    <3> QED
      BY <3>1, <3>2
  <2>5. ~LaggingMetadata => stale' = {}
    BY <2>1 DEF BondInv, BondOK
  <2> HIDE DEF owed
  <2>6. /\ record' \in RecordValue /\ bond' \in SUBSET {"created", "sized"}
        /\ BondInv' /\ TaskTyped' /\ TaskOK'
    BY <2>1, <2>2, <2>3, <2>4, <2>5, UpdateEnds
  <2>7. WorldTyped'
    BY <2>1, <2>6 DEF WorldTyped
  <2> QED
    BY <2>6, <2>7, InvNext
<1>8. CASE ListingConfirms
  <2>1. UNCHANGED <<topic, stale, late>>
    BY <1>8 DEF ListingConfirms, brokerVars
  <2>2. ~LaggingMetadata => stale' = {}
    BY <2>1 DEF BondInv, BondOK
  <2>3. CASE op = "read" /\ record' = NoRecord /\ bond' = {} /\ Finish("ok")
    <3>1. WorldTyped'
      BY <2>1, <2>3 DEF WorldTyped, RecordValue
    <3> QED
      BY <2>2, <2>3, <3>1, NothingOwed, FinishTask, InvNext
  <2>4. CASE op = "delete" /\ DeleteRecords
    <3>1. record' \in RecordValue /\ bond' = {} /\ TaskTyped' /\ TaskOK'
      BY <2>4, DeleteEnds
    <3>2. WorldTyped'
      BY <2>1, <3>1 DEF WorldTyped
    <3> QED
      BY <2>2, <3>1, <3>2, NothingOwed, InvNext
  <2>5. CASE Finish("failed") /\ UNCHANGED <<record, bond>>
    BY <2>1, <2>5, FinishTask, QuietKeeps DEF brokerVars
  <2> QED
    BY <1>8, <2>3, <2>4, <2>5 DEF ListingConfirms
<1> QED
  BY <1>1, <1>3, <1>4, <1>5, <1>6, <1>7, <1>8

(* Every outcome of CreateTopics, DeleteTopics and CreatePartitions, lost, *)
(* late and omitted answers included, keeps the invariant.                 *)
LEMMA RequestsKeep ==
  ASSUME TaskTyped, TaskOK, WorldTyped, BondInv,
         RequestSucceeds \/ ExpansionUnanswered \/ RequestRefused
           \/ DeleteUnknown \/ ReplyLost \/ RequestLost \/ RequestDelayed
  PROVE  IInv'
<1>1. step = "request" /\ op \in {"create", "update", "delete"}
  BY DEF RequestSucceeds, ExpansionUnanswered, RequestRefused, DeleteUnknown,
         ReplyLost, RequestLost, RequestDelayed, TaskOK
<1>2. Request \in RequestValue
  BY <1>1, RequestTyped
<1>3. ASSUME RequestFails, UNCHANGED record
      PROVE  TaskTyped' /\ TaskOK'
  <2>1. CASE Finish("failed")
    BY <2>1, FinishTask
  <2>2. CASE AttemptFails
    BY <1>1, <1>3, <2>2, FailTask
  <2> QED
    BY <1>3, <2>1, <2>2 DEF RequestFails
<1>4. CASE RequestRefused \/ RequestLost
  <2>1. UNCHANGED <<brokerVars, late, record, bond>> /\ RequestFails
    BY <1>4 DEF RequestRefused, RequestLost
  <2> QED
    BY <1>3, <2>1, QuietKeeps
<1>5. CASE DeleteUnknown
  <2>1. UNCHANGED <<brokerVars, late, record, bond>> /\ GoTo("listing") /\ op = "delete"
    BY <1>5 DEF DeleteUnknown
  <2>2. "listing" \in Steps /\ op \in Ops
    BY <2>1 DEF Steps, Ops
  <2>3. TaskTyped'
    BY <2>1, <2>2, GoToTyped
  <2>4. TaskOK'
    BY <2>1, <2>2, GoToTask
  <2> QED
    BY <2>1, <2>3, <2>4, QuietKeeps
<1>6. CASE ReplyLost
  <2>1. Execute(Request) /\ bond' = BondAfter(Request) /\ UNCHANGED <<late, record>>
        /\ RequestFails
    BY <1>6 DEF ReplyLost
  <2>2. topic' \in TopicValue /\ stale' \in SUBSET (0..MaxPartitions)
    BY <1>2, <2>1, ExecuteTyped
  <2>3. BondInv' /\ bond' \in SUBSET {"created", "sized"}
    BY <1>2, <2>1, ExecuteBond
  <2>4. WorldTyped'
    BY <2>1, <2>2, <2>3 DEF WorldTyped
  <2> QED
    BY <1>3, <2>1, <2>3, <2>4, InvNext
<1>7. CASE RequestDelayed
  <2>1. late' = late \cup {Request} /\ UNCHANGED <<topic, stale, record, bond>>
        /\ RequestFails
    BY <1>7 DEF RequestDelayed, brokerVars
  <2>2. WorldTyped'
    BY <1>2, <2>1 DEF WorldTyped
  <2>3. BondInv'
    BY <2>1 DEF BondInv, BondOK, SettingsFaithful, PartitionsNotOverstated, Exists
  <2> QED
    BY <1>3, <2>1, <2>2, <2>3, InvNext
<1>8. CASE RequestSucceeds
  <2>1. Accepted(Answer(Request)) /\ Execute(Request) /\ late' = late
    BY <1>8 DEF RequestSucceeds
  <2>2. Answer(Request) = "ok"
    BY <2>1 DEF Accepted
  <2>3. topic' \in TopicValue /\ stale' \in SUBSET (0..MaxPartitions)
        /\ (~LaggingMetadata => stale' = {})
    BY <1>2, <2>1, ExecuteTyped DEF BondInv, BondOK
  <2>4. CASE op = "create" /\ CreateRecords
    <3>1. /\ record' \in RecordValue /\ bond' \in SUBSET {"created", "sized"}
          /\ BondInv' /\ TaskTyped' /\ TaskOK'
      BY <1>1, <2>1, <2>4, CreateEnds
    <3>2. WorldTyped'
      BY <2>1, <2>3, <3>1 DEF WorldTyped
    <3> QED
      BY <3>1, <3>2, InvNext
  <2>5. CASE op = "delete" /\ DeleteRecords
    <3>1. record' \in RecordValue /\ bond' = {} /\ TaskTyped' /\ TaskOK'
      BY <2>5, DeleteEnds
    <3>2. WorldTyped'
      BY <2>1, <2>3, <3>1 DEF WorldTyped
    <3> QED
      BY <2>3, <3>1, <3>2, NothingOwed, InvNext
  <2>6. CASE op = "update" /\ UpdateRecords(bond \cup {"sized"})
    <3> DEFINE owed == bond \cup {"sized"}
    <3>1. Request = [kind |-> "expand", parts |-> config.parts, conf |-> NoConf]
      BY <2>6 DEF Request
    <3>2. Exists /\ config.parts \in Partitions
      BY <2>2, <2>6, <3>1 DEF Answer, TaskOK, Config
    <3>3. topic' = [topic EXCEPT !.parts = config.parts]
      BY <2>1, <2>2, <3>1 DEF Execute, TopicBecomes, Effect
    <3>4. topic'.parts = config.parts /\ topic'.conf = topic.conf
      BY <3>2, <3>3, TopicElim
    <3>5. Exists'
      BY <3>2, <3>4 DEF Exists, Partitions
    <3>6. config.parts <= topic'.parts
      BY <3>2, <3>4 DEF Partitions
    <3>7. owed \in SUBSET (bond \cup {"sized"})
      OBVIOUS
    <3> HIDE DEF owed
    <3>8. UpdateRecords(owed)
      BY <2>6 DEF owed
    <3>9. /\ record' \in RecordValue /\ bond' \in SUBSET {"created", "sized"}
          /\ BondInv' /\ TaskTyped' /\ TaskOK'
      BY <1>1, <2>3, <2>6, <3>4, <3>5, <3>6, <3>7, <3>8, UpdateEnds
    <3>10. WorldTyped'
      BY <2>1, <2>3, <3>9 DEF WorldTyped
    <3> QED
      BY <3>9, <3>10, InvNext
  <2> QED
    BY <1>8, <2>4, <2>5, <2>6 DEF RequestSucceeds
<1>9. CASE ExpansionUnanswered
  <2> DEFINE owed == bond \ {"sized"}
  <2>1. /\ op = "update" /\ step # "begin" /\ UpdateRecords(owed)
        /\ UNCHANGED <<topic, stale, late>>
    BY <1>9 DEF ExpansionUnanswered, brokerVars
  <2>2. owed \in SUBSET (bond \cup {"sized"}) /\ "sized" \notin owed
        /\ owed \subseteq bond
    OBVIOUS
  <2> HIDE DEF owed
  <2>3. owed # {} => Exists'
    BY <2>1, <2>2 DEF BondInv, BondOK, Exists
  <2>4. ~LaggingMetadata => stale' = {}
    BY <2>1 DEF BondInv, BondOK
  <2>5. /\ record' \in RecordValue /\ bond' \in SUBSET {"created", "sized"}
        /\ BondInv' /\ TaskTyped' /\ TaskOK'
    BY <1>1, <2>1, <2>2, <2>3, <2>4, UpdateEnds
  <2>6. WorldTyped'
    BY <2>1, <2>5 DEF WorldTyped
  <2> QED
    BY <2>5, <2>6, InvNext
<1> QED
  BY <1>4, <1>5, <1>6, <1>7, <1>8, <1>9

(* The invariant holds initially.                                          *)
LEMMA InitKeeps == Init => IInv
<1> SUFFICES ASSUME Init PROVE IInv
  OBVIOUS
<1>1. topic \in TopicValue
  BY NoConfTyped DEF Init, TopicValue
<1>2. record \in RecordValue
  <2>1. CASE record = NoRecord
    BY <2>1 DEF RecordValue
  <2>2. CASE record # NoRecord
    <3>1. record \in [exists : {TRUE}, parts : {topic.parts} \ {0}, set : LegacySettings]
      BY <2>2 DEF Init
    <3>2. \A n \in {topic.parts} \ {0} : n \in Partitions
      BY DEF Init, NoTopic
    <3> QED
      BY <3>1, <3>2 DEF RecordValue
  <2> QED
    BY <2>1, <2>2
<1>3. WorldTyped
  BY <1>1, <1>2 DEF WorldTyped, Init
<1>4. 0 \in 0..(MaxRetries - 1)
  OBVIOUS
<1>5. TaskTyped
  BY <1>4 DEF TaskTyped, Init, Ops, Steps, NoResult
<1>6. TaskOK
  BY DEF TaskOK, Init
<1>7. BondInv
  BY DEF BondInv, BondOK, SettingsFaithful, PartitionsNotOverstated, Init
<1> QED
  BY <1>3, <1>5, <1>6, <1>7, InvParts

(* Every step keeps the invariant.                                         *)
LEMMA StepKeeps == IInv /\ [Next]_vars => IInv'
<1> SUFFICES ASSUME IInv, [Next]_vars PROVE IInv'
  OBVIOUS
<1>1. TaskTyped /\ TaskOK /\ WorldTyped /\ BondInv
  BY InvParts
<1>2. CASE ClientStep
  BY <1>1, <1>2, HeadsKeep, MetadataKeeps, RequestsKeep DEF ClientStep
<1>3. CASE CoreStep
  BY <1>3, CoreKeeps
<1>4. CASE EnvironmentStep
  BY <1>4, EnvironmentKeeps
<1>5. CASE UNCHANGED vars
  <2>1. UNCHANGED <<topic, stale, late, record, taskVars, bond>>
    BY <1>5 DEF vars
  <2>2. UNCHANGED <<brokerVars, late, record, bond>>
    BY <2>1 DEF brokerVars
  <2> QED
    BY <1>1, <2>1, <2>2, StillTask, QuietKeeps
<1> QED
  BY <1>2, <1>3, <1>4, <1>5 DEF Next

(* The steps that may write the record.                                    *)
LEMMA RecordWriters ==
  ASSUME [Next]_vars
  PROVE  \/ record' = record
         \/ \E n \in Partitions : ReadFinds(n) \/ UpdateFindsEnough(n)
         \/ ListingConfirms
         \/ RequestSucceeds
         \/ ExpansionUnanswered
<1>1. CASE ClientStep
  BY <1>1 DEF ClientStep, CreateRejects, CreateSends, UpdateRejectsDecrease,
     UpdateReads, MetadataFails, ControllerResolved, UpdateFindsFewer,
     MetadataUnknown, ListingShows, RequestRefused, DeleteUnknown, ReplyLost,
     RequestLost, RequestDelayed, BackoffElapses, BackoffCancelled
<1>2. CASE CoreStep
  BY <1>2 DEF CoreStep, StartCreate, StartUpdate, StartReplace, StartDestroy,
     StartRefresh, StartImport
<1>3. CASE EnvironmentStep
  BY <1>3 DEF EnvironmentStep, Killed, LateArrives, LateDropped, AdminCreates,
     AdminExpands, AdminDeletes, MetadataConverges
<1>4. CASE UNCHANGED vars
  BY <1>4 DEF vars
<1> QED
  BY <1>1, <1>2, <1>3, <1>4 DEF Next

----------------------------------------------------------------------------
(* Theorems.                                                               *)

(* IInv holds in every reachable state: the handler, its retries and the   *)
(* requests still on their way never lead out of it.                       *)
THEOREM Invariance == Spec => []IInv
BY InitKeeps, StepKeeps, PTL DEF Spec

(* No run of resource, client and broker leaves the types: in particular   *)
(* withRetry never starts an attempt beyond maxRetries.                    *)
THEOREM TypeCorrect == Spec => []TypeOK
<1>1. IInv => TypeOK
  BY DEF IInv
<1> QED
  BY <1>1, Invariance, PTL

(* A record made by Create never drifts from the settings the broker was   *)
(* given, through any sequence of updates, reads, failures and retries.    *)
THEOREM RecordFaithful == Spec => []SettingsFaithful
<1>1. IInv => SettingsFaithful
  BY DEF IInv
<1> QED
  BY <1>1, Invariance, PTL

(* A record never overstates the partitions of the topic it was learned    *)
(* from, whatever happens between UpdateTopic's read and its request.      *)
THEOREM RecordNotOverstated == Spec => []PartitionsNotOverstated
<1>1. IInv => PartitionsNotOverstated
  BY DEF IInv
<1> QED
  BY <1>1, Invariance, PTL

(* Create records only what its own request made, with the partitions and  *)
(* settings it asked for; an existing topic is never adopted.              *)
THEOREM NeverAdopts == Spec => CreateNeverAdopts
<1>1. IInv /\ [Next]_vars =>
        [(op = "create" /\ ~record.exists /\ record'.exists) =>
           /\ ~Exists
           /\ topic'.parts = config.parts
           /\ topic'.conf = BuildConfig(CreatePlan(config))]_vars
  <2> SUFFICES ASSUME IInv, [Next]_vars, op = "create", ~record.exists, record'.exists
               PROVE  /\ ~Exists
                      /\ topic'.parts = config.parts
                      /\ topic'.conf = BuildConfig(CreatePlan(config))
    OBVIOUS
  <2>1. TaskTyped /\ TaskOK /\ WorldTyped /\ BondInv
    BY InvParts
  <2>2. RequestSucceeds
    BY <2>1, RecordWriters
       DEF ReadFinds, UpdateFindsEnough, ListingConfirms, ExpansionUnanswered, TaskOK
  <2>3. /\ step = "request" /\ Accepted(Answer(Request)) /\ Execute(Request)
        /\ CreateRecords
    BY <2>2 DEF RequestSucceeds
  <2>4. ~Exists /\ topic' = [parts |-> config.parts, conf |-> BuildConfig(CreatePlan(config))]
    BY <2>1, <2>3, CreateEnds
  <2> QED
    BY <2>4
<1> QED
  BY <1>1, Invariance, PTL DEF Spec, CreateNeverAdopts

(* Where metadata never lags, a record is dropped only when the topic is   *)
(* gone: through a refused, lost, late or retried delete, a refresh that   *)
(* misses the topic, or the first half of a replacement.                   *)
THEOREM DropsOnlyAbsent ==
  ASSUME ~LaggingMetadata
  PROVE  Spec => DropOnlyIfAbsent
<1>1. IInv /\ [Next]_vars =>
        [(record.exists /\ ~record'.exists) => ~Exists']_vars
  <2> SUFFICES ASSUME IInv, [Next]_vars, record.exists, ~record'.exists
               PROVE  ~Exists'
    OBVIOUS
  <2>1. TaskTyped /\ TaskOK /\ WorldTyped /\ BondInv /\ stale = {}
    BY InvParts DEF BondInv, BondOK
  <2>2. ASSUME NEW n \in Partitions, ReadFinds(n)
        PROVE  FALSE
    <3>1. record' = [record EXCEPT !.exists = TRUE, !.parts = n]
      BY <2>2 DEF ReadFinds, ReadRecords
    <3>2. ~NoRecord.exists
      BY DEF NoRecord
    <3>3. record \in [exists : {TRUE}, parts : Partitions, set : KnownSettings]
      BY <2>1, <3>2 DEF WorldTyped, RecordValue
    <3> QED
      BY <3>1, <3>3
  <2>3. ASSUME NEW n \in Partitions, UpdateFindsEnough(n)
        PROVE  FALSE
    BY <2>3 DEF UpdateFindsEnough, UpdateRecords, Recorded
  <2>4. CASE ListingConfirms
    <3>1. topic.parts = 0 /\ topic' = topic
      BY <2>1, <2>4 DEF ListingConfirms, AbsenceConfirmed, Visible, brokerVars
    <3> QED
      BY <3>1 DEF Exists
  <2>5. CASE RequestSucceeds
    <3>1. op = "delete" /\ Accepted(Answer(Request)) /\ Execute(Request)
      BY <2>5 DEF RequestSucceeds, CreateRecords, UpdateRecords, Recorded
    <3>2. topic' = NoTopic
      BY <3>1 DEF Accepted, Execute, TopicBecomes, Effect, Request
    <3> QED
      BY <3>2 DEF Exists, NoTopic
  <2>6. CASE ExpansionUnanswered
    BY <2>6 DEF ExpansionUnanswered, UpdateRecords, Recorded
  <2> QED
    BY <2>2, <2>3, <2>4, <2>5, <2>6, RecordWriters
<1> QED
  BY <1>1, Invariance, PTL DEF Spec, DropOnlyIfAbsent

(* Whatever was unknown while planning, a request for a new topic names    *)
(* every broker key once: the map never overwrites a dedicated attribute.  *)
THEOREM Unambiguous == Spec => []RequestUnambiguous
<1>1. IInv => RequestUnambiguous
  <2> DEFINE plan == CreatePlan(config)
  <2> SUFFICES ASSUME IInv, op = "create", step # "begin", plan["config"] \notin Absent,
                      NEW a \in Dedicated \cap DOMAIN plan["config"]
               PROVE  plan[a] = Unknown
    BY DEF RequestUnambiguous
  <2>1. ~Conflict(config.set, plan) /\ WhollyKnown(config.set)
    BY DEF IInv, TaskOK, Rejected
  <2>2. a \in Attr /\ a \in Computed /\ "config" \in Attr /\ "config" \in Computed
    BY DEF Attr, Computed
  <2>3. config.set["config"] # Unknown
    BY <2>1, <2>2 DEF WhollyKnown
  <2>4. \A k \in Computed : config.set[k] = Null => plan[k] = Unknown
    BY DEF CreatePlan, PlanSettings, UseStateForUnknown, MarkUnknown, NoSettings, Computed
  <2>5. config.set["config"] # Null
    BY <2>2, <2>4 DEF Absent
  <2>6. plan["config"] = config.set["config"]
    BY <2>2, <2>3, <2>5
       DEF CreatePlan, PlanSettings, UseStateForUnknown, MarkUnknown, Proposed
  <2>7. config.set[a] = Null
    BY <2>1, <2>3, <2>6 DEF Conflict, ResolvedMap, DuplicateDedicated
  <2> QED
    BY <2>2, <2>4, <2>7
<1> QED
  BY <1>1, Invariance, PTL

----------------------------------------------------------------------------
(* What an apply leaves behind.                                            *)

(* The last result stays what it was until the next operation begins.      *)
ResultInv ==
  /\ op # "none" => last = NoResult
  /\ ApplyConverges
  /\ CreateResultWhollyKnown

(* A record that holds what is configured needs no operation.              *)
LEMMA NoopPlan ==
  ASSUME NEW c \in Config, NEW s \in KnownSettings, WhollyKnown(c.set),
         \A a \in Attr : c.set[a] # Null => s[a] = c.set[a],
         \A a \in Attr \ Computed : c.set[a] = Null => s[a] = Null,
         record' = Recorded(c.parts, s), config' = c
  PROVE  PlanKind(config)' = "noop"
<1>1. c.set \in KnownSettings
  BY DEF Config, KnownSettings
<1>2. record'.exists /\ record'.parts = c.parts /\ record'.set = s
  BY DEF Recorded
<1>3. Proposed(c.set, s) = s /\ PlanSettings(c.set, s, FALSE) = s
  BY <1>1, Settled
<1>4. Changed(config)' = FALSE
  BY <1>2, <1>3 DEF Changed
<1>5. UpdatePlan(config)' = s
  BY <1>2, <1>3, <1>4 DEF UpdatePlan
<1>6. ~RequiresReplace(c.set, s, s)
  BY DEF RequiresReplace
<1> QED
  BY <1>2, <1>5, <1>6 DEF PlanKind

(* How a step may change the result of the last operation.                 *)
LEMMA ResultSteps ==
  ASSUME [Next]_vars
  PROVE  \/ UNCHANGED <<op, last, config, record>>
         \/ op # "none" /\ op' # "none" /\ last' = last
         \/ last' = NoResult
         \/ op' = "none" /\ last' = [op |-> op, result |-> "failed"]
         \/ op' = "none" /\ last' = [op |-> op, result |-> "ok"]
              /\ op \in {"read", "import", "delete"}
         \/ op = "create" /\ step = "request" /\ CreateRecords
         \/ op = "update" /\ step # "begin" /\ \E owed : UpdateRecords(owed)
<1>1. CASE CreateRejects \/ CreateSends \/ UpdateRejectsDecrease \/ UpdateReads
             \/ BackoffElapses \/ BackoffCancelled \/ Killed
  BY <1>1 DEF CreateRejects, CreateSends, UpdateRejectsDecrease, UpdateReads,
     BackoffElapses, BackoffCancelled, Killed, Finish, GoTo
<1>2. CASE MetadataFails \/ ControllerResolved \/ MetadataUnknown \/ ListingShows
             \/ RequestRefused \/ DeleteUnknown \/ ReplyLost \/ RequestLost
             \/ RequestDelayed
  BY <1>2 DEF MetadataFails, ControllerResolved, MetadataUnknown, ListingShows,
     RequestRefused, DeleteUnknown, ReplyLost, RequestLost, RequestDelayed,
     RequestFails, AttemptFails, Finish, GoTo
<1>3. ASSUME NEW n \in Partitions,
             ReadFinds(n) \/ UpdateFindsEnough(n) \/ UpdateFindsFewer(n)
      PROVE  \/ UNCHANGED <<op, last, config, record>>
             \/ op' = "none" /\ last' = [op |-> op, result |-> "ok"]
                  /\ op \in {"read", "import", "delete"}
             \/ op = "update" /\ step # "begin" /\ \E owed : UpdateRecords(owed)
  BY <1>3 DEF ReadFinds, UpdateFindsEnough, UpdateFindsFewer, ReadRecords, Finish, GoTo
<1>4. CASE ListingConfirms
  BY <1>4 DEF ListingConfirms, DeleteRecords, Finish
<1>5. CASE RequestSucceeds
  BY <1>5 DEF RequestSucceeds, DeleteRecords, Finish
<1>6. CASE ExpansionUnanswered
  BY <1>6 DEF ExpansionUnanswered
<1>7. CASE CoreStep
  BY <1>7 DEF CoreStep, StartCreate, StartUpdate, StartReplace, StartDestroy,
     StartRefresh, StartImport, Begin
<1>8. CASE EnvironmentStep /\ ~Killed
  BY <1>8 DEF EnvironmentStep, LateArrives, LateDropped, AdminCreates,
     AdminExpands, AdminDeletes, MetadataConverges, taskVars
<1>9. CASE UNCHANGED vars
  BY <1>9 DEF vars, taskVars
<1> QED
  BY <1>1, <1>2, <1>3, <1>4, <1>5, <1>6, <1>7, <1>8, <1>9
     DEF Next, ClientStep, EnvironmentStep

(* Every step keeps what is known of the last result: the configuration    *)
(* just applied plans nothing, and Create returned no unknown.             *)
LEMMA ResultKept == IInv /\ ResultInv /\ [Next]_vars => ResultInv'
<1> SUFFICES ASSUME IInv, ResultInv, [Next]_vars PROVE ResultInv'
  OBVIOUS
<1>1. TaskTyped /\ TaskOK /\ WorldTyped /\ BondInv
  BY InvParts
<1>2. CASE UNCHANGED <<op, last, config, record>>
  <2>1. PlanKind(config)' = PlanKind(config)
    BY <1>2, PlanStable
  <2> QED
    BY <1>2, <2>1 DEF ResultInv, ApplyConverges, CreateResultWhollyKnown
<1>3. CASE last' = NoResult
  BY <1>3 DEF ResultInv, ApplyConverges, CreateResultWhollyKnown, NoResult
<1>4. CASE op # "none" /\ op' # "none" /\ last' = last
  BY <1>3, <1>4 DEF ResultInv
<1>5. CASE op' = "none" /\ last' = [op |-> op, result |-> "failed"]
  BY <1>5 DEF ResultInv, ApplyConverges, CreateResultWhollyKnown
<1>6. CASE op' = "none" /\ last' = [op |-> op, result |-> "ok"]
             /\ op \in {"read", "import", "delete"}
  BY <1>6 DEF ResultInv, ApplyConverges, CreateResultWhollyKnown
<1>7. CASE op = "create" /\ step = "request" /\ CreateRecords
  <2>1. config \in Config /\ WhollyKnown(config.set)
    BY <1>1, <1>7 DEF TaskOK
  <2>2. config.set \in KnownSettings
    BY <2>1 DEF Config, KnownSettings
  <2>3. /\ ClearUnknown(CreatePlan(config)) = config.set
        /\ UnknownAsNull(config.set) = config.set
    BY <2>2, CreateRecordsConfig DEF CreatePlan
  <2>4. record' = Recorded(config.parts, config.set) /\ Finish("ok")
    BY <1>7, <2>1, <2>3 DEF CreateRecords
  <2>5. config' = config /\ op' = "none" /\ last' = [op |-> "create", result |-> "ok"]
    BY <1>7, <2>4 DEF Finish
  <2>6. PlanKind(config)' = "noop"
    BY <2>1, <2>2, <2>4, <2>5, NoopPlan
  <2> QED
    BY <2>5, <2>6 DEF ResultInv, ApplyConverges, CreateResultWhollyKnown
<1>8. CASE op = "update" /\ step # "begin" /\ \E owed : UpdateRecords(owed)
  <2> DEFINE s == UnknownAsNull(UpdatePlan(config))
  <2>1. config \in Config /\ WhollyKnown(config.set) /\ PlanKind(config) = "update"
    BY <1>1, <1>8 DEF TaskOK
  <2>2. config.set \in KnownSettings /\ record.set \in KnownSettings
        /\ Changed(config) \in BOOLEAN
    BY <1>1, <2>1, RecordElim, UpdatePlanTyped DEF Config, KnownSettings
  <2>3. ~RequiresReplace(config.set, UpdatePlan(config), record.set)
    BY <2>1 DEF PlanKind
  <2>4. /\ \A a \in Attr : config.set[a] # Null => s[a] = config.set[a]
        /\ \A a \in Attr \ Computed : config.set[a] = Null => s[a] = Null
    BY <2>2, <2>3, UpdateSettles DEF UpdatePlan
  <2>5. s \in KnownSettings
    BY <1>1, <2>1, UpdatePlanTyped, NullTyped
  <2>6. record' = Recorded(config.parts, s) /\ config' = config /\ op' = "none"
        /\ last'.op = "update"
    BY <1>8 DEF UpdateRecords, Finish
  <2> HIDE DEF s
  <2>7. PlanKind(config)' = "noop"
    BY <2>1, <2>4, <2>5, <2>6, NoopPlan
  <2> QED
    BY <2>6, <2>7 DEF ResultInv, ApplyConverges, CreateResultWhollyKnown
<1> QED
  BY <1>2, <1>3, <1>4, <1>5, <1>6, <1>7, <1>8, ResultSteps

(* After an apply that recorded something, the same configuration plans no *)
(* change: no perpetual difference and no second replacement.              *)
THEOREM Converges == Spec => []ApplyConverges
<1>1. Init => ResultInv
  BY DEF Init, ResultInv, ApplyConverges, CreateResultWhollyKnown, NoResult
<1>2. ResultInv => ApplyConverges
  BY DEF ResultInv
<1> QED
  BY <1>1, <1>2, ResultKept, Invariance, PTL DEF Spec

(* Terraform never rejects what Create returns for a topic it made.        *)
THEOREM CreateResultKnown == Spec => []CreateResultWhollyKnown
<1>1. Init => ResultInv
  BY DEF Init, ResultInv, ApplyConverges, CreateResultWhollyKnown, NoResult
<1>2. ResultInv => CreateResultWhollyKnown
  BY DEF ResultInv
<1> QED
  BY <1>1, <1>2, ResultKept, Invariance, PTL DEF Spec
----------------------------------------------------------------------------
(* How long an operation takes.                                            *)

(* While an operation runs there is something left to do.                  *)
LEMMA WorkTyped ==
  ASSUME TaskTyped
  PROVE  /\ Work \in 0..(10 * MaxRetries + 5)
         /\ op # "none" => Work >= 5 + Weight[step]
         /\ (op # "none" /\ replacing) => Work >= 5 + Weight[step] + 5 * MaxRetries
<1>1. Weight[step] \in 0..5
  BY DEF TaskTyped, Steps, Weight
<1>2. attempt \in 0..(MaxRetries - 1) /\ replacing \in BOOLEAN
  BY DEF TaskTyped
<1> QED
  BY <1>1, <1>2 DEF Work

(* The end of an operation leaves nothing to do.                           *)
LEMMA EndLess ==
  ASSUME TaskTyped, op # "none", op' = "none"
  PROVE  Work' < Work
<1>1. Weight[step] \in 0..5
  BY DEF TaskTyped, Steps, Weight
<1>2. Work' = 0
  BY DEF Work
<1> QED
  BY <1>1, <1>2, WorkTyped

(* Each step is nearer to the end of its attempt than the one before.      *)
LEMMA ForwardLess ==
  ASSUME TaskTyped, op # "none", NEW s \in Steps, GoTo(s),
         Weight[s] < Weight[step]
  PROVE  Work' < Work
<1>1. UNCHANGED <<op, attempt, replacing>> /\ step' = s
  BY DEF GoTo
<1>2. Weight[step] \in 0..5 /\ Weight[s] \in 0..5
  BY DEF TaskTyped, Steps, Weight
<1>3. attempt \in 0..(MaxRetries - 1) /\ replacing \in BOOLEAN
  BY DEF TaskTyped
<1> QED
  BY <1>1, <1>2, <1>3 DEF Work

(* A failed attempt either ends the operation or brings it to its backoff. *)
LEMMA FailLess ==
  ASSUME TaskTyped, op # "none", AttemptFails,
         step \in {"metadata", "listing", "controller", "request"}
  PROVE  Work' < Work
<1>1. CASE Finish("failed")
  BY <1>1, EndLess DEF Finish
<1>2. CASE GoTo("backoff")
  <2>1. "backoff" \in Steps /\ Weight["backoff"] < Weight[step]
    BY DEF Steps, Weight
  <2> QED
    BY <1>2, <2>1, ForwardLess
<1> QED
  BY <1>1, <1>2 DEF AttemptFails

(* The attempt that is spent outweighs the steps of the next one.          *)
LEMMA BackoffLess ==
  ASSUME TaskTyped, TaskOK, BackoffElapses
  PROVE  Work' < Work
<1>1. /\ op # "none" /\ step = "backoff" /\ attempt' = attempt + 1
      /\ step' \in {"controller", "metadata"} /\ UNCHANGED <<op, replacing>>
  BY DEF BackoffElapses, TaskOK, FirstStep
<1>2. Weight[step] = 1 /\ Weight[step'] = 4
  BY <1>1 DEF Weight
<1>3. attempt \in 0..(MaxRetries - 1) /\ replacing \in BOOLEAN
  BY DEF TaskTyped
<1> QED
  BY <1>1, <1>2, <1>3 DEF Work

(* The deletion of a replacement leaves the creation, with all attempts.   *)
LEMMA DeleteLess ==
  ASSUME TaskTyped, op = "delete", step \in {"listing", "request"}, DeleteRecords
  PROVE  Work' < Work
<1>1. CASE Finish("ok")
  BY <1>1, EndLess DEF Finish
<1>2. CASE replacing /\ op' = "create" /\ step' = "begin" /\ attempt' = 0
             /\ replacing' = FALSE
  <2>1. Work' = 5 * MaxRetries + 5
    BY <1>2 DEF Work, Weight
  <2>2. Weight[step] \in {2, 3}
    BY DEF Weight
  <2> QED
    BY <2>1, <2>2, <1>2, WorkTyped
<1> QED
  BY <1>1, <1>2 DEF DeleteRecords

(* Every step of the client brings the running operation nearer its end.   *)
LEMMA ClientLess ==
  ASSUME TaskTyped, TaskOK, ClientStep
  PROVE  op # "none" /\ Work' < Work
<1>1. CASE CreateRejects \/ UpdateRejectsDecrease \/ BackoffCancelled
  BY <1>1, EndLess
     DEF CreateRejects, UpdateRejectsDecrease, BackoffCancelled, Finish, TaskOK
<1>2. CASE CreateSends \/ UpdateReads
  <2>1. /\ op # "none" /\ step = "begin"
        /\ GoTo("controller") \/ GoTo("metadata")
    BY <1>2 DEF CreateSends, UpdateReads
  <2>2. \A s \in {"controller", "metadata"} : s \in Steps /\ Weight[s] < Weight["begin"]
    BY DEF Steps, Weight
  <2> QED
    BY <2>1, <2>2, ForwardLess
<1>3. CASE MetadataFails \/ ListingShows
  BY <1>3, FailLess DEF MetadataFails, ListingShows, TaskOK
<1>4. CASE ControllerResolved \/ MetadataUnknown \/ DeleteUnknown
             \/ \E n \in Partitions : UpdateFindsFewer(n)
  <2>1. /\ op # "none"
        /\ \/ step \in {"controller", "metadata"} /\ GoTo("request")
           \/ step \in {"metadata", "request"} /\ GoTo("listing")
    BY <1>4 DEF ControllerResolved, MetadataUnknown, DeleteUnknown,
                UpdateFindsFewer, TaskOK
  <2>2. /\ "request" \in Steps /\ "listing" \in Steps
        /\ \A s \in {"controller", "metadata"} : Weight["request"] < Weight[s]
        /\ \A s \in {"metadata", "request"} : Weight["listing"] < Weight[s]
    BY DEF Steps, Weight
  <2> QED
    BY <2>1, <2>2, ForwardLess
<1>5. ASSUME NEW n \in Partitions, ReadFinds(n) \/ UpdateFindsEnough(n)
      PROVE  op # "none" /\ Work' < Work
  BY <1>5, EndLess
     DEF ReadFinds, UpdateFindsEnough, ReadRecords, UpdateRecords, Finish
<1>6. CASE ListingConfirms
  BY <1>6, EndLess, DeleteLess DEF ListingConfirms, Finish
<1>7. CASE RequestSucceeds \/ ExpansionUnanswered
  <2>1. CASE op = "delete" /\ step = "request" /\ DeleteRecords
    BY <2>1, DeleteLess
  <2>2. CASE op \in {"create", "update"} /\ op' = "none"
    BY <2>2, EndLess
  <2> QED
    BY <1>7, <2>1, <2>2
       DEF RequestSucceeds, ExpansionUnanswered, CreateRecords, UpdateRecords, Finish
<1>8. CASE RequestRefused \/ ReplyLost \/ RequestLost \/ RequestDelayed
  <2>1. op # "none" /\ step = "request" /\ RequestFails
    BY <1>8 DEF RequestRefused, ReplyLost, RequestLost, RequestDelayed, TaskOK
  <2>2. CASE Finish("failed")
    BY <2>1, <2>2, EndLess DEF Finish
  <2>3. CASE AttemptFails
    BY <2>1, <2>3, FailLess
  <2> QED
    BY <2>1, <2>2, <2>3 DEF RequestFails
<1>9. CASE BackoffElapses
  BY <1>9, BackoffLess DEF BackoffElapses, TaskOK
<1> QED
  BY <1>1, <1>2, <1>3, <1>4, <1>5, <1>6, <1>7, <1>8, <1>9 DEF ClientStep

(* Nobody but the client and a kill touches the running operation.         *)
LEMMA OthersLeaveTask ==
  ASSUME [Next]_vars, op # "none", ~ClientStep
  PROVE  UNCHANGED taskVars \/ op' = "none"
<1>1. CASE CoreStep
  BY <1>1 DEF CoreStep, StartCreate, StartUpdate, StartReplace, StartDestroy,
              StartRefresh, StartImport, Begin
<1>2. CASE EnvironmentStep
  BY <1>2 DEF EnvironmentStep, Killed, Finish, LateArrives, LateDropped,
              AdminCreates, AdminExpands, AdminDeletes, MetadataConverges
<1>3. CASE UNCHANGED vars
  BY <1>3 DEF vars
<1> QED
  BY <1>1, <1>2, <1>3 DEF Next

(* Whatever brokers answer, lose or delay, an operation of the topic       *)
(* resource takes at most 10 * MaxRetries + 5 steps of its handler: what   *)
(* OperationsEnd adds is only that the handler keeps moving.               *)
THEOREM WorkBounded == Spec => WorkShrinks /\ [](Work \in 0..(10 * MaxRetries + 5))
<1>1. IInv => Work \in 0..(10 * MaxRetries + 5)
  BY InvParts, WorkTyped
<1>2. IInv /\ [Next]_vars =>
        [op # "none" => /\ Work' <= Work
                        /\ taskVars' # taskVars => Work' < Work]_vars
  <2> SUFFICES ASSUME IInv, [Next]_vars, op # "none"
               PROVE  /\ Work' <= Work
                      /\ taskVars' # taskVars => Work' < Work
    OBVIOUS
  <2>1. TaskTyped /\ TaskOK /\ Work \in Int
    BY InvParts, WorkTyped
  <2>2. Work' \in Int
    <3>1. /\ step' \in Steps /\ attempt' \in 0..(MaxRetries - 1)
          /\ replacing' \in BOOLEAN
      BY StepKeeps DEF IInv, TypeOK
    <3>2. Weight[step'] \in 0..5
      BY <3>1 DEF Steps, Weight
    <3> QED
      BY <3>1, <3>2 DEF Work
  <2>3. CASE Work' < Work
    BY <2>1, <2>2, <2>3
  <2>4. CASE UNCHANGED taskVars
    BY <2>1, <2>4 DEF taskVars, Work
  <2> QED
    BY <2>1, <2>3, <2>4, ClientLess, EndLess, OthersLeaveTask
<1> QED
  BY <1>1, <1>2, Invariance, PTL DEF Spec, WorkShrinks
============================================================================
