------------------------------- MODULE Topic -------------------------------
(***************************************************************************)
(* One streamline_topic resource: Terraform core runs one operation at a   *)
(* time, the provider's handler turns it into calls of StreamlineClient,   *)
(* the client retries them against a broker whose replies may be lost, and *)
(* administrators change the same topic behind Terraform's back.           *)
(*                                                                         *)
(* A step of the client that asks the broker something happens when the    *)
(* broker answers: what the handler does with the answer is local, so the  *)
(* environment moves between two questions and not inside one.             *)
(***************************************************************************)
EXTENDS TopicSettings, FiniteSets

CONSTANTS
  MaxPartitions,   \* bound on partition counts
  MaxRetries,      \* StreamlineClient.maxRetries
  MaxLate,         \* bound on requests still travelling after their timeout
  LaggingMetadata, \* may a broker answer metadata from an earlier moment?
  OmittedResults,  \* may CreatePartitions be answered without any result?
  Configs,         \* configurations a user may write
  LegacySettings   \* settings recorded by earlier releases of the provider

Partitions == 1..MaxPartitions
Config     == [parts : Partitions, set : Settings]

ASSUME TopicAssumption ==
  /\ MaxPartitions \in Nat \ {0}
  /\ MaxRetries \in Nat \ {0}
  /\ MaxLate \in Nat
  /\ LaggingMetadata \in BOOLEAN
  /\ OmittedResults \in BOOLEAN
  /\ Configs \subseteq Config
  /\ LegacySettings \subseteq KnownSettings

VARIABLES
  topic,      \* the broker's topic; no partitions: it does not exist
  stale,      \* partition counts a lagging broker may still report (0: none)
  late,       \* requests given up by the client that may still be executed
  record,     \* the resource in the Terraform state
  op,         \* the operation Terraform runs
  step,       \* where its handler stands
  attempt,    \* withRetry's attempt
  config,     \* the configuration being applied, or last applied
  replacing,  \* is this delete the first half of a replacement?
  last,       \* the last operation and how it ended
  bond        \* history: what the record owes to the topic that exists now

brokerVars == <<topic, stale>>
taskVars   == <<op, step, attempt, config, replacing, last>>
vars       == <<topic, stale, late, record, taskVars, bond>>

NoConf   == [k \in {} |-> Null]
NoTopic  == [parts |-> 0, conf |-> NoConf]
NoRecord == [exists |-> FALSE, parts |-> 0, set |-> NoSettings]
NoConfig == [parts |-> 0, set |-> NoSettings]
NoResult == [op |-> "none", result |-> "none"]

Exists == topic.parts > 0

TopicValue   == {NoTopic} \cup [parts : Partitions, conf : BrokerConf]
RecordValue  == {NoRecord} \cup
                [exists : {TRUE}, parts : Partitions, set : KnownSettings]
RequestValue ==
  [kind : {"create", "expand"}, parts : Partitions, conf : BrokerConf]
    \cup [kind : {"delete"}, parts : {0}, conf : {NoConf}]
Steps  == {"idle", "begin", "metadata", "listing", "controller", "request",
           "backoff"}
Ops    == {"none", "create", "read", "import", "update", "delete"}

TypeOK ==
  /\ topic \in TopicValue
  /\ stale \in SUBSET (0..MaxPartitions)
  /\ late \in SUBSET RequestValue
  /\ record \in RecordValue
  /\ op \in Ops
  /\ step \in Steps
  /\ attempt \in 0..(MaxRetries - 1)
  /\ config \in {NoConfig} \cup Config
  /\ replacing \in BOOLEAN
  /\ last \in [op : Ops, result : {"none", "ok", "failed", "invalid"}]
  /\ bond \in SUBSET {"created", "sized"}

Init ==
  /\ topic \in {NoTopic} \cup [parts : Partitions, conf : {NoConf}]
  /\ stale = {}
  /\ late = {}
  /\ record \in {NoRecord} \cup
       [exists : {TRUE}, parts : {topic.parts} \ {0}, set : LegacySettings]
  /\ op = "none"
  /\ step = "idle"
  /\ attempt = 0
  /\ config = NoConfig
  /\ replacing = FALSE
  /\ last = NoResult
  /\ bond = {}

----------------------------------------------------------------------------
(* The broker (external).                                                  *)

(* The topic changes; a broker that lags may go on reporting the old one.  *)
TopicBecomes(t) ==
  /\ topic' = t
  /\ stale' = IF LaggingMetadata THEN stale \cup {topic.parts} ELSE {}

(* The answer to a request, and the topic after it.                        *)
Answer(r) ==
  IF r.kind = "create" THEN IF Exists THEN "exists" ELSE "ok"
  ELSE IF ~Exists THEN "unknown"
  ELSE IF r.kind = "expand" /\ r.parts <= topic.parts THEN "invalid"
  ELSE "ok"

Effect(r) ==
  IF r.kind = "create" THEN [parts |-> r.parts, conf |-> r.conf]
  ELSE IF r.kind = "delete" THEN NoTopic
  ELSE [topic EXCEPT !.parts = r.parts]

Execute(r) ==
  IF Answer(r) = "ok" THEN TopicBecomes(Effect(r)) ELSE UNCHANGED brokerVars

(* What is left of the bond between record and topic once r is executed:   *)
(* only an expansion keeps the topic the same topic.                       *)
BondAfter(r) ==
  IF Answer(r) = "ok" /\ r.kind # "expand" THEN {} ELSE bond

(* The partition counts a metadata answer may show.                        *)
Visible == stale \cup {topic.parts}

----------------------------------------------------------------------------
(* The running operation.                                                  *)

Begin(o, s, c, r) ==
  /\ op = "none"
  /\ op' = o
  /\ step' = s
  /\ attempt' = 0
  /\ config' = c
  /\ replacing' = r
  /\ last' = NoResult

Finish(result) ==
  /\ op' = "none"
  /\ step' = "idle"
  /\ attempt' = 0
  /\ config' = IF op \in {"create", "update"} /\ result # "failed"
               THEN config ELSE NoConfig
  /\ replacing' = FALSE
  /\ last' = [op |-> op, result |-> result]

GoTo(s) ==
  /\ step' = s
  /\ UNCHANGED <<op, attempt, config, replacing, last>>

(* withRetry after a failed attempt: back off, or give up after the last.  *)
MoreAttemptsOffByOne == attempt < MaxRetries
MoreAttempts == attempt < MaxRetries - 1

AttemptFails ==
  \/ MoreAttempts /\ GoTo("backoff")
  \/ ~MoreAttempts /\ Finish("failed")

(* The first call of an attempt.                                           *)
FirstStep == IF op \in {"create", "delete"} THEN "controller" ELSE "metadata"

BackoffElapsesInPlace ==
  /\ step = "backoff"
  /\ GoTo(FirstStep)
  /\ UNCHANGED <<brokerVars, late, record, bond>>

BackoffElapses ==
  /\ step = "backoff"
  /\ attempt' = attempt + 1
  /\ step' = FirstStep
  /\ UNCHANGED <<op, config, replacing, last>>
  /\ UNCHANGED <<brokerVars, late, record, bond>>

(* The context is cancelled while withRetry sleeps.                        *)
BackoffCancelled ==
  /\ step = "backoff"
  /\ Finish("failed")
  /\ UNCHANGED <<brokerVars, late, record, bond>>

(* The provider process dies: whatever was sent has been dealt with as a   *)
(* timeout, and nothing is recorded.                                       *)
Killed ==
  /\ op # "none"
  /\ Finish("failed")
  /\ UNCHANGED <<brokerVars, late, record, bond>>

----------------------------------------------------------------------------
(* Terraform core starts an operation.                                     *)

Changed(c) ==
  \/ c.parts # record.parts
  \/ Proposed(c.set, record.set) # record.set

UpdatePlan(c) == PlanSettings(c.set, record.set, Changed(c))
CreatePlan(c) == PlanSettings(c.set, NoSettings, TRUE)

PlanKind(c) ==
  IF ~record.exists THEN "create"
  ELSE IF RequiresReplace(c.set, UpdatePlan(c), record.set) THEN "replace"
  ELSE IF c.parts # record.parts \/ UpdatePlan(c) # record.set THEN "update"
  ELSE "noop"

(* What the configuration c may turn out to be once everything it depends  *)
(* on has been applied.                                                    *)
Resolutions(c) ==
  {r \in Configs : /\ r.parts = c.parts
                   /\ \A a \in Attr : c.set[a] = Unknown \/ r.set[a] = c.set[a]
                   /\ WhollyKnown(r.set)}

StartCreate(c) ==
  /\ op = "none" /\ PlanKind(c) = "create"
  /\ Validated(c.set)
  /\ \E r \in Resolutions(c) : Begin("create", "begin", r, FALSE)
  /\ UNCHANGED <<brokerVars, late, record, bond>>

(* A configured setting that is unknown while planning forces replacement  *)
(* as well, so an update has nothing left to resolve.                      *)
StartUpdate(c) ==
  /\ op = "none" /\ PlanKind(c) = "update"
  /\ Validated(c.set) /\ WhollyKnown(c.set)
  /\ Begin("update", "begin", c, FALSE)
  /\ UNCHANGED <<brokerVars, late, record, bond>>

StartReplace(c) ==
  /\ op = "none" /\ PlanKind(c) = "replace"
  /\ Validated(c.set)
  /\ \E r \in Resolutions(c) : Begin("delete", "controller", r, TRUE)
  /\ UNCHANGED <<brokerVars, late, record, bond>>

StartDestroy ==
  /\ record.exists
  /\ Begin("delete", "controller", NoConfig, FALSE)
  /\ UNCHANGED <<brokerVars, late, record, bond>>

StartRefresh ==
  /\ record.exists
  /\ Begin("read", "metadata", NoConfig, FALSE)
  /\ UNCHANGED <<brokerVars, late, record, bond>>

(* ImportState only passes the name through; core then calls Read.         *)
StartImport ==
  /\ ~record.exists
  /\ Begin("import", "metadata", NoConfig, FALSE)
  /\ UNCHANGED <<brokerVars, late, record, bond>>

----------------------------------------------------------------------------
(* The heads of Create and Update.                                         *)

CreateRejects ==
  /\ op = "create" /\ step = "begin"
  /\ Rejected(config.set, CreatePlan(config))
  /\ Finish("failed")
  /\ UNCHANGED <<brokerVars, late, record, bond>>

CreateSends ==
  /\ op = "create" /\ step = "begin"
  /\ ~Rejected(config.set, CreatePlan(config))
  /\ GoTo("controller")
  /\ UNCHANGED <<brokerVars, late, record, bond>>

UpdateRejectsDecrease ==
  /\ op = "update" /\ step = "begin"
  /\ config.parts < record.parts
  /\ Finish("failed")
  /\ UNCHANGED <<brokerVars, late, record, bond>>

UpdateReads ==
  /\ op = "update" /\ step = "begin"
  /\ config.parts >= record.parts
  /\ GoTo("metadata")
  /\ UNCHANGED <<brokerVars, late, record, bond>>

----------------------------------------------------------------------------
(* The ends of the handlers.                                               *)

Recorded(parts, set) == [exists |-> TRUE, parts |-> parts, set |-> set]

(* Create clears the unknowns and records the request it made.             *)
CreateRecords ==
  LET set == ClearUnknown(CreatePlan(config))
  IN  /\ record' = Recorded(config.parts, UnknownAsNull(set))
      /\ bond' = {"created", "sized"}
      /\ Finish(IF WhollyKnown(set) THEN "ok" ELSE "invalid")

(* Mutant of UpdateRecords: the prior state is stored, not the plan.       *)
UpdateRecordsState(owed) == record' = record /\ bond' = owed /\ Finish("ok")

(* Update records the plan as it stands; core stores its unknowns as null  *)
(* and reports an invalid result.                                          *)
UpdateRecords(owed) ==
  LET set == UpdatePlan(config)
  IN  /\ record' = Recorded(config.parts, UnknownAsNull(set))
      /\ bond' = owed
      /\ Finish(IF WhollyKnown(set) THEN "ok" ELSE "invalid")

(* Read refreshes the partition count and leaves the settings alone.       *)
ReadRecords(n, owed) ==
  /\ record' = [record EXCEPT !.exists = TRUE, !.parts = n]
  /\ bond' = owed
  /\ Finish("ok")

(* The record is dropped; a replacement goes on to create.                 *)
DeleteRecords ==
  /\ record' = NoRecord
  /\ bond' = {}
  /\ \/ ~replacing /\ Finish("ok")
     \/ /\ replacing
        /\ op' = "create" /\ step' = "begin" /\ attempt' = 0
        /\ replacing' = FALSE
        /\ UNCHANGED <<config, last>>

----------------------------------------------------------------------------
(* Metadata: GetTopic, ListTopics and resolveControllerAddr.               *)

(* Any error: transport, authorization, an empty or malformed answer.      *)
MetadataFails ==
  /\ step \in {"metadata", "listing", "controller"}
  /\ AttemptFails
  /\ UNCHANGED <<brokerVars, late, record, bond>>

ControllerResolved ==
  /\ step = "controller"
  /\ GoTo("request")
  /\ UNCHANGED <<brokerVars, late, record, bond>>

(* What the record owes to the topic once it holds a count read as n.      *)
Sized(n) == IF n = topic.parts THEN bond \cup {"sized"} ELSE bond \ {"sized"}

ReadFinds(n) ==
  /\ op \in {"read", "import"} /\ step = "metadata"
  /\ n \in Visible \ {0}
  /\ ReadRecords(n, Sized(n))
  /\ UNCHANGED <<brokerVars, late>>

(* Mutant of EnoughPartitions: the comparison is forgotten.                *)
AlwaysEnough(n) == TRUE

(* UpdateTopic adds partitions only if the topic has fewer than asked.     *)
EnoughPartitions(n) == config.parts <= n

UpdateFindsEnough(n) ==
  /\ op = "update" /\ step = "metadata"
  /\ n \in Visible \ {0}
  /\ EnoughPartitions(n)
  /\ UpdateRecords(Sized(n))
  /\ UNCHANGED <<brokerVars, late>>

UpdateFindsFewer(n) ==
  /\ op = "update" /\ step = "metadata"
  /\ n \in Visible \ {0}
  /\ ~EnoughPartitions(n)
  /\ GoTo("request")
  /\ UNCHANGED <<brokerVars, late, record, bond>>

(* The topic's own metadata may miss it while metadata converges.          *)
MetadataUnknown ==
  /\ step = "metadata"
  /\ GoTo("listing")
  /\ UNCHANGED <<brokerVars, late, record, bond>>

(* classifyUnknownTopic: the listing of all topics shows it after all.     *)
ListingShows ==
  /\ step = "listing"
  /\ Visible # {0}
  /\ AttemptFails
  /\ UNCHANGED <<brokerVars, late, record, bond>>

(* Mutant of AbsenceConfirmed: an unknown-topic answer is taken as final.  *)
AbsenceAssumed == TRUE

(* The listing does not show it: the absence is confirmed, a NotFoundError *)
(* that withRetry does not retry.                                          *)
AbsenceConfirmed == 0 \in Visible

ListingConfirms ==
  /\ step = "listing"
  /\ AbsenceConfirmed
  /\ \/ /\ op = "read"
        /\ record' = NoRecord
        /\ bond' = {}
        /\ Finish("ok")
     \/ op = "delete" /\ DeleteRecords
     \/ /\ op \in {"import", "update"}
        /\ Finish("failed")
        /\ UNCHANGED <<record, bond>>
  /\ UNCHANGED <<brokerVars, late>>

----------------------------------------------------------------------------
(* CreateTopics, DeleteTopics and CreatePartitions.                        *)

Request ==
  IF op = "create"
  THEN [kind |-> "create", parts |-> config.parts,
        conf |-> BuildConfig(CreatePlan(config))]
  ELSE IF op = "delete"
  THEN [kind |-> "delete", parts |-> 0, conf |-> NoConf]
  ELSE [kind |-> "expand", parts |-> config.parts, conf |-> NoConf]

(* CreatePartitions stands outside of withRetry.                           *)
RequestFails == IF op = "update" THEN Finish("failed") ELSE AttemptFails

(* Mutant of Accepted: a topic that exists already counts as created.      *)
AcceptedOrExists(answer) == answer \in {"ok", "exists"}

(* requireSingleNamedResult wants exactly one result, for the topic and    *)
(* without an error; UpdateTopic only looks for errors.                    *)
Accepted(answer) == answer = "ok"

RequestSucceeds ==
  /\ step = "request"
  /\ Accepted(Answer(Request))
  /\ Execute(Request)
  /\ \/ op = "create" /\ CreateRecords
     \/ op = "delete" /\ DeleteRecords
     \/ op = "update" /\ UpdateRecords(bond \cup {"sized"})
  /\ UNCHANGED late

(* An answer of CreatePartitions that names no topic at all holds no error *)
(* either, so Update goes on as if the partitions had been added.          *)
ExpansionUnanswered ==
  /\ OmittedResults
  /\ op = "update" /\ step = "request"
  /\ UpdateRecords(bond \ {"sized"})
  /\ UNCHANGED <<brokerVars, late>>

(* An error result: the topic exists, or has that many partitions already. *)
RequestRefused ==
  /\ step = "request"
  /\ op \in {"create", "update"}
  /\ ~Accepted(Answer(Request))
  /\ RequestFails
  /\ UNCHANGED <<brokerVars, late, record, bond>>

(* DeleteTopics answers UnknownTopicOrPartition, rightly or not.           *)
DeleteUnknown ==
  /\ op = "delete" /\ step = "request"
  /\ GoTo("listing")
  /\ UNCHANGED <<brokerVars, late, record, bond>>

(* No usable answer.  The request was executed and its reply lost, ...     *)
ReplyLost ==
  /\ step = "request"
  /\ Execute(Request)
  /\ bond' = BondAfter(Request)
  /\ RequestFails
  /\ UNCHANGED <<late, record>>

(* ... or it was never executed, ...                                       *)
RequestLost ==
  /\ step = "request"
  /\ RequestFails
  /\ UNCHANGED <<brokerVars, late, record, bond>>

(* ... or it is still on its way.                                          *)
RequestDelayed ==
  /\ step = "request"
  /\ Cardinality(late) < MaxLate
  /\ late' = late \cup {Request}
  /\ RequestFails
  /\ UNCHANGED <<brokerVars, record, bond>>

----------------------------------------------------------------------------
(* The environment.                                                        *)

LateArrives(r) ==
  /\ r \in late
  /\ late' = late \ {r}
  /\ Execute(r)
  /\ bond' = BondAfter(r)
  /\ UNCHANGED <<record, taskVars>>

LateDropped(r) ==
  /\ r \in late
  /\ late' = late \ {r}
  /\ UNCHANGED <<brokerVars, record, taskVars, bond>>

(* An administrator, or another Terraform state, works on the same name.   *)
AdminCreates(n) ==
  /\ ~Exists
  /\ TopicBecomes([parts |-> n, conf |-> NoConf])
  /\ bond' = {}
  /\ UNCHANGED <<late, record, taskVars>>

AdminDeletes ==
  /\ Exists
  /\ TopicBecomes(NoTopic)
  /\ bond' = {}
  /\ UNCHANGED <<late, record, taskVars>>

AdminExpands(n) ==
  /\ Exists /\ n > topic.parts
  /\ TopicBecomes([topic EXCEPT !.parts = n])
  /\ UNCHANGED <<late, record, taskVars, bond>>

MetadataConverges ==
  /\ stale # {}
  /\ stale' = {}
  /\ UNCHANGED <<topic, late, record, taskVars, bond>>

----------------------------------------------------------------------------

ClientStep ==
  \/ CreateRejects \/ CreateSends
  \/ UpdateRejectsDecrease \/ UpdateReads
  \/ MetadataFails \/ ControllerResolved
  \/ \E n \in Partitions :
       ReadFinds(n) \/ UpdateFindsEnough(n) \/ UpdateFindsFewer(n)
  \/ MetadataUnknown \/ ListingShows \/ ListingConfirms
  \/ RequestSucceeds \/ ExpansionUnanswered \/ RequestRefused \/ DeleteUnknown
  \/ ReplyLost \/ RequestLost \/ RequestDelayed
  \/ BackoffElapses \/ BackoffCancelled

CoreStep ==
  \/ \E c \in Configs : StartCreate(c) \/ StartUpdate(c) \/ StartReplace(c)
  \/ StartDestroy \/ StartRefresh \/ StartImport

EnvironmentStep ==
  \/ Killed
  \/ \E r \in late : LateArrives(r) \/ LateDropped(r)
  \/ \E n \in Partitions : AdminCreates(n) \/ AdminExpands(n)
  \/ AdminDeletes
  \/ MetadataConverges

Next == ClientStep \/ CoreStep \/ EnvironmentStep

(* Every call of the client is bounded by kafka.Client.Timeout and every   *)
(* backoff by its timer, so the client keeps moving.  Nothing obliges      *)
(* users, administrators or the network to do anything.                    *)
Fairness == WF_vars(ClientStep)

Spec     == Init /\ [][Next]_vars
FairSpec == Spec /\ Fairness

----------------------------------------------------------------------------
(* Properties.                                                             *)

(* As long as the topic is the one this record's Create made, the recorded *)
(* create-time settings are exactly the ones the broker was given: nothing *)
(* can be read back, so no refresh would ever repair a difference.         *)
SettingsFaithful ==
  "created" \in bond => /\ record.exists
                        /\ BuildConfig(record.set) = topic.conf

(* The recorded partition count never exceeds that of the topic it was     *)
(* learned from: a record that overstates would make Terraform believe in  *)
(* partitions nobody added.                                                *)
PartitionsNotOverstated ==
  "sized" \in bond => record.exists /\ record.parts <= topic.parts

(* Right after an apply that recorded something, planning the same         *)
(* configuration again changes nothing: no perpetual difference, and no    *)
(* second replacement of the topic that was just made.                     *)
ApplyConverges ==
  (last.op \in {"create", "update"} /\ last.result \in {"ok", "invalid"})
    => PlanKind(config) = "noop"

(* Whatever is unknown while planning, the request Create sends says every *)
(* broker key once: the map never overwrites a dedicated attribute.        *)
RequestUnambiguous ==
  (op = "create" /\ step # "begin")
    => LET plan == CreatePlan(config)
       IN  plan["config"] \in Absent
             \/ \A a \in Dedicated \cap DOMAIN plan["config"] : plan[a] = Unknown

(* Create records a topic only if that very request made it, with the      *)
(* partitions and settings asked for: somebody else's topic of that name,  *)
(* or the leftover of an earlier attempt, is never adopted.                *)
CreateNeverAdopts ==
  [][(op = "create" /\ ~record.exists /\ record'.exists) =>
       /\ ~Exists
       /\ topic'.parts = config.parts
       /\ topic'.conf = BuildConfig(CreatePlan(config))]_vars

(* Whatever the errors on the way, a record is dropped only when the topic *)
(* is gone.                                                                *)
DropOnlyIfAbsent ==
  [][(record.exists /\ ~record'.exists) => ~Exists']_vars

(* What Create hands to Terraform has no unknown value left, so core never *)
(* rejects a topic that was created.                                       *)
CreateResultWhollyKnown == last.op = "create" => last.result # "invalid"

(* The same of Update: an in-place partition increase is a valid result.   *)
UpdateResultWhollyKnown == last.op = "update" => last.result # "invalid"

(* A replacement whose new configuration Create refuses leaves the topic   *)
(* and its record alone.                                                   *)
RejectedBeforeDelete ==
  [][(replacing /\ record.exists /\ ~record'.exists)
       => ~Rejected(config.set, CreatePlan(config))]_vars

(* Topic implements the contract: forget the handler's position and the    *)
(* network, and read the recorded settings as the request they amount to.  *)
AppliedConf(set) ==
  LET sent == BuildConfig(set) IN [k \in DOMAIN sent \ Legacy |-> sent[k]]

View(r) == [exists |-> r.exists, parts |-> r.parts, conf |-> AppliedConf(r.set)]

Contract == INSTANCE TopicContract WITH
              record <- View(record), NoRecord <- View(NoRecord)

(* Every step of handler, client and broker is a step of the contract.     *)
ImplementsContract == Contract!Spec

(* An operation that begins ends, whatever is lost on the way: the retries *)
(* are bounded and a confirmed absence is not retried.                     *)
OperationsEnd == op # "none" ~> op = "none"

(* What is left to do at most: the attempts to come, the way to the end of *)
(* this one, and a creation that is still to follow a deletion.            *)
Weight == [idle |-> 0, backoff |-> 1, listing |-> 2, request |-> 3,
           controller |-> 4, metadata |-> 4, begin |-> 5]
Work ==
  IF op = "none" THEN 0
  ELSE 5 * (MaxRetries - attempt) + Weight[step]
         + (IF replacing THEN 5 * MaxRetries ELSE 0)

(* Nothing that happens while an operation runs gives it more to do, and   *)
(* every step of its handler leaves it less: whatever brokers answer, an   *)
(* operation takes a bounded number of requests and backoffs, over both    *)
(* halves of a replacement.                                                *)
WorkShrinks ==
  [][op # "none" => /\ Work' <= Work
                    /\ taskVars' # taskVars => Work' < Work]_vars

----------------------------------------------------------------------------
(* The inductive invariant.                                                *)

(* What a handler knows while it runs: the record it started from has not  *)
(* changed, so neither has the plan it carries out.                        *)
TaskOK ==
  /\ op = "none" <=> step = "idle"
  /\ op \in {"create", "import"} => ~record.exists
  /\ op \in {"read", "update", "delete"} => record.exists
  /\ (op \in {"create", "update"} \/ replacing)
       => config \in Config /\ WhollyKnown(config.set)
  /\ replacing => op = "delete"
  /\ op = "update" => PlanKind(config) = "update"
  /\ (op = "update" /\ step # "begin") => record.parts <= config.parts
  /\ (op = "create" /\ step # "begin")
       => ~Rejected(config.set, CreatePlan(config))
  /\ step = "begin" => op \in {"create", "update"}
  /\ step = "metadata" => op \in {"read", "import", "update"}
  /\ step = "listing" => op # "create"
  /\ step = "controller" => op \in {"create", "delete"}
  /\ step = "request" => op \in {"create", "update", "delete"}
  /\ step = "backoff" => attempt + 1 < MaxRetries

(* A record bound to the topic it describes: it is there, and so is the    *)
(* topic; a record that Create made holds no legacy setting.               *)
BondOK ==
  /\ bond # {} => record.exists /\ Exists
  /\ "created" \in bond => \A a \in Legacy : record.set[a] = Null
  /\ ~LaggingMetadata => stale = {}

(* Everything that SettingsFaithful and PartitionsNotOverstated rest on.   *)
IInv ==
  /\ TypeOK
  /\ TaskOK
  /\ BondOK
  /\ SettingsFaithful
  /\ PartitionsNotOverstated
============================================================================
