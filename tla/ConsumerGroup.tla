---------------------------- MODULE ConsumerGroup ----------------------------
(***************************************************************************)
(* One legacy streamline_consumer_group resource, and the data source that *)
(* shares its client.  Applications create and use the group, one broker   *)
(* of the cluster coordinates it, and any broker may answer that no        *)
(* coordinator is available: the client then lists the groups of every     *)
(* advertised broker, one after the other, before it believes that the     *)
(* group is gone.                                                          *)
(***************************************************************************)
EXTENDS Integers, FiniteSets

CONSTANTS
  Servers,     \* the brokers of the cluster
  MaxRetries,  \* StreamlineClient.maxRetries
  MaxLate      \* bound on deletions still travelling after their timeout

ASSUME GroupAssumption ==
  /\ Servers # {} /\ IsFiniteSet(Servers)
  /\ MaxRetries \in Nat \ {0}
  /\ MaxLate \in Nat

VARIABLES
  group,        \* the group: absent, empty, or in use by applications
  coordinator,  \* the broker that holds the group, or would
  late,         \* how many deletions the client gave up may still be executed
  record,       \* the recorded state of the group, or "none"
  op,           \* the operation Terraform runs
  step,         \* where its handler stands
  attempt,      \* withRetry's attempt
  replacing,    \* is this delete the first half of a replacement?
  asked,        \* the broker FindCoordinator named, if any
  pending,      \* advertised brokers whose listing is still to come
  present,      \* did a listing show the group?
  failed,       \* did a listing fail?
  seen          \* history: what happened to the group during this attempt

clusterVars == <<group, coordinator>>
callVars    == <<asked, pending, present, failed>>
taskVars    == <<op, step, attempt, replacing, callVars>>
vars        == <<clusterVars, late, record, taskVars, seen>>

Exists == group # "absent"

TypeOK ==
  /\ group \in {"absent", "empty", "active"}
  /\ coordinator \in Servers
  /\ late \in 0..MaxLate
  /\ record \in {"none", "empty", "active"}
  /\ op \in {"none", "create", "read", "import", "data", "delete"}
  /\ step \in {"idle", "refuse", "find", "request", "metadata", "listing",
               "backoff"}
  /\ attempt \in 0..(MaxRetries - 1)
  /\ replacing \in BOOLEAN
  /\ asked \in SUBSET Servers
  /\ pending \in SUBSET Servers
  /\ present \in BOOLEAN
  /\ failed \in BOOLEAN
  /\ seen \in SUBSET {"absent", "moved"}

(* A record is what an earlier release, or an import, left behind.         *)
Init ==
  /\ group \in {"absent", "empty", "active"}
  /\ coordinator \in Servers
  /\ late = 0
  /\ record \in {"none", group} \ {"absent"}
  /\ op = "none" /\ step = "idle" /\ attempt = 0 /\ replacing = FALSE
  /\ asked = {} /\ pending = {}
  /\ present = FALSE /\ failed = FALSE
  /\ seen = {}

----------------------------------------------------------------------------
(* The running operation.                                                  *)

(* What an attempt has seen when it begins.                                *)
Outset == IF Exists THEN {} ELSE {"absent"}

Begin(o, s, r) ==
  /\ op = "none"
  /\ op' = o
  /\ step' = s
  /\ replacing' = r
  /\ seen' = Outset
  /\ UNCHANGED <<clusterVars, late, record, attempt, callVars>>

(* The handler returns; what its calls left behind does not matter more.   *)
Finish ==
  /\ op' = "none" /\ step' = "idle" /\ attempt' = 0 /\ replacing' = FALSE
  /\ asked' = {} /\ pending' = {}
  /\ present' = FALSE /\ failed' = FALSE

GoTo(s) == step' = s /\ UNCHANGED <<op, attempt, replacing, callVars>>

(* withRetry after a failed attempt: back off, or give up after the last.  *)
MoreAttemptsOffByOne == attempt < MaxRetries
MoreAttempts == attempt < MaxRetries - 1

AttemptFails ==
  \/ MoreAttempts /\ GoTo("backoff")
  \/ ~MoreAttempts /\ Finish

(* Mutant of BackoffElapses: the attempts are not counted.                 *)
BackoffElapsesInPlace ==
  /\ step = "backoff"
  /\ GoTo("find")
  /\ seen' = Outset
  /\ UNCHANGED <<clusterVars, late, record>>

(* The next attempt asks for the coordinator again.                        *)
BackoffElapses ==
  /\ step = "backoff"
  /\ attempt' = attempt + 1
  /\ step' = "find"
  /\ seen' = Outset
  /\ UNCHANGED <<op, replacing, callVars, clusterVars, late, record>>

(* The context is cancelled while withRetry sleeps, or the provider dies.  *)
Killed ==
  /\ op # "none"
  /\ Finish
  /\ UNCHANGED <<clusterVars, late, record, seen>>

----------------------------------------------------------------------------
(* Terraform core starts an operation.  Nothing but group_id can be        *)
(* configured, and a change of it replaces.                                *)

Recorded == record # "none"

StartCreate  == ~Recorded /\ Begin("create", "refuse", FALSE)
StartRefresh == Recorded  /\ Begin("read", "find", FALSE)
StartImport  == ~Recorded /\ Begin("import", "find", FALSE)
StartDataSource == Begin("data", "find", FALSE)
StartDestroy == Recorded  /\ Begin("delete", "find", FALSE)
StartReplace == Recorded  /\ Begin("delete", "find", TRUE)

(* Create only reports that applications create groups.                    *)
CreateRefused ==
  /\ step = "refuse"
  /\ Finish
  /\ UNCHANGED <<clusterVars, late, record, seen>>

----------------------------------------------------------------------------
(* The ends of the handlers.                                               *)

(* DescribeConsumerGroup returned: Read and ImportState record what it     *)
(* reports, the data source hands it on.                                   *)
Described ==
  /\ record' = IF op = "data" THEN record ELSE group
  /\ Finish

(* A NotFoundError: handleReadError drops the record, handleDeleteError    *)
(* takes it for success, import and data source report it.                 *)
NotFound ==
  \/ /\ op \in {"read", "delete"} /\ ~replacing
     /\ record' = "none"
     /\ Finish
  \/ /\ replacing
     /\ record' = "none"
     /\ op' = "create" /\ step' = "refuse" /\ attempt' = 0
     /\ replacing' = FALSE
     /\ UNCHANGED callVars
  \/ /\ op \in {"import", "data"}
     /\ Finish
     /\ UNCHANGED record

----------------------------------------------------------------------------
(* FindCoordinator, then DescribeGroups or DeleteGroups.                   *)

(* Any call without a usable answer: transport, authorization, an empty or *)
(* incomplete response, a broker that is not the coordinator, a group that *)
(* is still in use.  In metadata and listing it makes the confirmation     *)
(* fail.                                                                   *)
CallFails ==
  /\ step \in {"find", "request", "metadata"}
  /\ AttemptFails
  /\ UNCHANGED <<clusterVars, late, record, seen>>

(* The bootstrap broker may know an earlier coordinator.                   *)
CoordinatorFound(b) ==
  /\ step = "find"
  /\ asked' = {b}
  /\ step' = "request"
  /\ UNCHANGED <<op, attempt, replacing, pending, present, failed>>
  /\ UNCHANGED <<clusterVars, late, record, seen>>

(* Only the coordinator speaks for the group.                              *)
AtCoordinator == step = "request" /\ asked = {coordinator}

DescribeFinds ==
  /\ AtCoordinator /\ op # "delete" /\ Exists
  /\ Described
  /\ UNCHANGED <<clusterVars, late, seen>>

(* GroupIdNotFound.                                                        *)
RequestNotFound ==
  /\ AtCoordinator /\ ~Exists
  /\ NotFound
  /\ UNCHANGED <<clusterVars, late, seen>>

(* The group disappears, at whoever's request.                             *)
GroupGoes ==
  /\ group' = "absent"
  /\ seen' = seen \cup {"absent"}
  /\ UNCHANGED coordinator

(* A coordinator deletes a group that nobody uses.                         *)
Deletable == group = "empty"

DeleteSucceeds ==
  /\ AtCoordinator /\ op = "delete" /\ Deletable
  /\ GroupGoes
  /\ NotFound
  /\ UNCHANGED late

(* No usable answer: the deletion was executed and its reply lost, ...     *)
ReplyLost ==
  /\ AtCoordinator /\ op = "delete" /\ Deletable
  /\ GroupGoes
  /\ AttemptFails
  /\ UNCHANGED <<late, record>>

(* ... or it is still on its way.                                          *)
RequestDelayed ==
  /\ step = "request" /\ op = "delete" /\ late < MaxLate
  /\ late' = late + 1
  /\ AttemptFails
  /\ UNCHANGED <<clusterVars, record, seen>>

(* Mutant of Believed: the error is taken for the absence of the group.    *)
BelievedAtOnce == step = "request"

(* Every advertised broker answered, and none showed the group.            *)
Believed == step = "listing" /\ pending = {} /\ ~failed /\ ~present

(* CoordinatorNotAvailable, of any broker and for any group.               *)
CoordinatorUnavailable ==
  /\ step = "request"
  /\ GoTo("metadata")
  /\ UNCHANGED <<clusterVars, late, record, seen>>

----------------------------------------------------------------------------
(* consumerGroupPresentOnAnyBroker.                                        *)

(* The metadata answer may not advertise the broker that coordinates.      *)
BrokersAdvertised(A) ==
  /\ step = "metadata"
  /\ A # {}
  /\ pending' = A
  /\ present' = FALSE /\ failed' = FALSE
  /\ step' = "listing"
  /\ seen' = seen \cup {w \in {"moved"} : coordinator \notin A}
  /\ UNCHANGED <<op, attempt, replacing, asked, clusterVars, late, record>>

(* A broker lists the groups it coordinates.                               *)
Listed(b) == Exists /\ b = coordinator

(* Mutant of ListingShows: the last answer decides.                        *)
ShownByLast(b) == present' = Listed(b)

(* One broker that shows the group is enough.                              *)
ListingShows(b) == present' = (present \/ Listed(b))

ListingAnswered(b) ==
  /\ step = "listing" /\ b \in pending
  /\ pending' = pending \ {b}
  /\ ListingShows(b)
  /\ UNCHANGED <<op, step, attempt, replacing, asked, failed>>
  /\ UNCHANGED <<clusterVars, late, record, seen>>

(* The other brokers are asked all the same, but nothing is confirmed.     *)
ListingFails(b) ==
  /\ step = "listing" /\ b \in pending
  /\ pending' = pending \ {b}
  /\ failed' = TRUE
  /\ UNCHANGED <<op, step, attempt, replacing, asked, present>>
  /\ UNCHANGED <<clusterVars, late, record, seen>>

(* classifyCoordinatorUnavailable.                                         *)
AbsenceConfirmed ==
  /\ Believed
  /\ NotFound
  /\ UNCHANGED <<clusterVars, late, seen>>

AbsenceNotConfirmed ==
  /\ step = "listing" /\ pending = {}
  /\ failed \/ present
  /\ AttemptFails
  /\ UNCHANGED <<clusterVars, late, record, seen>>

----------------------------------------------------------------------------
(* The environment.                                                        *)

LateArrives ==
  /\ late > 0
  /\ late' = late - 1
  /\ IF Deletable THEN GroupGoes ELSE UNCHANGED <<clusterVars, seen>>
  /\ UNCHANGED <<record, taskVars>>

LateDropped ==
  /\ late > 0
  /\ late' = late - 1
  /\ UNCHANGED <<clusterVars, record, taskVars, seen>>

(* Applications join, which creates the group, and leave.                  *)
MembersJoin ==
  /\ group # "active"
  /\ group' = "active"
  /\ UNCHANGED <<coordinator, late, record, taskVars, seen>>

MembersLeave ==
  /\ group = "active"
  /\ group' = "empty"
  /\ UNCHANGED <<coordinator, late, record, taskVars, seen>>

(* The group expires, or an administrator deletes it.                      *)
GroupExpires ==
  /\ Deletable
  /\ GroupGoes
  /\ UNCHANGED <<late, record, taskVars>>

(* Another broker takes over.                                              *)
CoordinatorMoves(b) ==
  /\ b # coordinator
  /\ coordinator' = b
  /\ seen' = seen \cup {"moved"}
  /\ UNCHANGED <<group, late, record, taskVars>>

----------------------------------------------------------------------------

ClientStep ==
  \/ CreateRefused
  \/ CallFails
  \/ \E b \in Servers : CoordinatorFound(b)
  \/ DescribeFinds \/ RequestNotFound \/ DeleteSucceeds
  \/ ReplyLost \/ RequestDelayed \/ CoordinatorUnavailable
  \/ \E A \in SUBSET Servers : BrokersAdvertised(A)
  \/ \E b \in Servers : ListingAnswered(b) \/ ListingFails(b)
  \/ AbsenceConfirmed \/ AbsenceNotConfirmed
  \/ BackoffElapses

CoreStep ==
  \/ StartCreate \/ StartRefresh \/ StartImport \/ StartDataSource
  \/ StartDestroy \/ StartReplace

EnvironmentStep ==
  \/ Killed
  \/ LateArrives \/ LateDropped
  \/ MembersJoin \/ MembersLeave \/ GroupExpires
  \/ \E b \in Servers : CoordinatorMoves(b)

Next == ClientStep \/ CoreStep \/ EnvironmentStep

(* Calls are bounded by the client's timeout and backoffs by their timer.  *)
Spec     == Init /\ [][Next]_vars
FairSpec == Spec /\ WF_vars(ClientStep)

----------------------------------------------------------------------------
(* Properties.                                                             *)

(* A record is dropped, by a refresh or as deleted, only if there was a    *)
(* moment within the attempt that decided it at which the group did not    *)
(* exist.  The listings of several brokers are no snapshot, but they may   *)
(* only be wrong if the group changed its coordinator between them, or if  *)
(* its coordinator was not advertised.                                     *)
DropOnlyIfAbsent ==
  [][(Recorded /\ ~Recorded') => seen' # {}]_vars

(* ConsumerGroup implements the contract: forget which brokers were asked, *)
(* what they answered and how often, and keep whether the attempt saw, or  *)
(* could have missed, the group.                                           *)
Contract == INSTANCE GroupContract WITH missed <- (seen # {})

(* Every step of handler, client and cluster is a step of the contract.    *)
ImplementsContract == Contract!Spec

(* An operation that begins ends, whichever brokers fail and however often *)
(* they contradict each other.                                             *)
OperationsEnd == op # "none" ~> op = "none"

(* What is left to do at most: the attempts to come, each with a listing   *)
(* of every broker, the way to the end of this one, and a creation that is *)
(* still to follow a deletion.                                             *)
Weight(s) ==
  CASE s = "find"     -> Cardinality(Servers) + 5
    [] s = "request"  -> Cardinality(Servers) + 4
    [] s = "metadata" -> Cardinality(Servers) + 3
    [] s = "listing"  -> Cardinality(pending) + 2
    [] OTHER          -> 1

AttemptWork == Cardinality(Servers) + 5
Work ==
  IF op = "none" THEN 0
  ELSE AttemptWork * (MaxRetries - attempt) + Weight(step)
         + (IF replacing THEN AttemptWork * MaxRetries ELSE 0)

(* Nothing that happens while an operation runs gives it more to do, and   *)
(* every step of its handler leaves it less: however brokers contradict    *)
(* each other, an operation takes a bounded number of requests, listings   *)
(* and backoffs.                                                           *)
WorkShrinks ==
  [][op # "none" => /\ Work' <= Work
                    /\ taskVars' # taskVars => Work' < Work]_vars

----------------------------------------------------------------------------
(* The inductive invariant.                                                *)

(* Where each operation stands.                                            *)
TaskOK ==
  /\ op = "none" <=> step = "idle"
  /\ op \in {"create", "import"} => ~Recorded
  /\ op \in {"read", "delete"} => Recorded
  /\ replacing => op = "delete"
  /\ op = "create" <=> step = "refuse"
  /\ op = "none" => attempt = 0
  /\ step = "backoff" => attempt + 1 < MaxRetries

(* The attempt remembers every absence, and a group that was there all     *)
(* along is either still to be listed, or was shown, or was hidden by a    *)
(* listing that failed.                                                    *)
SeenOK ==
  /\ op # "none" => Exists \/ "absent" \in seen
  /\ (step = "listing" /\ seen = {})
       => coordinator \in pending \/ present \/ failed

IInv == TypeOK /\ TaskOK /\ SeenOK
==============================================================================
