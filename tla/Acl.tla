-------------------------------- MODULE Acl --------------------------------
(***************************************************************************)
(* One streamline_acl resource: a single access-control entry, managed     *)
(* through a broker whose deletions go by filter.  The broker reads a      *)
(* wildcard in a filter as "any", and has pattern-type codes of its own    *)
(* for creations and for filters; deleting exactly one entry depends on    *)
(* what the provider validates, encodes and checks.                        *)
(*                                                                         *)
(* The value Any stands for "*" in resource_name and host, for "User:*" in *)
(* principal and for "all" in operation.  resource_type keeps only whether *)
(* the broker supports it, permission_type is matched exactly throughout   *)
(* and is left out.                                                        *)
(***************************************************************************)
EXTENDS Integers, FiniteSets

CONSTANTS
  Any,           \* the wildcard value of a field
  Null,          \* host left out of the configuration
  Entries,       \* entries users configure, administrators make, states hold
  MaxRetries,    \* StreamlineClient.maxRetries
  MaxLate,       \* bound on requests still travelling after their timeout
  Brokers        \* brokers the provider may be pointed at

Fields  == {"name", "principal", "host", "operation"}
IsEntry(e) ==
  /\ DOMAIN e = Fields \cup {"type", "pattern"}
  /\ e = [f \in DOMAIN e |-> e[f]]
  /\ e.type \in {"supported", "delegation_token"}
  /\ e.pattern \in {"literal", "prefixed", "match"}

ASSUME AclAssumption ==
  /\ Any # Null
  /\ \A e \in Entries : IsEntry(e) /\ \A f \in Fields : e[f] # Null
  /\ MaxRetries \in Nat \ {0}
  /\ MaxLate \in Nat
  /\ Brokers \subseteq [overlooks : SUBSET Fields, lite : BOOLEAN]

VARIABLES
  broker,     \* fields it may overlook in a filter; may its answers be empty?
  acls,       \* the entries it holds
  late,       \* requests given up by the client that may still be executed
  record,     \* the entry in the Terraform state, or NoEntry
  op,         \* the operation Terraform runs
  step,       \* where its handler stands
  attempt,    \* withRetry's attempt
  target,     \* the entry being created or imported, now or after the delete
  replacing,  \* is this delete the first half of a replacement?
  collateral  \* history: has this delete been shown to remove another entry?

brokerVars == <<broker, acls>>
taskVars   == <<op, step, attempt, target, replacing, collateral>>
vars       == <<brokerVars, late, record, taskVars>>

NoEntry == [type |-> "none"]
Held    == record # NoEntry

(* Entries a broker can hold: it creates literal and prefixed ones.        *)
Creatable == {e \in Entries : e.pattern # "match" /\ e.type = "supported"}

----------------------------------------------------------------------------
(* Validation and encoding.                                                *)

(* ValidateACLConfig: "match" has no code for creation or for a filter.    *)
Valid(e) == e.pattern # "match"

(* Mutant of ManagedValid: only the wildcards that planning knows.         *)
ValidAsPlanned(e) ==
  /\ Valid(e)
  /\ e.type # "delegation_token"
  /\ e.name # Any /\ e.host # Any

(* ValidateManagedACLConfig: what the broker can delete exactly.           *)
ManagedValid(e) ==
  /\ Valid(e)
  /\ e.type # "delegation_token"
  /\ \A f \in Fields : e[f] # Any

(* Mutant of both: the standard Kafka codes.                               *)
StandardCode(pattern) == IF pattern = "literal" THEN 3 ELSE 4

(* creationPatternTypeFromString.                                          *)
CreationCode(pattern) == IF pattern = "literal" THEN 4 ELSE 3

(* filterPatternTypeFromString.                                            *)
FilterCode(pattern) == IF pattern = "literal" THEN 2 ELSE 3

(* How the broker reads the code of a creation, ...                        *)
CreatedPattern(code) == IF code = 4 THEN "literal" ELSE "prefixed"

(* ... and of a filter, where it ignores code 4.                           *)
FilteredPatterns(code) ==
  IF code = 2 THEN {"literal"} ELSE IF code = 3 THEN {"prefixed"}
  ELSE {"literal", "prefixed"}

----------------------------------------------------------------------------
(* The broker (external).                                                  *)

CreateRequest(e) ==
  [kind |-> "create", entry |-> e, code |-> CreationCode(e.pattern)]
DeleteRequest(e) ==
  [kind |-> "delete", entry |-> e, code |-> FilterCode(e.pattern)]

RequestValue ==
  LET managed == {e \in Entries : ManagedValid(e)}
  IN  {CreateRequest(e) : e \in managed} \cup {DeleteRequest(e) : e \in managed}

Created(r) == [r.entry EXCEPT !.pattern = CreatedPattern(r.code)]

(* What a filter matches when the broker overlooks the fields o.           *)
Matched(r, o) ==
  {e \in acls : /\ e.type = r.entry.type
                /\ e.pattern \in FilteredPatterns(r.code)
                /\ \A f \in Fields \ o : r.entry[f] \in {Any, e[f]}}

(* The fields a broker overlooks are overlooked now and then.              *)
Overlooked == {{}, broker.overlooks}

(* Creating an entry that exists changes nothing.                          *)
Execute(r, o) ==
  /\ acls' = IF r.kind = "create" THEN acls \cup {Created(r)}
                                  ELSE acls \ Matched(r, o)
  /\ UNCHANGED broker

----------------------------------------------------------------------------

TypeOK ==
  /\ broker \in Brokers
  /\ acls \in SUBSET {e \in Entries : Valid(e)}
  /\ late \in SUBSET RequestValue
  /\ record \in {NoEntry} \cup Entries
  /\ op \in {"none", "create", "read", "import", "delete"}
  /\ step \in {"idle", "begin", "lookup", "describe", "request", "backoff"}
  /\ attempt \in 0..(MaxRetries - 1)
  /\ target \in {NoEntry} \cup Entries
  /\ replacing \in BOOLEAN
  /\ collateral \in BOOLEAN

(* Earlier releases also recorded broad entries.                           *)
Init ==
  /\ broker \in Brokers
  /\ acls \in SUBSET Creatable
  /\ late = {}
  /\ record \in {NoEntry} \cup acls
  /\ op = "none" /\ step = "idle" /\ attempt = 0
  /\ target = NoEntry /\ replacing = FALSE /\ collateral = FALSE

----------------------------------------------------------------------------
(* The running operation.                                                  *)

Begin(o, s, e, r) ==
  /\ op = "none"
  /\ op' = o
  /\ step' = s
  /\ attempt' = 0
  /\ target' = e
  /\ replacing' = r
  /\ UNCHANGED <<brokerVars, late, record, collateral>>

Finish ==
  /\ op' = "none" /\ step' = "idle" /\ attempt' = 0
  /\ target' = NoEntry /\ replacing' = FALSE /\ collateral' = FALSE

GoTo(s) == step' = s /\ UNCHANGED <<op, attempt, target, replacing>>

(* withRetry after a failed attempt: back off, or give up after the last.  *)
MoreAttemptsOffByOne == attempt < MaxRetries
MoreAttempts == attempt < MaxRetries - 1

AttemptFails(shown) ==
  \/ /\ MoreAttempts
     /\ GoTo("backoff")
     /\ collateral' = (collateral \/ shown)
  \/ ~MoreAttempts /\ Finish

(* Mutant of BackoffElapses: the attempts are not counted.                 *)
BackoffElapsesInPlace ==
  /\ step = "backoff"
  /\ GoTo("request")
  /\ UNCHANGED <<brokerVars, late, record, collateral>>

BackoffElapses ==
  /\ step = "backoff"
  /\ attempt' = attempt + 1
  /\ step' = "request"
  /\ UNCHANGED <<op, target, replacing, collateral>>
  /\ UNCHANGED <<brokerVars, late, record>>

(* The context is cancelled while withRetry sleeps, or the provider dies.  *)
Killed ==
  /\ op # "none"
  /\ Finish
  /\ UNCHANGED <<brokerVars, late, record>>

----------------------------------------------------------------------------
(* Planning.  A configuration is an entry whose host may be left out.      *)

Configs == Entries \cup {[e EXCEPT !.host = Null] : e \in Entries}

(* An unconfigured host keeps the recorded one.                            *)
Planned(c) ==
  IF c.host = Null /\ Held THEN [c EXCEPT !.host = record.host] ELSE c

(* managedACLValuePlanModifier, against a prior state: a new wildcard is   *)
(* refused, and a host that nothing provides.                              *)
NewWildcard(c, prior) ==
  \E f \in {"name", "host"} : c[f] = Any /\ (prior = NoEntry \/ prior[f] # Any)
HostMissing(c, prior) == c.host = Null /\ prior = NoEntry

Refused(c, prior) == NewWildcard(c, prior) \/ HostMissing(c, prior)

(* hasUnsafeLegacyACLWildcard: name and host, but neither principal nor    *)
(* operation.                                                              *)
LegacyWildcard(e) == e.name = Any \/ e.host = Any

StartCreate(c) ==
  /\ ~Held
  /\ ~Refused(c, NoEntry)
  /\ Begin("create", "begin", c, FALSE)

(* Any difference replaces.  Core plans a replacement twice, the second    *)
(* time as if there were no prior state.                                   *)
StartReplace(c) ==
  /\ Held /\ Planned(c) # record
  /\ ~Refused(c, record) /\ ~Refused(c, NoEntry)
  /\ ~LegacyWildcard(record)
  /\ Begin("delete", "begin", c, TRUE)

StartDestroy ==
  /\ Held /\ ~LegacyWildcard(record)
  /\ Begin("delete", "begin", NoEntry, FALSE)

StartRefresh == Held /\ Begin("read", "describe", NoEntry, FALSE)

(* parseACLID reverses aclID: the ID names an entry.                       *)
StartImport(e) == ~Held /\ Begin("import", "begin", e, FALSE)

----------------------------------------------------------------------------
(* CreateACL and DeleteACL.                                                *)

(* The entry a handler is about.                                           *)
Subject == IF op \in {"create", "import"} THEN target ELSE record

(* Before any request, and outside of withRetry.                           *)
BeginRefused ==
  /\ step = "begin"
  /\ ~ManagedValid(Subject)
  /\ Finish
  /\ UNCHANGED <<brokerVars, late, record>>

BeginAccepted ==
  /\ step = "begin"
  /\ ManagedValid(Subject)
  /\ GoTo(IF op = "import" THEN "lookup" ELSE "request")
  /\ UNCHANGED <<brokerVars, late, record, collateral>>

Request == IF op = "create" THEN CreateRequest(target) ELSE DeleteRequest(record)

(* Mutant of OneResult: every result is fine, if there is one.             *)
AtMostOneResult(n) == n <= 1

(* validateCreateACLResults: one result for the one entry.                 *)
OneResult(n) == n = 1

(* A broker without ACL support answers a creation with no result.         *)
CreateAnswered(n) ==
  /\ op = "create" /\ step = "request"
  /\ IF n = 1 THEN Execute(Request, {}) ELSE UNCHANGED brokerVars
  /\ \/ OneResult(n) /\ record' = target /\ Finish
     \/ ~OneResult(n) /\ AttemptFails(FALSE) /\ UNCHANGED record
  /\ UNCHANGED late

(* The record goes; a replacement proceeds to create.                      *)
DeleteRecords ==
  /\ record' = NoEntry
  /\ \/ ~replacing /\ Finish
     \/ /\ replacing
        /\ op' = "create" /\ step' = "begin" /\ attempt' = 0
        /\ replacing' = FALSE /\ collateral' = FALSE
        /\ UNCHANGED target

(* Mutant of ExactMatch: whatever the filter matched was meant.            *)
AnyMatch(matched) == TRUE

(* validateDeleteACLResults: the entry itself or nothing.  Nothing is a    *)
(* NotFoundError, which handleDeleteError takes for success.               *)
ExactMatch(matched) == matched \subseteq {record}

DeleteSucceeds(o) ==
  /\ op = "delete" /\ step = "request"
  /\ Execute(Request, o)
  /\ ExactMatch(Matched(Request, o))
  /\ DeleteRecords
  /\ UNCHANGED late

(* Something else matched as well: an error, after the deletion, which     *)
(* withRetry retries like any other.                                       *)
DeleteTooBroad(o) ==
  /\ op = "delete" /\ step = "request"
  /\ Execute(Request, o)
  /\ ~ExactMatch(Matched(Request, o))
  /\ AttemptFails(TRUE)
  /\ UNCHANGED <<late, record>>

(* An answer without any result has no match, so it is not found either.   *)
DeleteAnsweredEmpty ==
  /\ broker.lite
  /\ op = "delete" /\ step = "request"
  /\ DeleteRecords
  /\ UNCHANGED <<brokerVars, late>>

(* No usable answer.  The request was executed and its reply lost, ...     *)
ReplyLost(o) ==
  /\ step = "request"
  /\ Execute(Request, o)
  /\ AttemptFails(FALSE)
  /\ UNCHANGED <<late, record>>

(* ... or the request was refused or never executed, ...                   *)
RequestFails ==
  /\ step = "request"
  /\ AttemptFails(FALSE)
  /\ UNCHANGED <<brokerVars, late, record>>

(* ... or it is still on its way.                                          *)
RequestDelayed ==
  /\ step = "request"
  /\ Cardinality(late) < MaxLate
  /\ late' = late \cup {Request}
  /\ AttemptFails(FALSE)
  /\ UNCHANGED <<brokerVars, record>>

----------------------------------------------------------------------------
(* GetACL, which is not retried: the broker may answer more than was asked *)
(* for, and only the exact entry counts.                                   *)

(* ImportState looks the entry up, then core has it read like any other.   *)
LookupFinds ==
  /\ step = "lookup" /\ target \in acls
  /\ GoTo("describe")
  /\ UNCHANGED <<brokerVars, late, record, collateral>>

DescribeFinds ==
  /\ step = "describe" /\ Subject \in acls
  /\ record' = Subject
  /\ Finish
  /\ UNCHANGED <<brokerVars, late>>

DescribeMisses ==
  /\ step = "describe" /\ Subject \notin acls
  /\ record' = NoEntry
  /\ Finish
  /\ UNCHANGED <<brokerVars, late>>

(* An error, an undecodable entry, or a missing entry to import.           *)
DescribeFails ==
  /\ step \in {"lookup", "describe"}
  /\ Finish
  /\ UNCHANGED <<brokerVars, late, record>>

----------------------------------------------------------------------------
(* The environment.                                                        *)

LateArrives(r, o) ==
  /\ r \in late
  /\ late' = late \ {r}
  /\ Execute(r, o)
  /\ UNCHANGED <<record, taskVars>>

LateDropped(r) ==
  /\ r \in late
  /\ late' = late \ {r}
  /\ UNCHANGED <<brokerVars, record, taskVars>>

(* An administrator, or another Terraform state.                           *)
OthersAdd(e) ==
  /\ e \in Creatable \ acls
  /\ acls' = acls \cup {e}
  /\ UNCHANGED <<broker, late, record, taskVars>>

OthersRemove(e) ==
  /\ e \in acls
  /\ acls' = acls \ {e}
  /\ UNCHANGED <<broker, late, record, taskVars>>

----------------------------------------------------------------------------

ClientStep ==
  \/ BeginRefused \/ BeginAccepted
  \/ \E n \in {0, 1} : CreateAnswered(n)
  \/ \E o \in Overlooked : DeleteSucceeds(o) \/ DeleteTooBroad(o) \/ ReplyLost(o)
  \/ DeleteAnsweredEmpty \/ RequestFails \/ RequestDelayed
  \/ LookupFinds \/ DescribeFinds \/ DescribeMisses \/ DescribeFails
  \/ BackoffElapses

CoreStep ==
  \/ \E c \in Configs : StartCreate(c) \/ StartReplace(c)
  \/ \E e \in Entries : StartImport(e)
  \/ StartDestroy \/ StartRefresh

EnvironmentStep ==
  \/ Killed
  \/ \E r \in late : LateDropped(r) \/ \E o \in Overlooked : LateArrives(r, o)
  \/ \E e \in Entries : OthersAdd(e) \/ OthersRemove(e)

Next == ClientStep \/ CoreStep \/ EnvironmentStep

Spec == Init /\ [][Next]_vars

----------------------------------------------------------------------------
(* Properties.                                                             *)

(* The provider's own requests, retried, late or both, remove no entry but *)
(* the one that was managed when they were sent: on a broker that heeds    *)
(* every field, no filter is ever broader than its entry.                  *)
ExactDeletion ==
  [][(broker.overlooks = {} /\ <<late, taskVars>>' # <<late, taskVars>>) =>
       \A e \in acls \ acls' :
         \/ \E r \in late \ late' : r.kind = "delete" /\ r.entry = e
         \/ op = "delete" /\ step = "request" /\ record = e]_vars

(* Whatever Create or an import records is the entry asked for, and the    *)
(* broker holds it, with the pattern type that was meant.                  *)
RecordsWhatWasAsked ==
  [][(~Held /\ Held') => record' = target /\ target \in acls']_vars

(* The record is dropped, by a refresh or by a deletion, only when the     *)
(* broker does not hold the entry any more: no access is left behind, but  *)
(* by a broker that answers deletions with nothing.                        *)
KeptWhilePresent ==
  [][(Held /\ ~Held' /\ ~broker.lite) => record \notin acls']_vars

(* An entry with a wildcard in any field is refreshed and nothing else: no *)
(* operation that would delete it gets through planning.                   *)
BroadOnlyRefreshed ==
  [][(op = "none" /\ op' = "delete") => \A f \in Fields : record[f] # Any]_vars

(* A deletion that was seen to remove another entry is not reported as an  *)
(* exact one.                                                              *)
BroadDeletionReported == [][(collateral /\ Held) => Held']_vars

(* Acl implements the contract: forget where the handler stands, how often *)
(* it has tried, what is still on its way, and how patterns are encoded.   *)
Contract == INSTANCE AclContract WITH
              wanted <- target, exact <- (broker.overlooks = {}),
              mute <- broker.lite

(* Every step of handler, client and broker is a step of the contract.     *)
ImplementsContract == Contract!Spec

(* What is left to do at most: the attempts to come, the way to the end of *)
(* this one, and a creation that is still to follow a deletion.            *)
Weight == [idle |-> 0, backoff |-> 1, describe |-> 2, lookup |-> 3,
           request |-> 3, begin |-> 4]
Work ==
  IF op = "none" THEN 0
  ELSE 3 * (MaxRetries - attempt) + Weight[step]
         + (IF replacing THEN 3 * MaxRetries ELSE 0)

(* Nothing that happens while an operation runs gives it more to do, and   *)
(* every step of its handler leaves it less: a creation or a deletion that *)
(* keeps failing, or keeps removing other entries, ends within its         *)
(* attempts.                                                               *)
WorkShrinks ==
  [][op # "none" => /\ Work' <= Work
                    /\ taskVars' # taskVars => Work' < Work]_vars

(* Where each operation stands; a request is only made for an entry that   *)
(* can be deleted exactly.                                                 *)
TaskOK ==
  /\ op = "none" <=> step = "idle"
  /\ op \in {"create", "import"} => ~Held /\ target \in Entries
  /\ op \in {"read", "delete"} => Held
  /\ replacing => op = "delete" /\ target \in Entries
  /\ step = "begin" => op \in {"create", "import", "delete"}
  /\ step \in {"lookup", "describe"} => op \in {"read", "import"}
  /\ step \in {"request", "backoff"}
       => op \in {"create", "delete"} /\ ManagedValid(Subject)
  /\ step = "backoff" => attempt + 1 < MaxRetries
  /\ collateral => op = "delete" /\ step # "begin"

(* The invariant as it is inductive.                                       *)
IInv == TypeOK /\ TaskOK
============================================================================
