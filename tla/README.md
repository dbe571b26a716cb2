# Verification of the Streamline Terraform provider

TLA+ models of the provider in `src/`, TLC configurations that check them on
small instances, and TLAPS proofs of the theorems that matter most. File names
below without a directory are under `src/internal/`.

## 1. The system

Terraform core reads a configuration, plans it against its state with the
plan modifiers and validators the provider declares, and calls one handler of
one resource at a time (`Create`, `Read`, `Update`, `Delete`, `ImportState`).
A handler calls a client, the client sends requests to a Kafka-protocol broker
or to a Schema Registry over HTTP, and the handler writes what it learned into
the state. Nothing is kept in the provider between two handlers: all memory is
in the Terraform state and in the remote systems, which administrators,
producers and other Terraform states change at any time.

| Component | State | Operations | Interacts with | What is hard | What makes it correct |
|---|---|---|---|---|---|
| Topic resource (`resources/topic.go`) | partitions and create-time settings in the Terraform state | plan, validate, Create, Read, Update, Delete, import, replacement | core (three-valued planning), topic client | unknown values, computed attributes that cannot be read back, replacement in two halves | the record is what the broker was given; plans converge |
| Topic client (`client/topics.go`) | none | CreateTopic, GetTopic, UpdateTopic, DeleteTopic, ListTopics | broker, through `withRetry` | lost and late requests, stale metadata, retriable "unknown topic" | never adopts, never drops what exists, never overstates partitions |
| Retries and metadata (`client/connection.go`) | attempt counter | withRetry, metadata validation, controller lookup | broker | bound, cancellation, what is retried | ends; at most `maxRetries` attempts |
| ACL resource and client (`resources/acl.go`, `client/acls.go`) | one entry | plan, Create, Read, Delete, replacement, import | broker | deletion by filter, wildcards, own pattern codes, retried deletions | only the managed entry is removed; it is recorded exactly as long as it is held |
| Schema resource and registry client (`resources/schema.go`, `client/schema_registry.go`) | subject, version, definition, level | Create, Read, Update, import; Delete is refused | registry | sequences of independent requests, others in between, half-done applies | the recorded version holds the recorded definition; the recorded level is in force |
| Consumer group resource and client (`resources/consumer_group.go`, `client/consumer_groups.go`) | state and member count of a group that applications made | Create (always refused), Read, Delete, replacement, import, data source | coordinator, then every advertised broker | a coordinator that is not available, listings taken one after the other, groups that move or come back | a record goes only with its group; every operation ends |
| Provider configuration (`provider/configure.go`, `provider/provider.go`, `client/client.go`) | the client of one provider process | Configure, once per plan and once per apply | configuration, environment, certificate files | values only known at apply, precedence, settings that need each other | the apply uses what the plan was made with |
| Data sources (`datasources/*.go`, `client/cluster.go`) | none | Read of cluster, topics, consumer group | brokers, partly on connections of their own | two requests for one answer, a broker that stays silent, one topic in trouble among many | connections are closed, timeouts reach every wait, reads end (the cluster read does not) |
| Legacy resources (user, branch, contract, memory) | old state | refresh keeps the state; all else fails | none | nothing | state preserved |
| Client shutdown (`GracefulClose`) | a flag and a counter nobody uses | none: it is never called | none | nothing in this release | nothing to state |

`PROJECT.json` lists every hazard of this code at its line, with the property
that covers it.

## 2. Modules

| Module | Contents |
|---|---|
| `TopicSettings` | Pure operators: validation, planning, the checks of Create, the request it builds, what it records. No variables. |
| `Topic` | One topic resource with its client, its retries, the broker and administrators. |
| `TopicContract` | What the topic resource promises: every operation fails and leaves the record alone, or takes effect in one step. |
| `MCTopic` | Small instances of `Topic`. |
| `TopicSettingsProofs` | Lemmas about the operators of `TopicSettings`. |
| `TopicProofs` | The inductive invariant of `Topic` and the theorems that rest on it. |
| `TopicContractProofs` | `Topic` implements `TopicContract`. |
| `Schema`, `MCSchema`, `SchemaProofs` | One schema resource and the subject behind it, request by request; its theorems. |
| `SchemaContract`, `AclContract`, `GroupContract` | What the other resources promise, in as few steps as their operations allow; the proof modules of the components show that they keep it. |
| `Acl`, `MCAcl`, `AclProofs` | One ACL resource and a broker that deletes by filter; its theorems. |
| `ConsumerGroup`, `ConsumerGroupProofs` | One consumer group resource, its data source, and the brokers that may know the group; its theorems. |
| `Provider`, `MCProvider`, `ProviderProofs` | Configure in a plan and an apply, and the course of the reads of the cluster and topics data sources; its theorems. |

### TopicSettings and Topic

A settings function gives each attribute null, unknown or a known value. The
attribute `config` holds the map; a dedicated attribute and the broker key it
stands for share a name. `Dedicated`, `Legacy`, `OptionalOnly` and `OtherKeys`
are sets, so that the proofs hold for the eight attributes of the code and for
any others declared the same way.

Planning is core and the plugin framework, which are not in `src/` but decide
what the handlers are given: a configured value is proposed as configured, an
unconfigured computed one keeps its recorded value (`Proposed`); when anything
changes, unconfigured computed attributes become unknown (`MarkUnknown`); then
the provider's own modifiers run (`UseStateForUnknown`, `RequiresReplace`).
`UseStateForUnknown` of the pinned framework leaves an attribute unknown when
the recorded value is null: that is what Update runs into. A replacement is
planned a second time as if nothing was recorded. After an apply core stores
an unknown as null and reports the result as invalid (`UnknownAsNull`).

`op` and `step` are the running handler and its position; `attempt` is
`withRetry`'s. A client step happens at the broker's answer: the work between
two answers is local. Each request (`CreateTopics`, `DeleteTopics`,
`CreatePartitions`) has these outcomes: accepted, refused, executed with its
reply lost, never executed, or still travelling after the timeout (`late`) to
be executed or dropped at any later moment, during a retry or a later
operation. `Killed` ends a handler anywhere. Administrators create, delete and
expand the same topic between any two steps.

`bond` is a history variable: `"created"` means that the topic there is now is
the one this record's Create made, `"sized"` that the recorded partition count
was learned from it. Without it "the record agrees with the topic" could not be
stated, since others change the topic freely.

Two constants say how much the broker may be trusted. With `LaggingMetadata`,
a metadata answer may show any earlier partition count, or absence, until
metadata converges. With `OmittedResults`, `CreatePartitions` may be answered
without naming the topic.

### Schema

A definition stands for a schema text with its type and for the global ID the
registry gives that pair, in which Streamline identifies schemas. The client
does not retry: each handler is the sequence of its requests, and each may fail
(`CallFails` also covers a refused definition, a version that is gone or has
another ID, and a killed provider). Others register, delete versions, delete
the whole subject for good (its numbers start again at 1), and change both
compatibility levels between any two requests. `learned` is what the handler
knows and nobody has changed since, `bond` the same for the record.

### Acl

`Any` stands for `*` in name and host, for `User:*` and for operation `all`.
The broker (external, as the code and its tests describe the wire contract of
Streamline 0.3.0) reads wildcards in a filter as "any" and uses code 4 for
literal and 3 for prefixed in creations, 2 and 3 in filters. `broker` says
which fields it may now and then overlook in a filter (the code's exact-match
checks exist for that), and whether it is a lite broker whose answer to a
deletion may hold no result at all. `collateral` remembers that an answer of the running deletion showed
the removal of another entry.

### ConsumerGroup

`group` and `coordinator` are the cluster's: only the coordinator lists,
describes or deletes the group, applications create it by joining, it expires
when it is empty, and another broker may take over at any time. Each attempt of
an operation asks for the coordinator (`CoordinatorFound`, possibly an outdated
answer), sends it the request, and, if any broker answers
`CoordinatorNotAvailable`, lists the groups of every broker the metadata
advertises, one after the other (`pending`, `present`, `failed`). A deletion may
be executed with its reply lost, or after its timeout. Everything else that can
go wrong is `CallFails`, which is retried like all errors but a `NotFoundError`.

`seen` is a history variable of one attempt: was there a moment at which the
group did not exist, and has its coordinator moved, or been missing from the
advertised brokers? The listings of several brokers are no snapshot: a group
that moves behind the client's back from a broker not yet asked to one already
asked is shown by neither. `DropOnlyIfAbsent` says that this is the only way to
lose the record of a group that was there all along: no error, no partial
listing and no retry does. Update is not reachable, since `group_id` is the only
attribute one can configure and it replaces.

### The contracts

`TopicContract`, `SchemaContract`, `AclContract` and `GroupContract` describe a
resource as Terraform sees it: an operation fails and leaves the record alone, or
record and remote system agree in the instant it ends. They know no request,
attempt, broker or late message; a step of theirs is the last step of a handler,
or one of the rest of the world. Only the schema resource needs more, since its
operations are sequences of requests that no instant sums up. They differ in
what the remote system allows:

- a topic is only created where there was none, and in place only its
  partitions grow, whoever acts on it (`Grows`);
- a schema operation agrees with the registry part by part. An apply puts the
  level in force (`Level`) before it ends with the version (`Register`), unless
  the record had that level already; the contract does not say that the level is
  still in force then, and the code does not look. A refresh observes the version
  (`Observe`), then the subject's own level, or sees that it has none (`Unset`)
  and then takes the registry's (`Report`). This last read is torn
  (`client/schema_registry.go:294`): if the subject gets a level of its own
  between the two requests, the record holds the registry's level although it is
  not in force. There is no step that destroys, and a version number in use never
  turns into another definition (`Immutable`);
- an ACL operation grants, finds or revokes the one entry it is about and touches
  no other, if the broker heeds its filters (`exact`); a lite broker (`mute`) may
  keep a revoked entry;
- a group record goes in an attempt that missed the group at some moment, which
  need not be the last one, because no instant shows all brokers at once; only
  an empty group is ever removed.

The mappings leave out what is only the client's: `step`, `attempt`, `late` and
the history variables. Where a contract has a variable the component has not, it
is a function of the component's state (`missed` is `seen # {}`, `exact` is
`broker.overlooks = {}`, `unset` is `step = "global"`, and `leveled`, the
operator `Leveled`, says that an apply which sets the level is past that request).

### Provider

Of a setting the model keeps what configuration tells apart: empty (or false, or
zero), malformed (or naming a file that cannot be used), or one of several good
values. `Resolved` translates `resolveProviderConfig`: what is written wins over
the environment even if its value is not known yet, in which case it reads as
the zero value. `StartApply` gives every unknown a value, or null, and
configures a new process. Hence `PlanNeverGuesses`: what the plan was made with
is what the apply uses, or nothing at all. A plan that does without a setting
may be refused (an unknown timeout reads as zero) or be made without TLS or
credentials; it is never made with a value of the environment that the apply
then replaces.

The cluster data source dials the first bootstrap server, asks it for the
controller, closes that connection, dials the controller and asks it for brokers
and controller in two requests. `controller.Host == c.brokers[0]`
(`client/connection.go:249`) compares a host with a `host:port` pair, so the
connection at hand is never reused although the comment above says it is; the
model always takes the second dial. With credentials each dial is followed by a
SASL exchange (`authenticate`). `open` holds the connections of the running
handler, and `silent` says that the broker it waits for will not answer.

`Deadline` names what a timer ends. `Dialer.Timeout` (`client/client.go:92`)
bounds connecting and the TLS handshake, but the dialer sets no deadline on the
connection for the SASL exchange; `kafka.Client.Timeout` bounds the requests of
the shared client, such as `ListTopics`. Nothing sets a deadline on a connection
that `getControllerConn` returns, and neither `conn.Controller()` nor
`conn.Brokers()` takes a context. kafka-go is not part of the repository; these
are the semantics of the version it pins. `TimeoutsReach` states what the
timeouts do achieve, and `ReadsEnd`, that every read ends, is violated (run
`cluster_read_hangs`).

What the two reads report is not modelled: it is what the brokers answered, and
about that the code promises little (section 3).

## 3. Runs

| Run | Instance | Shows |
|---|---|---|
| `topic_applies` | all 64 configurations per partition count (2) of one dedicated, one map-only and one legacy attribute with unknowns, 3 attempts, lagging and omitting broker, fairness | sequences of applies converge, requests are unambiguous, the record stays what was sent, Create returns no unknown; every operation has bounded work and ends |
| `topic_net` | 3 partition counts, 3 attempts, 1 late request, 4 settings | the inductive invariant; the record amounts to what the broker was given, with retries and a late request; no adoption; no drop of an existing topic; no overstated partitions; `Topic` implements `TopicContract` |
| `schema_safety` | 2 definitions, 2 levels, 3 versions, 1 late request, symmetry in definitions and levels | version and level faithful, the record is what was registered, is kept, and shows no drift of its own making; `Schema` implements `SchemaContract` |
| `acl_safety` | 7 entries, 3 attempts, 1 late request, three brokers | exactly the managed entry is deleted; the record is the entry asked for, kept while held; bounded work; `Acl` implements `AclContract` |
| `group_safety` | 3 brokers, 3 attempts, 1 late deletion, fairness | no record dropped while its group is there and stays where it is; every operation has bounded work and ends; `ConsumerGroup` implements `GroupContract` |
| `provider_run` | 142 configurations with their environments, a broker that may fall silent at any step, fairness | the apply uses what the plan used; connections are closed; connecting and listing topics end whatever the broker does |

Seven attributes beyond the three of the instances behave like one of the
three: an attribute is dedicated, legacy, or the map, and the operators treat
each by its own value. Three partition counts are the fewest with which a
count that is read, one that is asked for and one that an administrator sets
in between can all differ. Three attempts are the default of `max_retries`;
with two, no attempt is both a retry and followed by one. One late request
already overtakes the retry that follows it, or arrives in a later operation.
Three versions
let a subject be deleted and its first version number be given to another
definition while a handler holds the old one. `MaxPartitions`, `MaxVersion`
and `MaxLate` are bounds of the model only.

The entries of `MCAcl` are one exact entry, the entry that differs from it in
its pattern, three broad ones whose filters would catch the exact one, and the
two that nothing can create. Permission type is matched exactly everywhere.

Three brokers let a group be listed as absent by one, move between the two
others, and leave a third listing to fail. `MCProvider` combines the settings
that are validated together (SASL, TLS, the client certificate, Moonshot, the
timeouts) in every way: missing, unknown or written, with and without an
environment; settings of different groups do not meet in `Valid`.

Each property of a passing run is also checked against a mutated definition of
the model that must violate it (`mutants` in `PROJECT.json`); the mutated forms
stand beside the definitions they change.

### Where the code and its documentation disagree

| Run | What happens |
|---|---|
| `topic_update_unknown` | A topic with an attribute that was never set gets more partitions in place: Update returns the attribute as unknown, core reports an invalid result, although the partitions were added and recorded. |
| `topic_replace_rejected` | A replacement that adds a legacy setting deletes the topic, and then Create refuses the setting. |
| `schema_update_version` | Every update that registers a new version contradicts its plan, which kept the recorded version and ID. |
| `acl_broad_plan` | Planning lets entries for `User:*` or operation `all` through to a destroy (the client refuses it then). |
| `acl_broad_reported` | The error about an inexact deletion is retried away. |
| `cluster_read_hangs` | A broker that falls silent during the SASL exchange, or before it has answered a request of the cluster data source, hangs the read, although `request_timeout` is documented as "Request timeout in seconds (default: 60)". |

`acl_broad_reported` needs a broker that overlooks a field of a filter, which
is what the check it defeats is there for, and `cluster_read_hangs` one that
stops answering while its connection stays up. The other four need nothing
unusual.

Two more disagreements, and one gap that no document speaks of, have no run of
their own:

- `AUDIT.md:36-38` says that Terraform "replaces the topic when that
  configuration changes or is removed". Removing a setting does not replace: the
  settings are optional and computed, so the recorded value is proposed again
  (`Proposed`), and `RequiresReplaceIfConfigured` looks at configured values only.
  `AUDIT.md:14`, `CHANGELOG.md:72-74` and `docs/resources/topic.md:61` describe
  what the code does. No property states either: it would restate the modifier.
- `docs/data-sources/cluster.md:52` describes `controller_id` as "The broker ID of
  the current controller." `GetClusterMetadata` (`client/cluster.go:40`) takes it
  from a second request after that for the brokers, and does not check that the
  controller is one of them, as `resolveControllerAddr`
  (`client/connection.go:81-93`) does. If an answer's controller is not among its
  own brokers, kafka-go's `Conn.Controller` returns a zero broker and no error, and
  `controller_id` is 0. `Provider` keeps no answers, so no run shows this.
- The torn read of the compatibility level described under "The contracts".
  `LevelFaithful` leaves it out, since it takes a change by somebody else between
  the two requests; the next refresh repairs the record.

More weaknesses bound what the properties may say, and are constants or
choices of the model rather than runs:

- `LaggingMetadata`: the listing that confirms an absence goes to the same
  bootstrap address as the answer it confirms and may be as stale. A lagging
  broker gets the record of an existing topic dropped, so `DropOnlyIfAbsent`
  is claimed for consistent metadata only.
- `OmittedResults`: `UpdateTopic` looks for errors in the answer of
  `CreatePartitions` and not for the topic's own result, as creation and
  deletion do. An empty answer makes it record partitions nobody added.
- `broker.lite`: a deletion answered without any result is taken for "not
  found" (`client/acls.go:150`) and drops the record of an entry that is still
  held, so `KeptWhilePresent` leaves such brokers out.
- A change of `group_id` deletes the group and then always fails in Create
  (`StartReplace`, `CreateRefused`).

## 4. Fairness

`topic_applies`, `group_safety`, `provider_run` and `cluster_read_hangs` assume
weak fairness, of the client's or the handler's steps as one disjunction, for
their liveness properties. Requests of the shared client are bounded by
`kafka.Client.Timeout`, connecting by `Dialer.Timeout` and backoffs by their timers
(`client/client.go`, `client/connection.go`), so as long as the provider runs some
step of a handler that uses only these is taken.
Fairness of the whole disjunction demands no particular outcome: the brokers may
fail every request and contradict themselves for ever. In `Provider` a step on a
connection without a deadline, SASL exchange included, is enabled only while the
broker answers, so that no fairness is claimed where the code has no timer: this
is why `ReadsEnd` fails there although its run is a fair one. Nothing is assumed of core,
administrators, applications, the network or the convergence of metadata.

Termination has two halves. `WorkShrinks` is the safety half, and it is proved:
`Work` adds up what is left of the attempts, of the running attempt (for groups,
of the brokers still to be listed) and of the replacement's second handler; no
step of anybody increases it while an operation runs, and each step of the
handler decreases it. What fairness adds is only that the handler keeps moving;
that half stays with TLC, since it rests on `ENABLED`. `Acl` has the safety half
alone: its loop is that of `Topic`. Handlers of `Schema` do not loop.

## 5. Proofs

Seven modules hold proofs, for every value of the constants.

`TopicSettingsProofs`, `TopicProofs` and `TopicContractProofs`, for every number
of partitions, attempts, late requests and every set of attributes, values and
configurations:

- `Invariance`: `Spec => []IInv`. `IInv` is `TypeOK`, `SettingsFaithful` and
  `PartitionsNotOverstated` with what they need to be inductive: `TaskOK`, what
  a handler knows at each step (the record it started from is still there, the
  plan it carries out is still the plan of its configuration, the attempts are
  not used up when it backs off), and `BondOK`, that a record with any bond
  exists and its topic too, and that Create never made a legacy setting. The
  last one is why `BuildConfig` of a record is what the broker holds: a legacy
  value would be lost in a later update. Type correctness alone, and the bond
  properties alone, are not inductive: a late `CreateTopics` or an update whose
  plan has changed would break them.
- `TypeCorrect`, `RecordFaithful`, `RecordNotOverstated` follow from it.
- `NeverAdopts`, `DropsOnlyAbsent` are action properties proved from `IInv`
  and from the lemma that names the steps which write the record.
- `Unambiguous` follows from `IInv` and lemmas about planning.
- `Converges`, `CreateResultKnown` need one more invariant, `ResultInv`, which
  relates the last result to the configuration that is still at hand.
- `Implements`: `Spec => ImplementsContract`. The refinement mapping forgets
  `step`, `attempt`, `late` and reads the recorded settings as the request they
  amount to (`View`). `Drop`, `Update` and `Read` of the contract state that
  record and topic agree in one instant, `Fail` that an operation did to the
  topic no more than it was asked to, and `Others` that late requests and
  administrators change a topic in place only by expanding it.
- `WorkBounded`: `WorkShrinks`, and `Work` is at most `10 * MaxRetries + 5`. The
  variant is well-founded, so no handler takes more steps than that. It needs
  `IInv` only for the attempt counter, which a backoff must not carry past
  `MaxRetries`.

`DropsOnlyAbsent` and `Implements` assume `~LaggingMetadata`, and `Implements`
also `~OmittedResults`: they do not hold otherwise, as said in section 3. The only other assumptions are `SettingsAssumption`
and `TopicAssumption`: null and unknown are no values, an attribute belongs to
one class, the map cannot name a legacy key (its validator lists the keys),
bounds are numbers. TLC evaluates them in every run.

`AclProofs`, for every set of entries, brokers, attempts and late requests:
`Invariance` (each handler has the record or the entry it needs at its step, and
past validation that entry is no wildcard in any field), and from it `DeletesExactly`, `RecordsAsked` and `NothingLeftBehind`. The
heart is a lemma about the broker's matching: the filter of an entry that
`ManagedValid` accepts matches that entry alone, in the codes filters use. `WorkBounded` is as for topics,
with `6 * MaxRetries + 4`. `Implements` rests on the same lemma about matching
and on `OneEntryAtATime`: whatever is executed, in time or late, adds or removes at
most one entry on a broker that heeds its filters, which is all the contract
lets the rest of the world do there.

`SchemaProofs`, for every set of definitions and levels and every bound:
`Invariance` with `VersionStaysFaithful` and `LevelStaysFaithful`, which are part
of it. They are inductive together with `LearnedOK`: what a handler learned and
nobody changed since is still true of the registry, which is what a record
inherits when the handler writes it. `RecordsTheRegistered`, `KeepsTheRecord`
and `RefreshesExactly` are action properties; the last one needs one more
invariant, `ReadingInv`, which relates the answers of a running refresh to the
record. The highest version is a set, `Highest(V)`, defined by its property
rather than by a choice, so that the provers see it. `Implements` goes step by
step: the level set by an apply maps to `Level`, the fetch of a refresh to
`Observe`, the missing level to `Unset`, each last step to `Register`, `Relevel`,
`Report`, `Miss` or `Fail`, and the other requests, like late ones and those of
others, to `Others`. That an apply which registers has put its level in force, or
did not need to, is what `LevelChanged` of a running update contributes to `IInv`.
It does not say that all parts of a record agree in one instant; they need not, as
said under "The contracts". A failing Create or Update is shown to have
done no more than it was asked to (`RequestNoMore`).

`ConsumerGroupProofs`, for every finite set of brokers: `Invariance`,
`DropsOnlyAbsent`, `WorkBounded` and `Implements`. `SeenOK` is the strengthening: a group that was there all
along, at one coordinator that was advertised, is still to be listed, was shown,
or its listing failed. So "nothing pending, nothing failed, nothing shown"
implies that something happened to it; `Implements` turns this into `missed` of
the contract. `WorkBounded` counts the brokers still to be listed, hence
finiteness.

`ProviderProofs`, for every configuration and environment: `Invariance` and
`ApplyUsesThePlanned`. `RunOK` carries the
settings of the plan through the change of process, `ReadOK` the connections a
handler holds at each step.

The assumptions are those named in each component's module, which TLC evaluates
in its run; `AclAssumption` and `GroupAssumption` ask for well-formed entries,
finitely many brokers, and at least one broker and attempt, `SchemaAssumption` that "none" is no value,
`ProviderAssumption` that null and unknown are no values.

Only model-checked: liveness (`OperationsEnd` of topics and of groups,
`TimeoutsReach`), which needs `ENABLED` of the handlers' steps, beyond the prover; and
what the violation runs show.

## 6. Abstractions

- Name, ID and `replication_factor` (its validator only admits 1) are left out
  of `Topic`. A map with unknown elements counts as an unknown map; unknown
  partition counts are not modelled.
- Metadata errors of every kind (transport, authorization, no brokers, an
  invalid controller) are the one outcome `MetadataFails`; all are retried, or
  returned, alike.
- `Schema`: the registry returns the text it was given; canonicalisation of
  texts and types is left out. Imported references are not modelled; references
  only occur in records of earlier releases, and a configuration with them is
  refused.
- `Acl`: configuration values that are unknown while planning, and the escaping
  of IDs, are left out; `aclID` and `parseACLID` are inverse by construction.
- `ConsumerGroup`: of a group's state and member count the record keeps whether
  it was in use. The data source hands on what it reads and records nothing.
- `Provider`: `tls_skip_verify` has no environment variable and no validation;
  addresses are one value (all bootstrap servers parse, or one does not). The
  contents of the cluster and topics reports, with `name_pattern` and the error of
  a single topic in trouble, are left out: a read ends with a report or an error.
  Each data source read is on its own: core reads several at once, but
  they share nothing but the pooled connections of `kafka.Client`.

## 7. Not modelled

- Legacy resources (user, branch, contract, memory) and the Moonshot client:
  every operation but refresh fails in its first line, refresh returns the state
  it was given, and none talks to a server.
- `Close` and `GracefulClose`: nothing calls them, no operation registers with
  the counter `GracefulClose` waits for, and the flag it sets is never read. A
  model would have to invent the caller and the operations it waits for.
- Registry operations no resource calls (`GetSchemaByID`, `CheckCompatibility`,
  `DeleteSchema`, listings), and the schema deletion of the acceptance harness.
- Process start and the documentation tool.
- `create_before_destroy`: a topic replaced under its own name would always be
  refused as existing; an ACL or a schema replaced this way meets the same
  handlers in another order. ACL fields that are unknown while planning.
- No contract is stated for the provider configuration and the data sources:
  they keep no record, and `PlanNeverGuesses` already relates what goes into
  Configure to what comes out.
