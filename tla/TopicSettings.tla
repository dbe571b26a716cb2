--------------------------- MODULE TopicSettings ---------------------------
(***************************************************************************)
(* The create-time settings of a streamline_topic: how a configuration is  *)
(* validated, planned against the recorded state, sent to the broker and   *)
(* recorded.  Attribute values are three-valued, as in the plugin          *)
(* framework: null, unknown, or a known value.                             *)
(*                                                                         *)
(* A settings function gives every attribute its value.  The attribute     *)
(* "config" holds a map of broker keys; a dedicated attribute and the      *)
(* broker key it stands for (retention_ms and retention.ms) share a name.  *)
(*                                                                         *)
(* The module has no variables: Topic.tla gives the operators a state.     *)
(***************************************************************************)
EXTENDS Integers

CONSTANTS
  Null,          \* the null value of the framework
  Unknown,       \* a value known only after apply
  Value,         \* known values of a setting
  Dedicated,     \* cleanup_policy, retention_ms, retention_bytes, segment_bytes
  Legacy,        \* min_insync_replicas and the semantic_* attributes
  OptionalOnly,  \* the attributes that are not Computed: semantic_field
  OtherKeys      \* broker keys that only the map can set

Attr     == Dedicated \cup Legacy \cup {"config"}
Computed == Attr \ OptionalOnly

Keys     == Dedicated \cup OtherKeys
MapValue == UNION {[K -> Value] : K \in SUBSET Keys}

Absent == {Null, Unknown}

Settings ==
  {s \in [Attr -> Value \cup MapValue \cup Absent] :
     /\ s["config"] \in MapValue \cup Absent
     /\ \A a \in Dedicated \cup Legacy : s[a] \in Value \cup Absent}

WhollyKnown(settings) == \A a \in Attr : settings[a] # Unknown

KnownSettings == {s \in Settings : WhollyKnown(s)}

(* What the broker holds: the keys given at creation, with their values.   *)
BrokerConf == UNION {[K -> Value] : K \in SUBSET (Keys \cup Legacy)}

NoSettings == [a \in Attr |-> Null]

ASSUME SettingsAssumption ==
  /\ "config" \notin Dedicated \cup Legacy
  /\ Dedicated \cap Legacy = {}
  /\ Keys \cap Legacy = {}
  /\ OptionalOnly \subseteq Legacy
  /\ Null # Unknown
  /\ Absent \cap (Value \cup MapValue) = {}

----------------------------------------------------------------------------
(* Validation.                                                             *)

(* duplicateDedicatedTopicConfig: a key of a known map repeats a dedicated *)
(* attribute that is configured (an unknown value counts as configured).   *)
DuplicateDedicated(map, config) ==
  /\ map \notin Absent
  /\ \E a \in Dedicated : a \in DOMAIN map /\ config[a] # Null

(* ValidateConfig, before planning.                                        *)
Validated(config) == ~DuplicateDedicated(config["config"], config)

(* validateResolvedTopicConfigConflicts, at the head of Create.            *)
ResolvedMap(config, plan) ==
  IF config["config"] = Unknown THEN plan["config"] ELSE config["config"]

Unresolved(config, plan) ==
  /\ ResolvedMap(config, plan) = Unknown
  /\ \E a \in Dedicated : config[a] # Null

Conflict(config, plan) == DuplicateDedicated(ResolvedMap(config, plan), config)

(* unsupportedTopicSetting: Streamline 0.3.0 ignores the legacy settings.  *)
Unsupported(plan) == \E a \in Legacy : plan[a] \notin Absent

(* Mutant of Rejected: the conflicts are left to validation.               *)
RejectedNoConflict(config, plan) == Unsupported(plan)

(* The configurations Create refuses before it sends a request.            *)
Rejected(config, plan) ==
  \/ Unresolved(config, plan)
  \/ Conflict(config, plan)
  \/ Unsupported(plan)

----------------------------------------------------------------------------
(* Planning.  prior is the recorded settings function; exists says whether *)
(* there is a record at all, and changed whether the proposed value        *)
(* differs from it (partitions included).                                  *)

(* Terraform core: a configured attribute is proposed as configured, an    *)
(* unconfigured computed one keeps what is recorded.                       *)
Proposed(config, prior) ==
  [a \in Attr |-> IF config[a] # Null THEN config[a]
                  ELSE IF a \in Computed THEN prior[a] ELSE Null]

(* The framework marks unconfigured computed attributes unknown as soon as *)
(* anything changes.                                                       *)
MarkUnknown(config, prior, changed) ==
  [a \in Attr |-> IF changed /\ a \in Computed /\ config[a] = Null
                  THEN Unknown ELSE Proposed(config, prior)[a]]

(* Mutant of UseStateForUnknown: the modifier is missing.                  *)
ForgetState(marked, config, prior) == marked

(* UseStateForUnknown on every computed setting: a null record has nothing *)
(* to offer, and an unknown configuration stays unknown.                   *)
UseStateForUnknown(marked, config, prior) ==
  [a \in Attr |-> IF /\ a \in Computed
                     /\ marked[a] = Unknown
                     /\ config[a] # Unknown
                     /\ prior[a] # Null
                  THEN prior[a] ELSE marked[a]]

PlanSettings(config, prior, changed) ==
  UseStateForUnknown(MarkUnknown(config, prior, changed), config, prior)

(* Mutant of RequiresReplace: a configured dedicated change in place.      *)
NeverReplace(config, plan, prior) == FALSE

(* RequiresReplaceIfConfigured on every setting.                           *)
RequiresReplace(config, plan, prior) ==
  \E a \in Attr : config[a] # Null /\ plan[a] # prior[a]

----------------------------------------------------------------------------
(* Create's request and what it records.                                   *)

(* The configuration sent with CreateTopics: first every known attribute,  *)
(* then the entries of the map, which overwrite.                           *)
BuildConfig(plan) ==
  LET own == {a \in Dedicated \cup Legacy : plan[a] \notin Absent}
      map == plan["config"]
  IN  IF map \in Absent THEN [k \in own |-> plan[k]]
      ELSE [k \in own \cup DOMAIN map |->
              IF k \in DOMAIN map THEN map[k] ELSE plan[k]]

(* Mutant of ClearUnknown: the unknowns stay.                              *)
KeepUnknown(settings) == settings

(* clearUnknownTopicState: what Create could not know is recorded as null. *)
ClearUnknown(settings) ==
  [a \in Attr |-> IF a \in Computed /\ settings[a] = Unknown
                  THEN Null ELSE settings[a]]

(* Terraform core: a value the provider left unknown is stored as null and *)
(* the apply is reported as failed (Topic.tla reports it).                 *)
UnknownAsNull(settings) ==
  [a \in Attr |-> IF settings[a] = Unknown THEN Null ELSE settings[a]]
============================================================================
