------------------------------- MODULE Schema -------------------------------
(***************************************************************************)
(* One streamline_schema resource and the Schema Registry subject behind   *)
(* it.  The client sends single HTTP requests and never retries: a handler *)
(* is a sequence of requests, and other users of the registry, or a        *)
(* request that outlived its timeout, act between any two of them.         *)
(*                                                                         *)
(* A definition stands for a schema text with its type, and for the global *)
(* ID the registry gives that pair: Streamline identifies a schema by it.  *)
(***************************************************************************)
EXTENDS Integers, FiniteSets

CONSTANTS
  Definitions,  \* schema definitions, and their IDs
  Levels,       \* compatibility levels
  None,         \* no definition, no level
  MaxVersion,   \* bound on the version numbers of the subject
  MaxLate       \* bound on requests still travelling after their timeout

ASSUME SchemaAssumption ==
  /\ None \notin Definitions \cup Levels
  /\ MaxVersion \in Nat \ {0}
  /\ MaxLate \in Nat

VARIABLES
  versions,  \* the definition live under each version number, or None
  top,       \* the highest version number given out so far
  level,     \* the subject's own compatibility level, or None
  global,    \* the registry's compatibility level
  late,      \* requests given up by the client that may still be executed
  record,    \* the resource in the Terraform state
  op,        \* the operation Terraform runs
  step,      \* the handler's next call
  config,    \* the configuration being applied
  info,      \* what the handler learned of the version it is after
  last,      \* the last operation and how it ended
  learned,   \* history: what the handler knows that nobody has changed since
  bond       \* history: what the record owes to the registry as it is now

registryVars == <<versions, top, level, global>>
taskVars     == <<op, step, config, info, last>>
vars         == <<registryVars, late, record, taskVars, learned, bond>>

Versions == 1..MaxVersion
Config   == [def : Definitions, level : Levels, refs : BOOLEAN]

NoRecord == [exists |-> FALSE, version |-> 0, def |-> None, level |-> None,
             refs |-> FALSE]
NoConfig == [def |-> None, level |-> None, refs |-> FALSE]
NoInfo   == [version |-> 0, def |-> None]
NoResult == [op |-> "none", result |-> "none"]

RecordValue  == {NoRecord} \cup
                [exists : {TRUE}, version : Versions, def : Definitions,
                 level : Levels, refs : BOOLEAN]
RequestValue == [kind : {"level"}, value : Levels]
                  \cup [kind : {"register"}, value : Definitions]
Ops    == {"none", "create", "read", "import", "update", "delete"}
Steps  == {"idle", "config", "level", "register", "versions", "fetch",
           "compatibility", "global", "delete"}

TypeOK ==
  /\ versions \in [Versions -> Definitions \cup {None}]
  /\ top \in 0..MaxVersion
  /\ level \in Levels \cup {None}
  /\ global \in Levels
  /\ late \in SUBSET RequestValue
  /\ record \in RecordValue
  /\ op \in Ops
  /\ step \in Steps
  /\ config \in Config \cup {NoConfig}
  /\ info \in [version : 0..MaxVersion, def : Definitions \cup {None}]
  /\ last \in [op : Ops, result : {"none", "ok", "failed", "invalid"}]
  /\ learned \in SUBSET {"version", "level", "unset"}
  /\ bond \in SUBSET {"version", "level"}

(* A fresh subject, or one that an earlier release registered together     *)
(* with references, which only such a record still holds.                  *)
Init ==
  /\ \E d \in Definitions \cup {None} :
       /\ versions = [v \in Versions |-> IF v = 1 THEN d ELSE None]
       /\ top = IF d = None THEN 0 ELSE 1
       /\ record \in {NoRecord} \cup
            [exists : {TRUE}, version : {1}, def : {d} \ {None},
             level : Levels, refs : {TRUE}]
  /\ level \in Levels \cup {None}
  /\ global \in Levels
  /\ late = {}
  /\ op = "none" /\ step = "idle"
  /\ config = NoConfig /\ info = NoInfo /\ last = NoResult
  /\ learned = {} /\ bond = {}

----------------------------------------------------------------------------
(* The registry (external).                                                *)

Live(d)   == {v \in Versions : versions[v] = d}
LiveAny   == {v \in Versions : versions[v] # None}
Effective == IF level = None THEN global ELSE level

(* The bound on version numbers is the only limit of the model here.       *)
Executable(r) == r.kind = "level" \/ Live(r.value) # {} \/ top < MaxVersion

(* Registering a definition that is live changes nothing.                  *)
Execute(r) ==
  /\ Executable(r)
  /\ UNCHANGED global
  /\ IF r.kind = "level"
     THEN level' = r.value /\ UNCHANGED <<versions, top>>
     ELSE /\ UNCHANGED level
          /\ IF Live(r.value) # {} THEN UNCHANGED <<versions, top>>
             ELSE /\ top' = top + 1
                  /\ versions' = [versions EXCEPT ![top + 1] = r.value]

(* What a change of kind k leaves of a set of facts.                       *)
Forget(facts, k) ==
  facts \ (IF k = "level" THEN {"level", "unset"}
           ELSE IF k = "version" THEN {"version"} ELSE {})

----------------------------------------------------------------------------
(* The running operation.                                                  *)

Begin(o, s, c) ==
  /\ op = "none"
  /\ op' = o
  /\ step' = s
  /\ config' = c
  /\ info' = NoInfo
  /\ last' = NoResult
  /\ learned' = IF o = "update" THEN bond ELSE {}
  /\ UNCHANGED <<registryVars, late, record, bond>>

Finish(result) ==
  /\ op' = "none"
  /\ step' = "idle"
  /\ config' = NoConfig
  /\ info' = NoInfo
  /\ last' = [op |-> op, result |-> result]
  /\ learned' = {}

(* A failing handler leaves the record as it was.                          *)
Fail == Finish("failed") /\ UNCHANGED <<record, bond>>

GoTo(s) == step' = s /\ UNCHANGED <<op, config, info, last, record, bond>>

(* The handler hands its result to core, which rejects an update whose     *)
(* version or ID is not the planned one, and stores it all the same.       *)
(* UseStateForUnknown had planned the recorded version and ID.             *)
Records(r, facts) ==
  /\ record' = r
  /\ bond' = facts
  /\ Finish(IF op = "update" /\ (r.version # record.version \/ r.def # record.def)
            THEN "invalid" ELSE "ok")

(* Any call may fail, at no cost to the registry: no usable answer, an     *)
(* incompatible definition, a version that is gone or has another ID.  Or  *)
(* the provider is killed.                                                 *)
CallFails ==
  /\ op # "none"
  /\ Fail
  /\ UNCHANGED <<registryVars, late>>

----------------------------------------------------------------------------
(* Terraform core starts an operation.                                     *)

(* Mutants: an Update that does not see the one or the other change.       *)
DefinitionChangedNever(c) == FALSE
LevelChangedNever(c)      == FALSE

(* schemaDefinitionChanged: a changed reference list replaces, so that an  *)
(* update never meets one.                                                 *)
DefinitionChanged(c) == c.def # record.def
LevelChanged(c)      == c.level # record.level

PlanKind(c) ==
  IF ~record.exists THEN "create"
  ELSE IF c.refs # record.refs THEN "replace"
  ELSE IF c.def # record.def \/ c.level # record.level THEN "update"
  ELSE "noop"

StartCreate(c) == PlanKind(c) = "create" /\ Begin("create", "config", c)

StartUpdate(c) ==
  /\ PlanKind(c) = "update"
  /\ Begin("update", IF LevelChanged(c) THEN "level" ELSE "config", c)

(* A destroy, or the first half of a replacement.                          *)
StartDelete ==
  /\ record.exists
  /\ Begin("delete", "delete", NoConfig)

StartRefresh == record.exists  /\ Begin("read", "fetch", NoConfig)
StartImport  == ~record.exists /\ Begin("import", "fetch", NoConfig)

----------------------------------------------------------------------------
(* Create and Update.                                                      *)

(* schemaConfigFromModel refuses any reference.  Create asks before its    *)
(* first request, Update only after it has set the level.                  *)
ConfigRefused ==
  /\ step = "config" /\ config.refs
  /\ Fail
  /\ UNCHANGED <<registryVars, late>>

ConfigAccepted ==
  /\ step = "config" /\ ~config.refs
  /\ GoTo(IF op = "create" THEN "level" ELSE "register")
  /\ UNCHANGED <<registryVars, late, learned>>

Request ==
  IF step = "level" THEN [kind |-> "level", value |-> config.level]
                    ELSE [kind |-> "register", value |-> config.def]

(* The level is set: Create and an Update with a new definition go on to   *)
(* register, any other Update keeps the recorded version and is done.      *)
LevelSet ==
  /\ step = "level"
  /\ Execute(Request)
  /\ LET facts == learned \cup {"level"}
     IN  IF op = "update" /\ ~DefinitionChanged(config)
         THEN Records([record EXCEPT !.level = config.level, !.def = config.def],
                      facts)
         ELSE /\ step' = IF op = "create" THEN "register" ELSE "config"
              /\ learned' = facts
              /\ bond' = bond \ {"level"}
              /\ UNCHANGED <<op, config, info, last, record>>
  /\ UNCHANGED late

Registered ==
  /\ step = "register"
  /\ Execute(Request)
  /\ GoTo("versions")
  /\ UNCHANGED <<late, learned>>

(* The request was executed and its reply lost, ...                        *)
ReplyLost ==
  /\ step \in {"level", "register"}
  /\ Execute(Request)
  /\ bond' = Forget(bond, Request.kind)
  /\ Finish("failed")
  /\ UNCHANGED <<late, record>>

(* ... or it is still on its way.                                          *)
RequestDelayed ==
  /\ step \in {"level", "register"}
  /\ Cardinality(late) < MaxLate
  /\ late' = late \cup {Request}
  /\ Fail
  /\ UNCHANGED registryVars

Highest(V) == {v \in V : \A w \in V : w <= v}

(* Mutant of HighestVersion: no version is 0, which asks for the latest.   *)
HighestVersionOrLatest(d) == IF Live(d) = {} THEN {0} ELSE Highest(Live(d))

(* GetSchemaVersionForID: the highest version of the subject with the ID   *)
(* that registering returned; none is an error.                            *)
HighestVersion(d) == Highest(Live(d))

VersionResolved ==
  /\ step = "versions"
  /\ \E v \in HighestVersion(config.def) : info' = [info EXCEPT !.version = v]
  /\ step' = "fetch"
  /\ UNCHANGED <<op, config, last, record, bond, registryVars, late, learned>>

(* Mutant of SameID: the ID of the version that was fetched is not looked  *)
(* at.                                                                     *)
AnyID(d)  == TRUE
SameID(d) == d = config.def

(* GetSchema of the resolved version, whose ID is compared once more.      *)
ResultFetched ==
  /\ op \in {"create", "update"} /\ step = "fetch"
  /\ LET d == versions[info.version]
     IN  /\ d # None /\ SameID(d)
         /\ Records([exists |-> TRUE, version |-> info.version, def |-> d,
                     level |-> config.level, refs |-> config.refs],
                    learned \cup {"version"})
  /\ UNCHANGED <<registryVars, late>>

----------------------------------------------------------------------------
(* Read, ImportState and Delete.                                           *)

(* GetSchema: version 0, that of an import, asks for the latest one.       *)
Wanted ==
  IF op = "read" THEN {record.version} \cap LiveAny ELSE Highest(LiveAny)

ReadFetched ==
  /\ op \in {"read", "import"} /\ step = "fetch"
  /\ \E v \in Wanted : info' = [version |-> v, def |-> versions[v]]
  /\ step' = "compatibility"
  /\ learned' = learned \cup {"version"}
  /\ UNCHANGED <<op, config, last, record, bond, registryVars, late>>

(* Mutant of VersionMissing: refresh takes any answer for a missing one.   *)
VersionUnproven == TRUE
VersionMissing  == Wanted = {}

(* A 404 drops the record; an import without a subject fails.              *)
ReadMissing ==
  /\ op \in {"read", "import"} /\ step = "fetch"
  /\ VersionMissing
  /\ IF op = "read" THEN record' = NoRecord /\ bond' = {} /\ Finish("ok")
                    ELSE Fail
  /\ UNCHANGED <<registryVars, late>>

ReadRecords(l, facts) ==
  Records([exists |-> TRUE, version |-> info.version, def |-> info.def,
           level |-> l, refs |-> record.refs], facts)

(* GetCompatibility: the subject's level, ...                              *)
SubjectLevelRead ==
  /\ step = "compatibility" /\ level # None
  /\ ReadRecords(level, learned \cup {"level"})
  /\ UNCHANGED <<registryVars, late>>

(* Mutant of NoSubjectLevel: any answer but a level is taken for none.     *)
SubjectLevelUnproven == TRUE
NoSubjectLevel == level = None

(* ... or, if it has none, a second request for the registry's own.        *)
SubjectLevelMissing ==
  /\ step = "compatibility" /\ NoSubjectLevel
  /\ GoTo("global")
  /\ learned' = learned \cup {"unset"}
  /\ UNCHANGED <<registryVars, late>>

GlobalLevelRead ==
  /\ step = "global"
  /\ ReadRecords(global, (learned \ {"unset"}) \cup
                         {f \in {"level"} : "unset" \in learned})
  /\ UNCHANGED <<registryVars, late>>

(* Production never deletes: the subject-wide deletion is asynchronous.    *)
DeleteRefused ==
  /\ step = "delete"
  /\ Fail
  /\ UNCHANGED <<registryVars, late>>

----------------------------------------------------------------------------
(* The environment.                                                        *)

LateArrives(r) ==
  /\ r \in late
  /\ late' = late \ {r}
  /\ Execute(r)
  /\ learned' = Forget(learned, r.kind)
  /\ bond' = Forget(bond, r.kind)
  /\ UNCHANGED <<record, taskVars>>

LateDropped(r) ==
  /\ r \in late
  /\ late' = late \ {r}
  /\ UNCHANGED <<registryVars, record, taskVars, learned, bond>>

(* A producer, or another Terraform state, registers a version.            *)
OthersRegister(d) ==
  /\ Live(d) = {}
  /\ Execute([kind |-> "register", value |-> d])
  /\ UNCHANGED <<late, record, taskVars, learned, bond>>

OthersDeleteVersion(v) ==
  /\ versions[v] # None
  /\ versions' = [versions EXCEPT ![v] = None]
  /\ UNCHANGED <<top, level, global, late, record, taskVars, learned, bond>>

(* A permanent deletion of the subject: its versions start again at 1.     *)
OthersDeleteSubject ==
  /\ top > 0
  /\ versions' = [v \in Versions |-> None]
  /\ top' = 0
  /\ learned' = Forget(learned, "version")
  /\ bond' = Forget(bond, "version")
  /\ UNCHANGED <<level, global, late, record, taskVars>>

OthersSetLevel(l) ==
  /\ level # l
  /\ level' = l
  /\ learned' = Forget(learned, "level")
  /\ bond' = Forget(bond, "level")
  /\ UNCHANGED <<versions, top, global, late, record, taskVars>>

OthersSetGlobal(l) ==
  /\ global # l
  /\ global' = l
  /\ IF level = None
     THEN learned' = learned \ {"level"} /\ bond' = bond \ {"level"}
     ELSE UNCHANGED <<learned, bond>>
  /\ UNCHANGED <<versions, top, level, late, record, taskVars>>

----------------------------------------------------------------------------

ClientStep ==
  \/ CallFails
  \/ ConfigRefused \/ ConfigAccepted
  \/ LevelSet \/ Registered \/ ReplyLost \/ RequestDelayed
  \/ VersionResolved \/ ResultFetched
  \/ ReadFetched \/ ReadMissing
  \/ SubjectLevelRead \/ SubjectLevelMissing \/ GlobalLevelRead
  \/ DeleteRefused

CoreStep ==
  \/ \E c \in Config : StartCreate(c) \/ StartUpdate(c)
  \/ StartDelete \/ StartRefresh \/ StartImport

EnvironmentStep ==
  \/ \E r \in late : LateArrives(r) \/ LateDropped(r)
  \/ \E d \in Definitions : OthersRegister(d)
  \/ \E v \in Versions : OthersDeleteVersion(v)
  \/ OthersDeleteSubject
  \/ \E l \in Levels \cup {None} : OthersSetLevel(l)
  \/ \E l \in Levels : OthersSetGlobal(l)

Next == ClientStep \/ CoreStep \/ EnvironmentStep

Spec == Init /\ [][Next]_vars

----------------------------------------------------------------------------
(* Properties.                                                             *)

(* Unless the subject was deleted for good since, the recorded version is  *)
(* a number the registry has given out, and what lives under it is the     *)
(* recorded definition: applySchemaInfo never mixes two versions.          *)
VersionFaithful ==
  "version" \in bond => /\ record.exists
                        /\ record.version <= top
                        /\ versions[record.version] \in {record.def, None}

(* Unless somebody else, or an apply that failed half-way, changed it      *)
(* since, the recorded compatibility is the one in force for the subject.  *)
LevelFaithful ==
  "level" \in bond => record.exists /\ record.level = Effective

(* What Create and Update record is the definition they were asked for,    *)
(* under a version that holds it at that moment, however versions were     *)
(* deleted and registered between the handler's requests.                  *)
RecordsWhatWasRegistered ==
  [][(op \in {"create", "update"} /\ record' # record)
       => /\ record'.def = config.def
          /\ record'.level = config.level
          /\ step = "fetch" => versions[record'.version] = config.def]_vars

(* A record goes only when a refresh finds its version missing: a destroy, *)
(* a replacement and every failure keep it.                                *)
RecordKept ==
  [][(record.exists /\ ~record'.exists)
       => versions[record.version] = None]_vars

(* A refresh reports no drift of its own making: however its requests mix  *)
(* with those of others, it changes only what somebody else, or an apply   *)
(* that failed half-way, has changed.                                      *)
NoPhantomDrift ==
  [][(op = "read" /\ record'.exists)
       => /\ record'.version = record.version
          /\ "version" \in bond => record'.def = record.def
          /\ "level" \in bond => record'.level = record.level]_vars

(* An update that succeeds returns the version and ID it planned: core     *)
(* never rejects the registration of a new definition.                     *)
UpdateResultAsPlanned == last.op = "update" => last.result # "invalid"

(* Has the running Create or Update set the level?                         *)
Leveled ==
  \/ op = "create" /\ step \in {"register", "versions", "fetch"}
  \/ op = "update" /\ step # "level" /\ LevelChanged(config)

(* Each operation fails and leaves the record alone, or what it records    *)
(* agreed with the registry, part by part, in the instants SchemaContract  *)
(* names: level and version of an apply, version and level of a refresh.   *)
(* The other requests, and those of others between them, cannot be told    *)
(* from outside.                                                           *)
Contract == INSTANCE SchemaContract WITH
              wanted <- config, found <- info,
              leveled <- Leveled, unset <- step = "global"

ImplementsContract == Contract!Spec

(* Where each operation stands, and what it knows there.                   *)
TaskOK ==
  /\ op = "none" <=> step = "idle"
  /\ op \in {"create", "import"} => ~record.exists
  /\ op \in {"read", "update", "delete"} => record.exists
  /\ op \in {"create", "update"} <=> config # NoConfig
  /\ op = "create" => step \in {"config", "level", "register", "versions", "fetch"}
  /\ op = "update" => step \in {"config", "level", "register", "versions", "fetch"}
  /\ op = "update" => config.refs = record.refs
  /\ (op = "update" /\ step = "level") => LevelChanged(config)
  /\ op \in {"read", "import"} => step \in {"fetch", "compatibility", "global"}
  /\ op = "delete" => step = "delete"
  /\ (op \in {"create", "update"} /\ step = "fetch") => info.version \in Versions
  /\ step \in {"compatibility", "global"}
       => info.version \in Versions /\ info.def \in Definitions
  /\ (op \in {"create", "update"} /\ step \in {"register", "versions", "fetch"})
       => ~config.refs
  /\ (op = "create" /\ step = "level") => ~config.refs

(* The version numbers above top have not been given out.                  *)
RegistryOK == \A v \in Versions : v > top => versions[v] = None

(* What the handler believes is still true of the registry.                *)
LearnedOK ==
  /\ op = "none" => learned = {}
  /\ "unset" \in learned => level = None /\ step = "global"
  /\ ("level" \in learned /\ op \in {"create", "update"} /\ step # "level")
       => Effective = config.level
  /\ op \in {"read", "import"} => "level" \notin learned
  /\ ("version" \in learned /\ op \in {"read", "import"})
       => /\ step # "fetch" /\ info.version <= top
          /\ versions[info.version] \in {info.def, None}
  /\ ("version" \in learned /\ op = "update") => "version" \in bond

(* The invariant as it is inductive.                                       *)
IInv == TypeOK /\ TaskOK /\ RegistryOK /\ LearnedOK
          /\ VersionFaithful /\ LevelFaithful
============================================================================
