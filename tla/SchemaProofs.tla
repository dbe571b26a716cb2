---------------------------- MODULE SchemaProofs ----------------------------
(***************************************************************************)
(* What holds of Schema for every set of definitions and levels and every  *)
(* number of versions: the record stays true to the registry until someone *)
(* else changes it, and is neither mixed up nor dropped by a handler.      *)
(***************************************************************************)
EXTENDS Schema, TLAPS

USE SchemaAssumption

----------------------------------------------------------------------------
(* The registry.                                                           *)

(* The parts of the state that the registry owns.                          *)
RegistryTyped ==
  /\ versions \in [Versions -> Definitions \cup {None}]
  /\ top \in 0..MaxVersion
  /\ level \in Levels \cup {None}
  /\ global \in Levels

(* A record is nothing, or has a version, a definition and a level.        *)
LEMMA RecordShape ==
  ASSUME TypeOK
  PROVE  /\ record.exists \in BOOLEAN
         /\ record.exists => /\ record \in [exists : {TRUE}, version : Versions,
                                            def : Definitions, level : Levels,
                                            refs : BOOLEAN]
                             /\ record.version \in Versions
                             /\ record.def \in Definitions
                             /\ record.level \in Levels
         /\ ~record.exists => record = NoRecord
         /\ record.refs \in BOOLEAN
<1>1. CASE record = NoRecord
  BY <1>1 DEF NoRecord
<1>2. CASE record \in [exists : {TRUE}, version : Versions, def : Definitions,
                       level : Levels, refs : BOOLEAN]
  <2>1. /\ record.exists = TRUE /\ record.version \in Versions
        /\ record.def \in Definitions /\ record.level \in Levels
        /\ record.refs \in BOOLEAN
    BY <1>2
  <2> QED
    BY <1>2, <2>1
<1> QED
  BY <1>1, <1>2 DEF TypeOK, RecordValue

(* A configuration has a definition and a level.                           *)
LEMMA ConfigShape ==
  ASSUME TypeOK, config # NoConfig
  PROVE  config \in Config /\ config.def \in Definitions
           /\ config.level \in Levels /\ config.refs \in BOOLEAN
BY DEF TypeOK, Config

(* A request changes one part of the registry: it sets the level, or gives *)
(* a definition the next version number, which nothing lives under.        *)
LEMMA Executed ==
  ASSUME TypeOK, RegistryOK, NEW r \in RequestValue, Execute(r)
  PROVE  /\ RegistryTyped' /\ RegistryOK'
         /\ UNCHANGED global
         /\ r.kind = "level" =>
              r.value \in Levels /\ level' = r.value /\ UNCHANGED <<versions, top>>
         /\ r.kind # "level" =>
              /\ r.kind = "register"
              /\ UNCHANGED level
              /\ top <= top'
              /\ \A v \in Versions : v <= top => versions'[v] = versions[v]
<1>1. CASE r.kind = "level"
  BY <1>1 DEF Execute, RequestValue, TypeOK, RegistryTyped, RegistryOK
<1>2. CASE r.kind # "level"
  <2>1. r.kind = "register" /\ r.value \in Definitions
    BY <1>2 DEF RequestValue
  <2>2. CASE Live(r.value) # {}
    BY <1>2, <2>1, <2>2 DEF Execute, TypeOK, RegistryTyped, RegistryOK
  <2>3. CASE Live(r.value) = {}
    <3>1. top' = top + 1 /\ versions' = [versions EXCEPT ![top + 1] = r.value]
      BY <1>2, <2>3 DEF Execute
    <3>2. top < MaxVersion
      BY <1>2, <2>3 DEF Execute, Executable
    <3>3. top + 1 \in Versions
      BY <3>2 DEF TypeOK, Versions
    <3>4. \A v \in Versions : v # top + 1 => versions'[v] = versions[v]
      BY <3>1 DEF TypeOK
    <3>5. RegistryTyped'
      BY <1>2, <2>1, <3>1, <3>2, <3>3 DEF Execute, TypeOK, RegistryTyped
    <3>6. RegistryOK'
      BY <3>1, <3>4 DEF TypeOK, RegistryOK, Versions
    <3> QED
      BY <1>2, <2>1, <3>1, <3>4, <3>5, <3>6 DEF Execute, TypeOK, Versions
  <2> QED
    BY <2>2, <2>3
<1> QED
  BY <1>1, <1>2

(* What is requested at either step.                                       *)
LEMMA Requested ==
  ASSUME IInv, step \in {"level", "register"}
  PROVE  /\ op \in {"create", "update"}
         /\ config # NoConfig
         /\ Request \in RequestValue
         /\ step = "level" => Request.kind = "level" /\ Request.value = config.level
         /\ step = "register" => Request.kind = "register"
<1>1. op \in {"create", "update"} /\ config # NoConfig
  BY DEF IInv, TypeOK, TaskOK, Ops
<1>2. config.def \in Definitions /\ config.level \in Levels
  BY <1>1, ConfigShape DEF IInv
<1> QED
  BY <1>1, <1>2 DEF Request, RequestValue

(* What lives under a version number that was given out does not change    *)
(* until the subject is deleted for good, and the level in force does not  *)
(* until somebody sets it.                                                 *)
LEMMA FactsSurvive ==
  ASSUME IInv, NEW r \in RequestValue, Execute(r)
  PROVE  /\ r.kind # "level" => Effective' = Effective /\ UNCHANGED level
         /\ \A v \in Versions : v <= top => v <= top' /\ versions'[v] = versions[v]
         /\ r.kind \in {"level", "register"}
<1>1. top \in Nat /\ TypeOK /\ RegistryOK
  BY DEF IInv, TypeOK
<1>2. UNCHANGED global
  BY <1>1, Executed
<1>3. CASE r.kind = "level"
  <2>1. UNCHANGED <<versions, top>>
    BY <1>1, <1>3, Executed
  <2> QED
    BY <1>3, <2>1
<1>4. CASE r.kind # "level"
  <2>1. /\ r.kind = "register" /\ UNCHANGED level /\ top <= top'
        /\ \A v \in Versions : v <= top => versions'[v] = versions[v]
        /\ top' \in Nat
    BY <1>1, <1>4, Executed DEF RegistryTyped
  <2> QED
    BY <1>1, <1>2, <1>4, <2>1 DEF Effective, Versions
<1> QED
  BY <1>3, <1>4

----------------------------------------------------------------------------
(* The invariant.                                                          *)

LEMMA InitOK == Init => IInv
<1> SUFFICES ASSUME Init PROVE IInv
  OBVIOUS
<1>1. 1 \in Versions /\ 0 \in 0..MaxVersion /\ 1 \in 0..MaxVersion
  BY DEF Versions
<1>2. TypeOK
  BY <1>1 DEF Init, TypeOK, RecordValue, NoConfig, NoInfo, NoResult, Ops, Steps
<1>3. TaskOK
  BY DEF Init, TaskOK
<1>4. RegistryOK
  BY DEF Init, RegistryOK, Versions
<1>5. LearnedOK /\ VersionFaithful /\ LevelFaithful
  BY DEF Init, LearnedOK, VersionFaithful, LevelFaithful
<1> QED
  BY <1>2, <1>3, <1>4, <1>5 DEF IInv

(* What a step owes to the state outside of the running operation.         *)
OutsideOK ==
  /\ RegistryTyped /\ RegistryOK
  /\ late \in SUBSET RequestValue
  /\ record \in RecordValue
  /\ bond \in SUBSET {"version", "level"}
  /\ VersionFaithful /\ LevelFaithful

(* The provider's handlers end in states from which everything may begin.  *)
LEMMA FinishOK ==
  ASSUME IInv, OutsideOK', NEW result \in {"none", "ok", "failed", "invalid"},
         Finish(result)
  PROVE  IInv'
<1>1. TypeOK'
  BY DEF OutsideOK, RegistryTyped, IInv, TypeOK, Finish, NoInfo, Ops, Steps
<1>2. TaskOK'
  BY DEF TaskOK, Finish
<1>3. LearnedOK'
  BY DEF LearnedOK, Finish
<1> QED
  BY <1>1, <1>2, <1>3 DEF IInv, OutsideOK

(* Whoever leaves registry and record alone leaves what they promise.      *)
LEMMA UntouchedOK ==
  ASSUME IInv, UNCHANGED <<registryVars, record, bond>>, late' \in SUBSET RequestValue
  PROVE  OutsideOK'
<1>1. RegistryTyped' /\ RegistryOK'
  BY DEF IInv, TypeOK, RegistryTyped, RegistryOK, registryVars
<1>2. VersionFaithful' /\ LevelFaithful'
  BY DEF IInv, VersionFaithful, LevelFaithful, Effective, registryVars
<1> QED
  BY <1>1, <1>2 DEF IInv, TypeOK, OutsideOK

(* A result is recorded together with facts that hold of it.               *)
LEMMA RecordsOK ==
  ASSUME IInv, NEW r \in RecordValue, NEW facts \in SUBSET {"version", "level"},
         RegistryTyped', RegistryOK', UNCHANGED late, Records(r, facts),
         r.exists,
         "version" \in facts =>
           r.version <= top' /\ versions'[r.version] \in {r.def, None},
         "level" \in facts => r.level = Effective'
  PROVE  IInv'
<1>1. OutsideOK'
  BY DEF OutsideOK, Records, VersionFaithful, LevelFaithful, IInv, TypeOK
<1> QED
  BY <1>1, FinishOK DEF Records

(* An operation that Terraform core begins.  An update starts from what    *)
(* the record owes to the registry.                                        *)
LEMMA BeginOK ==
  ASSUME IInv, CoreStep
  PROVE  IInv'
<1> USE DEF IInv
<1>1. PICK o \in {"create", "read", "import", "update", "delete"},
           s \in {"config", "level", "fetch", "delete"},
           c \in Config \cup {NoConfig} :
        /\ Begin(o, s, c)
        /\ o \in {"create", "import"} => ~record.exists
        /\ o \in {"read", "update", "delete"} => record.exists
        /\ o \in {"create", "update"} <=> c # NoConfig
        /\ o = "create" => s = "config"
        /\ o = "update" => /\ s \in {"config", "level"}
                           /\ c.refs = record.refs
                           /\ s = "config" => c.level = record.level
                           /\ s = "level" => c.level # record.level
        /\ o \in {"read", "import"} => s = "fetch"
        /\ o = "delete" => s = "delete"
  <2>1. \A c \in Config : c # NoConfig
    BY DEF Config, NoConfig
  <2>2. ASSUME NEW c \in Config, StartCreate(c)
        PROVE  ~record.exists /\ Begin("create", "config", c)
    BY <2>2, RecordShape DEF StartCreate, PlanKind
  <2>3. ASSUME NEW c \in Config, StartUpdate(c)
        PROVE  /\ record.exists /\ c.refs = record.refs
               /\ \/ Begin("update", "level", c) /\ c.level # record.level
                  \/ Begin("update", "config", c) /\ c.level = record.level
    <3>1. record.exists
      BY <2>3, RecordShape DEF StartUpdate, PlanKind
    <3>2. c.refs = record.refs
      BY <2>3, <3>1 DEF StartUpdate, PlanKind
    <3>3. CASE LevelChanged(c)
      BY <2>3, <3>1, <3>2, <3>3 DEF StartUpdate, LevelChanged
    <3>4. CASE ~LevelChanged(c)
      BY <2>3, <3>1, <3>2, <3>4 DEF StartUpdate, LevelChanged
    <3> QED
      BY <3>3, <3>4
  <2>4. CASE \E c \in Config : StartCreate(c)
    BY <2>1, <2>2, <2>4
  <2>5. CASE \E c \in Config : StartUpdate(c)
    BY <2>1, <2>3, <2>5
  <2>6. CASE StartDelete \/ StartRefresh \/ StartImport
    BY <2>6, RecordShape DEF StartDelete, StartRefresh, StartImport
  <2> QED
    BY <2>4, <2>5, <2>6 DEF CoreStep
<1>2. TypeOK'
  BY <1>1 DEF TypeOK, Begin, registryVars, Ops, Steps, NoInfo, NoResult
<1>3. TaskOK'
  BY <1>1 DEF TaskOK, Begin, LevelChanged
<1>4. OutsideOK'
  BY <1>1, UntouchedOK DEF Begin, TypeOK
<1>5. LearnedOK'
  <2>1. CASE o # "update"
    BY <1>1, <2>1 DEF LearnedOK, Begin
  <2>2. CASE o = "update"
    <3>1. learned' = bond /\ op' = "update" /\ step' = s /\ config' = c
      BY <1>1, <2>2 DEF Begin
    <3>2. "level" \in bond => record.level = Effective
      BY DEF LevelFaithful
    <3>3. UNCHANGED <<level, global, bond>>
      BY <1>1 DEF Begin, registryVars
    <3>4. "unset" \notin bond
      BY DEF TypeOK
    <3>5. ("level" \in bond /\ s # "level") => Effective' = c.level
      BY <1>1, <2>2, <3>2, <3>3 DEF Effective
    <3> QED
      BY <3>1, <3>3, <3>4, <3>5 DEF LearnedOK
  <2> QED
    BY <2>1, <2>2
<1> QED
  BY <1>2, <1>3, <1>4, <1>5 DEF OutsideOK

(* The checks of Create and Update.                                        *)
LEMMA ConfigStepsOK ==
  ASSUME IInv, CallFails \/ ConfigRefused \/ ConfigAccepted \/ DeleteRefused
  PROVE  IInv'
<1> USE DEF IInv
<1>1. CASE CallFails \/ ConfigRefused \/ DeleteRefused
  <2>1. Finish("failed") /\ UNCHANGED <<registryVars, late, record, bond>>
    BY <1>1 DEF CallFails, ConfigRefused, DeleteRefused, Fail
  <2> QED
    BY <2>1, UntouchedOK, FinishOK DEF TypeOK
<1>2. CASE ConfigAccepted
  <2>1. op \in {"create", "update"} /\ step = "config" /\ ~config.refs
    BY <1>2 DEF ConfigAccepted, TypeOK, TaskOK, Ops
  <2>2. TypeOK'
    BY <1>2, <2>1 DEF TypeOK, ConfigAccepted, GoTo, registryVars, Steps
  <2>3. TaskOK'
    BY <1>2, <2>1 DEF TaskOK, ConfigAccepted, GoTo
  <2>4. LearnedOK'
    BY <1>2, <2>1 DEF LearnedOK, ConfigAccepted, GoTo, registryVars, Effective
  <2>5. OutsideOK'
    BY <1>2, UntouchedOK DEF ConfigAccepted, GoTo, TypeOK
  <2> QED
    BY <2>2, <2>3, <2>4, <2>5 DEF OutsideOK
<1> QED
  BY <1>1, <1>2

(* The level is set: the handler goes on, or records it with what it had.  *)
LEMMA LevelSetOK ==
  ASSUME IInv, LevelSet
  PROVE  IInv'
<1> USE DEF IInv
<1> DEFINE facts == learned \cup {"level"}
<1>1. /\ step = "level" /\ op \in {"create", "update"} /\ config # NoConfig
      /\ Execute(Request) /\ Request \in RequestValue
      /\ Request.kind = "level" /\ Request.value = config.level
      /\ UNCHANGED late
  BY Requested DEF LevelSet
<1>2. /\ RegistryTyped' /\ RegistryOK' /\ UNCHANGED <<versions, top, global>>
      /\ level' = config.level /\ config.level \in Levels
  BY <1>1, Executed
<1>3. Effective' = config.level
  BY <1>2 DEF Effective
<1>4. learned \subseteq {"version", "level"}
  BY <1>1 DEF TypeOK, LearnedOK
<1>5. config.def \in Definitions /\ config.refs \in BOOLEAN
  BY <1>1, ConfigShape
<1>6. CASE op = "update" /\ ~DefinitionChanged(config)
  <2> DEFINE r == [record EXCEPT !.level = config.level, !.def = config.def]
  <2>1. Records(r, facts)
    BY <1>6 DEF LevelSet
  <2>2. record.exists /\ config.def = record.def
    BY <1>6 DEF TaskOK, DefinitionChanged
  <2>3. record \in [exists : {TRUE}, version : Versions, def : Definitions,
                    level : Levels, refs : BOOLEAN]
    BY <2>2, RecordShape
  <2>4. /\ r \in RecordValue /\ r.exists /\ r.version = record.version
        /\ r.def = record.def /\ r.level = config.level
    BY <1>2, <1>5, <2>2, <2>3 DEF RecordValue
  <2>5. "version" \in facts =>
          record.version <= top /\ versions[record.version] \in {record.def, None}
    BY <1>6 DEF LearnedOK, VersionFaithful
  <2>6. "version" \in facts =>
          r.version <= top' /\ versions'[r.version] \in {r.def, None}
    BY <1>2, <2>4, <2>5
  <2>7. "level" \in facts => r.level = Effective'
    BY <1>3, <2>4
  <2>8. facts \in SUBSET {"version", "level"}
    BY <1>4
  <2> HIDE DEF r, facts
  <2> QED
    BY <1>1, <1>2, <2>1, <2>4, <2>6, <2>7, <2>8, RecordsOK
<1>7. CASE ~(op = "update" /\ ~DefinitionChanged(config))
  <2>1. /\ step' = IF op = "create" THEN "register" ELSE "config"
        /\ learned' = facts
        /\ bond' = bond \ {"level"}
        /\ UNCHANGED <<op, config, info, last, record>>
    BY <1>7 DEF LevelSet
  <2>2. TypeOK'
    BY <1>1, <1>2, <2>1 DEF TypeOK, RegistryTyped, Steps
  <2>3. TaskOK'
    BY <1>1, <2>1 DEF TaskOK
  <2>4. LearnedOK'
    BY <1>1, <1>3, <1>4, <2>1 DEF LearnedOK
  <2>5. VersionFaithful' /\ LevelFaithful'
    BY <1>2, <2>1 DEF VersionFaithful, LevelFaithful
  <2> QED
    BY <1>2, <2>2, <2>3, <2>4, <2>5
<1> QED
  BY <1>6, <1>7

(* What a request that somebody else may notice leaves of the facts.       *)
LEMMA ForgottenOK ==
  ASSUME IInv, NEW r \in RequestValue, Execute(r), UNCHANGED record,
         bond' = Forget(bond, r.kind)
  PROVE  /\ bond' \in SUBSET {"version", "level"}
         /\ VersionFaithful' /\ LevelFaithful'
<1> USE DEF IInv
<1>1. bond' \subseteq bond /\ (r.kind = "level" => "level" \notin bond')
  BY DEF Forget
<1>2. VersionFaithful'
  <2> SUFFICES ASSUME "version" \in bond'
               PROVE  /\ record.exists /\ record.version <= top'
                      /\ versions'[record.version] \in {record.def, None}
    BY DEF VersionFaithful
  <2>1. /\ record.exists /\ record.version <= top
        /\ versions[record.version] \in {record.def, None}
    BY <1>1 DEF VersionFaithful
  <2>2. record.version \in Versions
    BY <2>1, RecordShape
  <2> QED
    BY <2>1, <2>2, FactsSurvive
<1>3. LevelFaithful'
  BY <1>1, FactsSurvive DEF LevelFaithful
<1> QED
  BY <1>1, <1>2, <1>3 DEF TypeOK

(* The other requests of Create and Update.                                *)
LEMMA RequestStepsOK ==
  ASSUME IInv, Registered \/ ReplyLost \/ RequestDelayed
  PROVE  IInv'
<1> USE DEF IInv
<1>1. CASE Registered
  <2>1. /\ step = "register" /\ op \in {"create", "update"} /\ config # NoConfig
        /\ Execute(Request) /\ Request \in RequestValue
        /\ Request.kind = "register"
    BY <1>1, Requested DEF Registered
  <2>2. /\ step' = "versions" /\ UNCHANGED <<op, config, info, last, record, bond>>
        /\ UNCHANGED <<late, learned>>
    BY <1>1 DEF Registered, GoTo
  <2>3. RegistryTyped' /\ RegistryOK'
    BY <2>1, Executed
  <2>4. TypeOK'
    BY <2>2, <2>3 DEF TypeOK, RegistryTyped, Steps
  <2>5. TaskOK'
    BY <2>1, <2>2 DEF TaskOK
  <2>6. LearnedOK'
    BY <2>1, <2>2, FactsSurvive DEF LearnedOK
  <2>7. VersionFaithful' /\ LevelFaithful'
    <3>1. record.exists => record.version \in Versions
      BY RecordShape
    <3> QED
      BY <2>1, <2>2, <3>1, FactsSurvive DEF VersionFaithful, LevelFaithful
  <2> QED
    BY <2>3, <2>4, <2>5, <2>6, <2>7
<1>2. CASE ReplyLost
  <2>1. Execute(Request) /\ Request \in RequestValue
    BY <1>2, Requested DEF ReplyLost
  <2>2. /\ bond' = Forget(bond, Request.kind) /\ Finish("failed")
        /\ UNCHANGED <<late, record>>
    BY <1>2 DEF ReplyLost
  <2>3. RegistryTyped' /\ RegistryOK'
    BY <2>1, Executed
  <2>4. OutsideOK'
    BY <2>1, <2>2, <2>3, ForgottenOK DEF OutsideOK, TypeOK
  <2> QED
    BY <2>2, <2>4, FinishOK
<1>3. CASE RequestDelayed
  <2>1. Request \in RequestValue
    BY <1>3, Requested DEF RequestDelayed
  <2>2. /\ late' = late \cup {Request} /\ Finish("failed")
        /\ UNCHANGED <<registryVars, record, bond>>
    BY <1>3 DEF RequestDelayed, Fail
  <2> QED
    BY <2>1, <2>2, UntouchedOK, FinishOK DEF TypeOK
<1> QED
  BY <1>1, <1>2, <1>3

(* Resolving and fetching the version of the new definition.               *)
LEMMA ResultStepsOK ==
  ASSUME IInv, VersionResolved \/ ResultFetched
  PROVE  IInv'
<1> USE DEF IInv
<1>1. CASE VersionResolved
  <2>1. PICK v \in HighestVersion(config.def) : info' = [info EXCEPT !.version = v]
    BY <1>1 DEF VersionResolved
  <2>2. v \in Versions /\ info'.version = v
    BY <2>1 DEF HighestVersion, Highest, Live, TypeOK
  <2>3. v \in 0..MaxVersion
    BY <2>2 DEF Versions
  <2>4. info' \in [version : 0..MaxVersion, def : Definitions \cup {None}]
    BY <2>1, <2>3 DEF TypeOK
  <2>5. /\ step = "versions" /\ step' = "fetch" /\ op \in {"create", "update"}
        /\ UNCHANGED <<op, config, last, record, bond, registryVars, late, learned>>
    BY <1>1 DEF VersionResolved, TypeOK, TaskOK, Ops
  <2>6. TypeOK'
    BY <2>4, <2>5 DEF TypeOK, registryVars, Steps
  <2>7. TaskOK'
    BY <2>2, <2>5 DEF TaskOK
  <2>8. LearnedOK'
    BY <2>5 DEF LearnedOK, registryVars, Effective
  <2>9. OutsideOK'
    BY <2>5, UntouchedOK DEF TypeOK
  <2> QED
    BY <2>6, <2>7, <2>8, <2>9 DEF OutsideOK
<1>2. CASE ResultFetched
  <2> DEFINE d == versions[info.version]
             r == [exists |-> TRUE, version |-> info.version, def |-> d,
                   level |-> config.level, refs |-> config.refs]
             facts == learned \cup {"version"}
  <2>1. /\ op \in {"create", "update"} /\ step = "fetch"
        /\ d # None /\ Records(r, facts) /\ UNCHANGED <<registryVars, late>>
    BY <1>2 DEF ResultFetched
  <2>2. /\ info.version \in Versions /\ config # NoConfig
    BY <2>1 DEF TaskOK
  <2>3. d \in Definitions
    BY <2>1, <2>2 DEF TypeOK
  <2>4. config.level \in Levels /\ config.refs \in BOOLEAN
    BY <2>2, ConfigShape
  <2>5. r \in RecordValue /\ r.exists
    BY <2>2, <2>3, <2>4 DEF RecordValue
  <2>6. info.version <= top
    BY <2>1, <2>2 DEF RegistryOK, TypeOK, Versions
  <2>7. "version" \in facts => r.version <= top' /\ versions'[r.version] \in {r.def, None}
    BY <2>1, <2>6 DEF registryVars
  <2>8. "level" \in facts => r.level = Effective'
    BY <2>1 DEF LearnedOK, Effective, registryVars
  <2>9. facts \in SUBSET {"version", "level"}
    BY <2>1 DEF LearnedOK, TypeOK
  <2>10. RegistryTyped' /\ RegistryOK' /\ UNCHANGED late
    BY <2>1 DEF TypeOK, RegistryTyped, RegistryOK, registryVars
  <2> HIDE DEF d, r, facts
  <2> QED
    BY <2>1, <2>5, <2>7, <2>8, <2>9, <2>10, RecordsOK
<1> QED
  BY <1>1, <1>2

(* A refresh or an import records a version, its definition and the level  *)
(* it found in force.                                                      *)
LEMMA ReadRecordsOK ==
  ASSUME IInv, step \in {"compatibility", "global"}, UNCHANGED <<registryVars, late>>,
         NEW l \in Levels, l = Effective \/ "level" \notin learned',
         NEW facts \in SUBSET {"version", "level"},
         "version" \in facts => "version" \in learned,
         "level" \in facts => l = Effective,
         ReadRecords(l, facts)
  PROVE  IInv'
<1> USE DEF IInv
<1> DEFINE r == [exists |-> TRUE, version |-> info.version, def |-> info.def,
                 level |-> l, refs |-> record.refs]
<1>1. op \in {"read", "import"}
  BY DEF TaskOK, TypeOK, Ops
<1>2. info.version \in Versions /\ info.def \in Definitions
  BY DEF TaskOK
<1>3. r \in RecordValue /\ r.exists
  BY <1>2, RecordShape DEF RecordValue
<1>4. "version" \in facts => r.version <= top' /\ versions'[r.version] \in {r.def, None}
  BY <1>1 DEF LearnedOK, registryVars
<1>5. "level" \in facts => r.level = Effective'
  BY DEF Effective, registryVars
<1>6. Records(r, facts)
  BY DEF ReadRecords
<1>7. RegistryTyped' /\ RegistryOK' /\ UNCHANGED late
  BY DEF TypeOK, RegistryTyped, RegistryOK, registryVars
<1> HIDE DEF r
<1> QED
  BY <1>3, <1>4, <1>5, <1>6, <1>7, RecordsOK

(* Read and ImportState.                                                   *)
LEMMA ReadStepsOK ==
  ASSUME IInv, \/ ReadFetched \/ ReadMissing
               \/ SubjectLevelRead \/ SubjectLevelMissing \/ GlobalLevelRead
  PROVE  IInv'
<1> USE DEF IInv
<1>1. CASE ReadFetched
  <2>1. PICK v \in Wanted : info' = [version |-> v, def |-> versions[v]]
    BY <1>1 DEF ReadFetched
  <2>2. v \in Versions /\ versions[v] # None
    BY <2>1 DEF Wanted, Highest, LiveAny
  <2>3. versions[v] \in Definitions /\ v \in 0..MaxVersion
    BY <2>2 DEF TypeOK, Versions
  <2>4. v <= top
    BY <2>2 DEF RegistryOK, TypeOK, Versions
  <2>5. /\ op \in {"read", "import"} /\ step = "fetch" /\ step' = "compatibility"
        /\ learned' = learned \cup {"version"}
        /\ UNCHANGED <<op, config, last, record, bond, registryVars, late>>
    BY <1>1 DEF ReadFetched
  <2>6. TypeOK'
    BY <2>1, <2>3, <2>5 DEF TypeOK, registryVars, Steps
  <2>7. TaskOK'
    BY <2>1, <2>2, <2>3, <2>5 DEF TaskOK
  <2>8. LearnedOK'
    BY <2>1, <2>4, <2>5 DEF LearnedOK, registryVars
  <2>9. OutsideOK'
    BY <2>5, UntouchedOK DEF TypeOK
  <2> QED
    BY <2>6, <2>7, <2>8, <2>9 DEF OutsideOK
<1>2. CASE ReadMissing
  <2>1. CASE op = "read"
    <3>1. /\ record' = NoRecord /\ bond' = {} /\ Finish("ok")
          /\ UNCHANGED <<registryVars, late>>
      BY <1>2, <2>1 DEF ReadMissing
    <3>2. OutsideOK'
      BY <3>1 DEF OutsideOK, RegistryTyped, RegistryOK, TypeOK, registryVars,
                  RecordValue, VersionFaithful, LevelFaithful
    <3> QED
      BY <3>1, <3>2, FinishOK
  <2>2. CASE op # "read"
    <3>1. Finish("failed") /\ UNCHANGED <<registryVars, late, record, bond>>
      BY <1>2, <2>2 DEF ReadMissing, Fail
    <3> QED
      BY <3>1, UntouchedOK, FinishOK DEF TypeOK
  <2> QED
    BY <2>1, <2>2
<1>3. CASE SubjectLevelRead
  <2>1. learned \subseteq {"version", "level"}
    BY <1>3 DEF SubjectLevelRead, LearnedOK, TypeOK
  <2>2. level \in Levels /\ level = Effective
    BY <1>3 DEF SubjectLevelRead, TypeOK, Effective
  <2>3. learned \cup {"level"} \in SUBSET {"version", "level"}
    BY <2>1
  <2> QED
    BY <1>3, <2>2, <2>3, ReadRecordsOK DEF SubjectLevelRead
<1>4. CASE SubjectLevelMissing
  <2>1. /\ step = "compatibility" /\ step' = "global" /\ level = None
        /\ learned' = learned \cup {"unset"} /\ op \in {"read", "import"}
        /\ UNCHANGED <<op, config, info, last, record, bond, registryVars, late>>
    BY <1>4 DEF SubjectLevelMissing, NoSubjectLevel, GoTo, TaskOK, TypeOK, Ops
  <2>2. TypeOK'
    BY <2>1 DEF TypeOK, registryVars, Steps
  <2>3. TaskOK'
    BY <2>1 DEF TaskOK
  <2>4. LearnedOK'
    BY <2>1 DEF LearnedOK, registryVars
  <2>5. OutsideOK'
    BY <2>1, UntouchedOK DEF TypeOK
  <2> QED
    BY <2>2, <2>3, <2>4, <2>5 DEF OutsideOK
<1>5. CASE GlobalLevelRead
  <2> DEFINE facts == (learned \ {"unset"}) \cup {f \in {"level"} : "unset" \in learned}
  <2>1. op \in {"read", "import"}
    BY <1>5 DEF GlobalLevelRead, TaskOK, TypeOK, Ops
  <2>2. "level" \notin learned /\ ("unset" \in learned => level = None)
    BY <2>1 DEF LearnedOK
  <2>3. facts \in SUBSET {"version", "level"}
    BY DEF TypeOK
  <2>4. "level" \in facts => global = Effective
    BY <2>2 DEF Effective
  <2>5. "version" \in facts => "version" \in learned
    OBVIOUS
  <2>6. ReadRecords(global, facts) /\ UNCHANGED <<registryVars, late>> /\ step = "global"
    BY <1>5 DEF GlobalLevelRead
  <2>7. global \in Levels /\ learned' = {}
    BY <2>6 DEF TypeOK, ReadRecords, Records, Finish
  <2> HIDE DEF facts
  <2> QED
    BY <2>3, <2>4, <2>5, <2>6, <2>7, ReadRecordsOK
<1> QED
  BY <1>1, <1>2, <1>3, <1>4, <1>5

(* A step of others that changes the registry, and with it the facts.      *)
LEMMA OthersOK ==
  ASSUME IInv, UNCHANGED <<record, taskVars>>, late' \in SUBSET RequestValue,
         RegistryTyped', RegistryOK',
         learned' \subseteq learned, bond' \subseteq bond,
         "version" \in learned' => \/ "version" \in bond'
                                   \/ op # "update",
         \A v \in Versions :
            ("version" \in learned' \cup bond' /\ v <= top)
              => v <= top' /\ versions'[v] \in {versions[v], None},
         "level" \in learned' \cup bond' => Effective' = Effective,
         "unset" \in learned' => UNCHANGED level
  PROVE  IInv'
<1> USE DEF IInv
<1>1. TypeOK'
  BY DEF TypeOK, RegistryTyped, taskVars
<1>2. TaskOK'
  BY DEF TaskOK, taskVars, LevelChanged
<1>3. VersionFaithful'
  <2> SUFFICES ASSUME "version" \in bond'
               PROVE  /\ record.exists /\ record.version <= top'
                      /\ versions'[record.version] \in {record.def, None}
    BY DEF VersionFaithful
  <2>1. /\ record.exists /\ record.version <= top
        /\ versions[record.version] \in {record.def, None}
    BY DEF VersionFaithful
  <2>2. record.version \in Versions
    BY <2>1, RecordShape
  <2> QED
    BY <2>1, <2>2
<1>4. LevelFaithful'
  BY DEF LevelFaithful
<1>5. LearnedOK'
  <2>1. op = "none" => learned' = {}
    BY DEF LearnedOK
  <2>2. "unset" \in learned' => level' = None /\ step = "global"
    BY DEF LearnedOK
  <2>3. ("level" \in learned' /\ op \in {"create", "update"} /\ step # "level")
          => Effective' = config.level
    BY DEF LearnedOK
  <2>4. op \in {"read", "import"} => "level" \notin learned'
    BY DEF LearnedOK
  <2>5. ASSUME "version" \in learned', op \in {"read", "import"}
        PROVE  /\ step # "fetch" /\ info.version <= top'
               /\ versions'[info.version] \in {info.def, None}
    <3>1. /\ step # "fetch" /\ info.version <= top
          /\ versions[info.version] \in {info.def, None}
      BY <2>5 DEF LearnedOK
    <3>2. info.version \in Versions
      BY <2>5 DEF LearnedOK, TaskOK
    <3> QED
      BY <2>5, <3>1, <3>2
  <2>6. ("version" \in learned' /\ op = "update") => "version" \in bond'
    OBVIOUS
  <2> QED
    BY <2>1, <2>2, <2>3, <2>4, <2>5, <2>6 DEF LearnedOK, taskVars
<1> QED
  BY <1>1, <1>2, <1>3, <1>4, <1>5

LEMMA EnvironmentOK ==
  ASSUME IInv, EnvironmentStep
  PROVE  IInv'
<1> USE DEF IInv
<1>0. op = "update" => ("version" \in learned => "version" \in bond)
  BY DEF LearnedOK
<1>1. ASSUME NEW r \in late, LateArrives(r)
      PROVE  IInv'
  <2>1. /\ r \in RequestValue /\ Execute(r) /\ late' = late \ {r}
        /\ learned' = Forget(learned, r.kind) /\ bond' = Forget(bond, r.kind)
        /\ UNCHANGED <<record, taskVars>>
    BY <1>1 DEF LateArrives, TypeOK
  <2>2. RegistryTyped' /\ RegistryOK'
    BY <2>1, Executed
  <2>3. r.kind \in {"level", "register"}
    BY <2>1, FactsSurvive
  <2>4. /\ learned' \subseteq learned /\ bond' \subseteq bond
        /\ "version" \in learned => "version" \in learned'
        /\ "version" \in bond => "version" \in bond'
        /\ r.kind = "level" => /\ "level" \notin learned' \cup bond'
                               /\ "unset" \notin learned'
    BY <2>1, <2>3 DEF Forget
  <2>5. \A v \in Versions : v <= top => v <= top' /\ versions'[v] = versions[v]
    BY <2>1, FactsSurvive
  <2>6. r.kind # "level" => Effective' = Effective /\ UNCHANGED level
    BY <2>1, FactsSurvive
  <2>7. late' \in SUBSET RequestValue
    BY <2>1 DEF TypeOK
  <2> QED
    BY <1>0, <2>1, <2>2, <2>4, <2>5, <2>6, <2>7, OthersOK
<1>2. ASSUME NEW r \in late, LateDropped(r)
      PROVE  IInv'
  BY <1>0, <1>2, OthersOK
     DEF LateDropped, TypeOK, RegistryTyped, RegistryOK, registryVars, Effective
<1>3. ASSUME NEW d \in Definitions, OthersRegister(d)
      PROVE  IInv'
  <2> DEFINE r == [kind |-> "register", value |-> d]
  <2>1. /\ r \in RequestValue /\ r.kind = "register" /\ Execute(r)
        /\ UNCHANGED <<late, record, taskVars, learned, bond>>
    BY <1>3 DEF OthersRegister, RequestValue
  <2> HIDE DEF r
  <2>2. RegistryTyped' /\ RegistryOK'
    BY <2>1, Executed
  <2>3. \A v \in Versions : v <= top => v <= top' /\ versions'[v] = versions[v]
    BY <2>1, FactsSurvive
  <2>4. Effective' = Effective /\ UNCHANGED level
    BY <2>1, FactsSurvive
  <2>5. late' \in SUBSET RequestValue
    BY <2>1 DEF TypeOK
  <2> QED
    BY <1>0, <2>1, <2>2, <2>3, <2>4, <2>5, OthersOK
<1>4. ASSUME NEW v \in Versions, OthersDeleteVersion(v)
      PROVE  IInv'
  <2>1. /\ versions' = [versions EXCEPT ![v] = None]
        /\ UNCHANGED <<top, level, global, late, record, taskVars, learned, bond>>
    BY <1>4 DEF OthersDeleteVersion
  <2>2. RegistryTyped' /\ RegistryOK'
    BY <2>1 DEF TypeOK, RegistryTyped, RegistryOK
  <2>3. \A w \in Versions : versions'[w] \in {versions[w], None}
    BY <2>1 DEF TypeOK
  <2>4. Effective' = Effective
    BY <2>1 DEF Effective
  <2> QED
    BY <1>0, <2>1, <2>2, <2>3, <2>4, OthersOK DEF TypeOK
<1>5. CASE OthersDeleteSubject
  <2>1. /\ versions' = [v \in Versions |-> None] /\ top' = 0
        /\ learned' = Forget(learned, "version") /\ bond' = Forget(bond, "version")
        /\ UNCHANGED <<level, global, late, record, taskVars>>
    BY <1>5 DEF OthersDeleteSubject
  <2>2. RegistryTyped' /\ RegistryOK'
    BY <2>1 DEF TypeOK, RegistryTyped, RegistryOK
  <2>3. /\ learned' \subseteq learned /\ bond' \subseteq bond
        /\ "version" \notin learned' \cup bond'
    BY <2>1 DEF Forget
  <2>4. Effective' = Effective
    BY <2>1 DEF Effective
  <2> QED
    BY <2>1, <2>2, <2>3, <2>4, OthersOK DEF TypeOK
<1>6. ASSUME NEW l \in Levels \cup {None}, OthersSetLevel(l)
      PROVE  IInv'
  <2>1. /\ level' = l
        /\ learned' = Forget(learned, "level") /\ bond' = Forget(bond, "level")
        /\ UNCHANGED <<versions, top, global, late, record, taskVars>>
    BY <1>6 DEF OthersSetLevel
  <2>2. RegistryTyped' /\ RegistryOK'
    BY <2>1 DEF TypeOK, RegistryTyped, RegistryOK
  <2>3. /\ learned' \subseteq learned /\ bond' \subseteq bond
        /\ "version" \in bond => "version" \in bond'
        /\ "level" \notin learned' \cup bond' /\ "unset" \notin learned'
    BY <2>1 DEF Forget
  <2> QED
    BY <1>0, <2>1, <2>2, <2>3, OthersOK DEF TypeOK
<1>7. ASSUME NEW l \in Levels, OthersSetGlobal(l)
      PROVE  IInv'
  <2>1. /\ global' = l /\ UNCHANGED <<versions, top, level, late, record, taskVars>>
    BY <1>7 DEF OthersSetGlobal
  <2>2. RegistryTyped' /\ RegistryOK'
    BY <2>1 DEF TypeOK, RegistryTyped, RegistryOK
  <2>3. /\ learned' \subseteq learned /\ bond' \subseteq bond
        /\ "version" \in bond => "version" \in bond'
        /\ level = None => "level" \notin learned' \cup bond'
    BY <1>7 DEF OthersSetGlobal
  <2>4. level # None => Effective' = Effective
    BY <2>1 DEF Effective
  <2> QED
    BY <1>0, <2>1, <2>2, <2>3, <2>4, OthersOK DEF TypeOK
<1> QED
  BY <1>1, <1>2, <1>3, <1>4, <1>5, <1>6, <1>7 DEF EnvironmentStep

(* The invariant of handlers, record and registry holds in every reachable *)
(* state.                                                                  *)
THEOREM Invariance == Spec => []IInv
<1>1. IInv /\ [Next]_vars => IInv'
  <2> SUFFICES ASSUME IInv, [Next]_vars PROVE IInv'
    OBVIOUS
  <2>1. CASE ClientStep
    BY <2>1, ConfigStepsOK, LevelSetOK, RequestStepsOK, ResultStepsOK, ReadStepsOK
       DEF ClientStep
  <2>2. CASE CoreStep
    BY <2>2, BeginOK
  <2>3. CASE EnvironmentStep
    BY <2>3, EnvironmentOK
  <2>4. CASE UNCHANGED vars
    BY <2>4 DEF vars, registryVars, taskVars, IInv, TypeOK, TaskOK, RegistryOK,
                LearnedOK, VersionFaithful, LevelFaithful, Effective, LevelChanged
  <2> QED
    BY <2>1, <2>2, <2>3, <2>4 DEF Next
<1> QED
  BY InitOK, <1>1, PTL DEF Spec

(* Until the subject is deleted for good, the recorded version and the     *)
(* recorded definition belong together.                                    *)
THEOREM VersionStaysFaithful == Spec => []VersionFaithful
<1>1. IInv => VersionFaithful
  BY DEF IInv
<1> QED
  BY Invariance, <1>1, PTL

(* Until somebody else sets it, the recorded level is the one in force.    *)
THEOREM LevelStaysFaithful == Spec => []LevelFaithful
<1>1. IInv => LevelFaithful
  BY DEF IInv
<1> QED
  BY Invariance, <1>1, PTL

----------------------------------------------------------------------------
(* What a step may do to the record.                                       *)

LEMMA RecordChanges ==
  ASSUME [Next]_vars, record' # record
  PROVE  \/ LevelSet \/ ResultFetched
         \/ ReadMissing \/ SubjectLevelRead \/ GlobalLevelRead
<1>1. CASE ClientStep
  BY <1>1 DEF ClientStep, CallFails, ConfigRefused, ConfigAccepted, Registered,
              ReplyLost, RequestDelayed, VersionResolved, ReadFetched,
              SubjectLevelMissing, DeleteRefused, Fail, GoTo
<1>2. CoreStep => UNCHANGED record
  BY DEF CoreStep, StartCreate, StartUpdate, StartDelete, StartRefresh,
         StartImport, Begin
<1>3. EnvironmentStep => UNCHANGED record
  BY DEF EnvironmentStep, LateArrives, LateDropped, OthersRegister,
         OthersDeleteVersion, OthersDeleteSubject, OthersSetLevel, OthersSetGlobal
<1> QED
  BY <1>1, <1>2, <1>3 DEF Next, vars

LEMMA RegisteredStep ==
  ASSUME IInv, [Next]_vars, op \in {"create", "update"}, record' # record
  PROVE  /\ record'.def = config.def
         /\ record'.level = config.level
         /\ step = "fetch" => versions[record'.version] = config.def
<1>1. CASE LevelSet
  <2>1. step = "level" /\ record' = [record EXCEPT !.level = config.level,
                                                   !.def = config.def]
    BY <1>1 DEF LevelSet, Records
  <2>2. op = "update"
    BY <1>1 DEF LevelSet
  <2>3. record.exists
    BY <2>2 DEF IInv, TaskOK
  <2>4. record \in [exists : {TRUE}, version : Versions, def : Definitions,
                    level : Levels, refs : BOOLEAN]
    BY <2>3, RecordShape DEF IInv
  <2> QED
    BY <2>1, <2>4
<1>2. CASE ResultFetched
  BY <1>2 DEF ResultFetched, SameID, Records
<1>3. ~ReadMissing /\ ~SubjectLevelRead /\ ~GlobalLevelRead
  BY DEF ReadMissing, SubjectLevelRead, GlobalLevelRead, IInv, TaskOK
<1> QED
  BY <1>1, <1>2, <1>3, RecordChanges

(* What is recorded by Create or Update is what was configured, under a    *)
(* version that holds it.                                                  *)
THEOREM RecordsTheRegistered == Spec => RecordsWhatWasRegistered
<1>1. IInv /\ [Next]_vars =>
        [(op \in {"create", "update"} /\ record' # record)
           => /\ record'.def = config.def
              /\ record'.level = config.level
              /\ step = "fetch" => versions[record'.version] = config.def]_vars
  BY RegisteredStep
<1> QED
  BY Invariance, <1>1, PTL DEF Spec, RecordsWhatWasRegistered

LEMMA KeptStep ==
  ASSUME IInv, [Next]_vars, record.exists, ~record'.exists
  PROVE  versions[record.version] = None
<1>1. record' # record
  OBVIOUS
<1>2. record \in [exists : {TRUE}, version : Versions, def : Definitions,
                  level : Levels, refs : BOOLEAN]
  BY RecordShape DEF IInv
<1>3. ~LevelSet
  BY <1>1, <1>2 DEF LevelSet, Records
<1>4. ~ResultFetched /\ ~SubjectLevelRead /\ ~GlobalLevelRead
  BY DEF ResultFetched, SubjectLevelRead, GlobalLevelRead, ReadRecords, Records
<1>5. CASE ReadMissing
  <2>1. op = "read" /\ Wanted = {}
    BY <1>1, <1>5 DEF ReadMissing, VersionMissing, Fail
  <2> QED
    BY <1>2, <2>1 DEF Wanted, LiveAny
<1> QED
  BY <1>1, <1>3, <1>4, <1>5, RecordChanges

(* A record is only dropped by a refresh that found its version missing.   *)
THEOREM KeepsTheRecord == Spec => RecordKept
<1>1. IInv /\ [Next]_vars =>
        [(record.exists /\ ~record'.exists) => versions[record.version] = None]_vars
  BY KeptStep
<1> QED
  BY Invariance, <1>1, PTL DEF Spec, RecordKept

----------------------------------------------------------------------------
(* Refreshes.                                                              *)

(* What the requests of a refresh have answered agrees with the record, as *)
(* long as the record owes it to the registry.                             *)
ReadingInv ==
  (op = "read" /\ step \in {"compatibility", "global"}) =>
    /\ info.version = record.version
    /\ "version" \in bond => info.def = record.def
    /\ (step = "global" /\ "level" \in bond) => level = None

(* Only the steps of its own handler move a refresh.                       *)
LEMMA ReadMoves ==
  ASSUME IInv, ClientStep, op' = "read"
  PROVE  ReadFetched \/ SubjectLevelMissing \/ UNCHANGED <<op, step, config, info>>
           \/ op \in {"create", "update"}
BY DEF ClientStep, CallFails, ConfigRefused, ConfigAccepted, LevelSet, Registered,
       ReplyLost, RequestDelayed, VersionResolved, ResultFetched, ReadMissing,
       SubjectLevelRead, GlobalLevelRead, ReadRecords, Records, DeleteRefused,
       Fail, Finish, GoTo, IInv, TaskOK

(* Others move no handler, and what they change the record is not owed.    *)
LEMMA OthersForget ==
  ASSUME EnvironmentStep
  PROVE  /\ UNCHANGED <<record, taskVars>>
         /\ bond' \subseteq bond
         /\ "level" \in bond' => UNCHANGED level
<1>1. ASSUME NEW r, LateArrives(r)
      PROVE  bond' \subseteq bond /\ ("level" \in bond' => UNCHANGED level)
  BY <1>1 DEF LateArrives, Execute, Forget
<1>2. OthersDeleteSubject => bond' \subseteq bond /\ UNCHANGED level
  BY DEF OthersDeleteSubject, Forget
<1>3. ASSUME NEW l, OthersSetLevel(l)
      PROVE  bond' \subseteq bond /\ "level" \notin bond'
  BY <1>3 DEF OthersSetLevel, Forget
<1>4. ASSUME NEW l, OthersSetGlobal(l)
      PROVE  bond' \subseteq bond /\ UNCHANGED level
  BY <1>4 DEF OthersSetGlobal
<1>5. ASSUME NEW d, OthersRegister(d)
      PROVE  bond' = bond /\ UNCHANGED level
  BY <1>5 DEF OthersRegister, Execute
<1>6. UNCHANGED <<record, taskVars>>
  BY DEF EnvironmentStep, LateArrives, LateDropped, OthersRegister,
         OthersDeleteVersion, OthersDeleteSubject, OthersSetLevel, OthersSetGlobal
<1>7. ASSUME NEW r, LateDropped(r)
      PROVE  bond' = bond /\ UNCHANGED level
  BY <1>7 DEF LateDropped, registryVars
<1>8. ASSUME NEW v, OthersDeleteVersion(v)
      PROVE  bond' = bond /\ UNCHANGED level
  BY <1>8 DEF OthersDeleteVersion
<1> QED
  BY <1>1, <1>2, <1>3, <1>4, <1>5, <1>6, <1>7, <1>8 DEF EnvironmentStep

LEMMA ReadingKept ==
  ASSUME IInv, ReadingInv, [Next]_vars
  PROVE  ReadingInv'
<1>1. CASE ClientStep
  <2> SUFFICES ASSUME op' = "read", step' \in {"compatibility", "global"}
               PROVE  ReadingInv'
    BY DEF ReadingInv
  <2>1. CASE ReadFetched
    <3>1. op = "read" /\ step' = "compatibility" /\ UNCHANGED <<record, bond>>
      BY <2>1 DEF ReadFetched
    <3>2. PICK v \in {record.version} \cap LiveAny :
             info' = [version |-> v, def |-> versions[v]]
      BY <2>1, <3>1 DEF ReadFetched, Wanted
    <3>3. "version" \in bond => versions[record.version] = record.def
      BY <3>2 DEF IInv, VersionFaithful, LiveAny
    <3> QED
      BY <3>1, <3>2, <3>3 DEF ReadingInv
  <2>2. CASE SubjectLevelMissing
    BY <2>2 DEF SubjectLevelMissing, NoSubjectLevel, GoTo, registryVars, ReadingInv
  <2>3. CASE op \in {"create", "update"}
    BY <1>1, <2>3 DEF ClientStep, CallFails, ConfigRefused, ConfigAccepted, LevelSet,
       Registered, ReplyLost, RequestDelayed, VersionResolved, ResultFetched,
       ReadFetched, ReadMissing, SubjectLevelRead, SubjectLevelMissing,
       GlobalLevelRead, ReadRecords, Records, DeleteRefused, Fail, Finish, GoTo
  <2>4. ~UNCHANGED <<op, step, config, info>> \/ ~(op = "read")
    BY <1>1 DEF ClientStep, CallFails, ConfigRefused, ConfigAccepted, LevelSet,
       Registered, ReplyLost, RequestDelayed, VersionResolved, ResultFetched,
       ReadFetched, ReadMissing, SubjectLevelRead, SubjectLevelMissing,
       GlobalLevelRead, ReadRecords, Records, DeleteRefused, Fail, Finish, GoTo
  <2> QED
    BY <1>1, <2>1, <2>2, <2>3, <2>4, ReadMoves
<1>2. CoreStep => ReadingInv'
  BY DEF CoreStep, StartCreate, StartUpdate, StartDelete, StartRefresh,
         StartImport, Begin, ReadingInv
<1>3. CASE EnvironmentStep
  BY <1>3, OthersForget DEF taskVars, ReadingInv
<1>4. CASE UNCHANGED vars
  BY <1>4 DEF vars, registryVars, taskVars, ReadingInv
<1> QED
  BY <1>1, <1>2, <1>3, <1>4 DEF Next

LEMMA DriftStep ==
  ASSUME IInv, ReadingInv, [Next]_vars, op = "read", record'.exists
  PROVE  /\ record'.version = record.version
         /\ "version" \in bond => record'.def = record.def
         /\ "level" \in bond => record'.level = record.level
<1>1. CASE record' = record
  BY <1>1
<1>2. ~LevelSet /\ ~ResultFetched
  BY DEF LevelSet, ResultFetched, IInv, TaskOK
<1>3. ~ReadMissing
  BY DEF ReadMissing, NoRecord
<1>4. CASE SubjectLevelRead
  <2>1. "level" \in bond => level = record.level
    BY <1>4 DEF SubjectLevelRead, IInv, LevelFaithful, Effective
  <2> QED
    BY <1>4, <2>1 DEF SubjectLevelRead, ReadRecords, Records, ReadingInv
<1>5. CASE GlobalLevelRead
  <2>1. "level" \in bond => global = record.level
    BY <1>5 DEF GlobalLevelRead, ReadingInv, IInv, LevelFaithful, Effective
  <2> QED
    BY <1>5, <2>1 DEF GlobalLevelRead, ReadRecords, Records, ReadingInv
<1> QED
  BY <1>1, <1>2, <1>3, <1>4, <1>5, RecordChanges

(* A refresh changes only what somebody else has changed.                  *)
THEOREM RefreshesExactly == Spec => NoPhantomDrift
<1>1. Init => ReadingInv
  BY DEF Init, ReadingInv
<1>2. IInv /\ ReadingInv /\ [Next]_vars => ReadingInv'
  BY ReadingKept
<1>3. IInv /\ ReadingInv /\ [Next]_vars =>
        [(op = "read" /\ record'.exists)
           => /\ record'.version = record.version
              /\ "version" \in bond => record'.def = record.def
              /\ "level" \in bond => record'.level = record.level]_vars
  BY DriftStep
<1> QED
  BY Invariance, <1>1, <1>2, <1>3, PTL DEF Spec, NoPhantomDrift

(***************************************************************************)
(* SchemaContract: every step of the handlers is a step of the contract.   *)
(* What shows is how an operation begins and ends, the level set by an     *)
(* apply, the fetch of a refresh and the subject seen without a level.     *)
(***************************************************************************)

LEMMA RecordExists ==
  ASSUME IInv
  PROVE  record.exists <=> record # NoRecord
<1>1. ~NoRecord.exists
  BY DEF NoRecord
<1> QED
  BY <1>1, RecordShape DEF IInv

LEMMA BeginRefines ==
  ASSUME IInv, CoreStep
  PROVE  Contract!Begin
<1>0. op = "none" => ~Leveled /\ step = "idle"
  BY DEF Leveled, IInv, TaskOK
<1>1. ASSUME NEW c, StartCreate(c)
      PROVE  Contract!Begin
  <2>1. op' = "create" /\ step' = "config"
    BY <1>1 DEF StartCreate, Begin
  <2> QED
    BY <1>0, <1>1, <2>1, RecordExists DEF StartCreate, PlanKind, Begin,
       Leveled, Contract!Begin, registryVars, Contract!registry
<1>2. ASSUME NEW c, StartUpdate(c)
      PROVE  Contract!Begin
  <2>1. /\ op = "none" /\ op' = "update" /\ config' = c /\ UNCHANGED record
        /\ step' = IF LevelChanged(c) THEN "level" ELSE "config"
    BY <1>2 DEF StartUpdate, Begin
  <2>2. UNCHANGED <<Leveled, step = "global">>
    BY <1>0, <2>1 DEF Leveled, LevelChanged
  <2> QED
    BY <1>2, <2>1, <2>2, RecordExists DEF StartUpdate, PlanKind, Begin,
       Contract!Begin, registryVars, Contract!registry
<1>3. StartDelete \/ StartRefresh => Contract!Begin
  BY <1>0, RecordExists DEF StartDelete, StartRefresh, Begin, Leveled,
     Contract!Begin, registryVars, Contract!registry
<1>4. StartImport => Contract!Begin
  BY <1>0, RecordExists DEF StartImport, Begin, Leveled, Contract!Begin,
     registryVars, Contract!registry
<1> QED
  BY <1>1, <1>2, <1>3, <1>4 DEF CoreStep

(* An operation that ends leaves nothing behind in the task.               *)
LEMMA FinishEnds ==
  ASSUME NEW result, Finish(result)
  PROVE  Contract!Ends
BY DEF Finish, Leveled, Contract!Ends

(* A request of Create or Update changes no more than it was sent to.      *)
LEMMA RequestNoMore ==
  ASSUME IInv, step \in {"level", "register"}, Execute(Request)
  PROVE  /\ UNCHANGED global
         /\ level' \in {level, config.level}
         /\ \A v \in DOMAIN versions : versions'[v] \in {versions[v], config.def}
<1>1. CASE step = "level"
  BY <1>1 DEF Execute, Request
<1>2. CASE step = "register"
  <2>1. UNCHANGED <<level, global>>
    BY <1>2 DEF Execute, Request
  <2>2. \/ UNCHANGED versions
        \/ versions' = [versions EXCEPT ![top + 1] = config.def]
    BY <1>2 DEF Execute, Request
  <2> QED
    BY <2>1, <2>2
<1> QED
  BY <1>1, <1>2

LEMMA FailureRefines ==
  ASSUME IInv,
         CallFails \/ ConfigRefused \/ ReplyLost \/ RequestDelayed \/ DeleteRefused
  PROVE  Contract!Fail
<1>1. CASE CallFails \/ ConfigRefused \/ RequestDelayed \/ DeleteRefused
  <2>1. op # "none" /\ Contract!Ends /\ UNCHANGED <<record, registryVars>>
    BY <1>1, FinishEnds DEF CallFails, ConfigRefused, RequestDelayed,
       DeleteRefused, Fail, IInv, TaskOK
  <2> QED
    BY <2>1 DEF registryVars, Contract!Fail, Contract!registry
<1>2. CASE ReplyLost
  <2>1. Contract!Ends /\ UNCHANGED record /\ step \in {"level", "register"}
    BY <1>2, FinishEnds DEF ReplyLost
  <2>2. op \in {"create", "update"}
    BY <2>1 DEF IInv, TypeOK, Ops, TaskOK
  <2> QED
    BY <1>2, <2>1, <2>2, RequestNoMore DEF ReplyLost, Contract!Fail
<1> QED
  BY <1>1, <1>2

(* The steps of Create and Update that only lead on to the next call.      *)
LEMMA ProgressRefines ==
  ASSUME IInv, ConfigAccepted \/ Registered \/ VersionResolved
  PROVE  Contract!Others
<1>1. UNCHANGED <<record, op, config>>
  BY DEF ConfigAccepted, Registered, VersionResolved, GoTo
<1>2. op \in {"create", "update"}
  BY DEF ConfigAccepted, Registered, VersionResolved, IInv, TypeOK, Ops, TaskOK
<1>3. UNCHANGED Leveled
  <2>1. op = "create" => (step = "config" <=> step' = "level")
                           /\ step \in {"config", "register", "versions"}
                           /\ step' \in {"level", "versions", "fetch"}
    BY DEF ConfigAccepted, Registered, VersionResolved, GoTo
  <2>2. op = "update" => step # "level" /\ step' # "level"
    BY DEF ConfigAccepted, Registered, VersionResolved, GoTo
  <2> QED
    BY <1>1, <1>2, <2>1, <2>2 DEF Leveled, LevelChanged
<1>4. step # "global" /\ step' # "global"
  BY DEF ConfigAccepted, Registered, VersionResolved, GoTo
<1> QED
  BY <1>1, <1>2, <1>3, <1>4 DEF Contract!Others

LEMMA LevelSetRefines ==
  ASSUME IInv, LevelSet
  PROVE  Contract!Relevel \/ Contract!Level
<1>1. op \in {"create", "update"} /\ step = "level"
  BY DEF LevelSet, IInv, TypeOK, Ops, TaskOK
<1>2. level' = config.level /\ UNCHANGED <<versions, global>>
  BY <1>1 DEF LevelSet, Execute, Request
<1>3. CASE op = "update" /\ ~DefinitionChanged(config)
  <2>1. record.def = config.def /\ record.exists /\ Contract!Ends
    BY <1>3, FinishEnds DEF LevelSet, Records, DefinitionChanged, IInv, TaskOK
  <2>2. record' = [record EXCEPT !.level = config.level]
    <3>1. record' = [record EXCEPT !.level = config.level, !.def = config.def]
      BY <1>3 DEF LevelSet, Records
    <3> QED
      BY <2>1, <3>1, RecordShape DEF IInv, TypeOK
  <2> QED
    BY <1>2, <1>3, <2>1, <2>2 DEF Contract!Relevel
<1>4. CASE ~(op = "update" /\ ~DefinitionChanged(config))
  <2>1. /\ UNCHANGED <<op, config, info, record>>
        /\ step' = IF op = "create" THEN "register" ELSE "config"
    BY <1>4 DEF LevelSet
  <2>2. op = "update" => LevelChanged(config)
    BY <1>1 DEF IInv, TaskOK
  <2>3. Leveled' /\ step' # "global"
    BY <1>1, <2>1, <2>2 DEF Leveled, LevelChanged
  <2> QED
    BY <1>1, <1>2, <2>1, <2>3 DEF Contract!Level
<1> QED
  BY <1>3, <1>4

(* A handler that reaches the version it registered has set the level it   *)
(* was asked for, unless the record had that level before.                 *)
LEMMA ResultRefines ==
  ASSUME IInv, ResultFetched
  PROVE  Contract!Register
<1>1. op \in {"create", "update"} /\ ~config.refs /\ step = "fetch"
  BY DEF ResultFetched, IInv, TaskOK
<1>2. versions[info.version] = config.def
  BY DEF ResultFetched, SameID
<1>3. record' = [exists |-> TRUE, version |-> info.version, def |-> config.def,
                 level |-> config.level, refs |-> config.refs]
  BY <1>2 DEF ResultFetched, Records
<1>4. config.refs = FALSE
  BY <1>1, ConfigShape DEF IInv, TypeOK, NoConfig
<1>5. Leveled \/ record.level = config.level
  BY <1>1 DEF Leveled, LevelChanged
<1>6. Contract!Ends
  BY FinishEnds DEF ResultFetched, Records
<1> QED
  BY <1>1, <1>2, <1>3, <1>4, <1>5, <1>6 DEF ResultFetched, registryVars,
     Contract!Register, Contract!Recorded, Contract!registry

LEMMA FetchRefines ==
  ASSUME IInv, ReadFetched
  PROVE  Contract!Observe
<1>1. PICK v \in Wanted : info' = [version |-> v, def |-> versions[v]]
  BY DEF ReadFetched
<1>2. v \in LiveAny /\ (op = "read" => v = record.version)
  BY <1>1 DEF Wanted, Highest
<1>3. op # "read" => \A w \in LiveAny : w <= v
  BY <1>1 DEF Wanted, Highest
<1>4. DOMAIN versions = Versions
  BY DEF IInv, TypeOK
<1>5. op \in {"read", "import"} /\ UNCHANGED <<op, registryVars, record, config>>
  BY DEF ReadFetched
<1>6. UNCHANGED <<Leveled, step = "global">>
  BY <1>5 DEF ReadFetched, Leveled
<1> QED
  BY <1>1, <1>2, <1>3, <1>4, <1>5, <1>6 DEF LiveAny, registryVars,
     Contract!Observe, Contract!registry

LEMMA UnsetRefines ==
  ASSUME IInv, SubjectLevelMissing
  PROVE  Contract!Unset
<1>1. op \in {"read", "import"}
  BY DEF SubjectLevelMissing, IInv, TypeOK, Ops, TaskOK
<1>2. /\ level = None /\ (step = "global")'
      /\ UNCHANGED <<registryVars, record, op, config, info>>
  BY DEF SubjectLevelMissing, NoSubjectLevel, GoTo
<1>3. UNCHANGED Leveled
  BY <1>1, <1>2 DEF Leveled
<1> QED
  BY <1>1, <1>2, <1>3 DEF registryVars, Contract!Unset, Contract!registry

LEMMA MissRefines ==
  ASSUME IInv, ReadMissing
  PROVE  Contract!Miss \/ Contract!Fail
<1>1. CASE op = "read"
  <2>1. record.exists
    BY <1>1 DEF IInv, TaskOK
  <2>2. record.version \in Versions
    BY <2>1, RecordShape DEF IInv, TypeOK
  <2>3. versions[record.version] = None
    BY <1>1, <2>2 DEF ReadMissing, VersionMissing, Wanted, LiveAny
  <2> QED
    BY <1>1, <2>3, FinishEnds DEF ReadMissing, registryVars, Contract!Miss,
       Contract!registry
<1>2. CASE op = "import"
  BY <1>2, FinishEnds DEF ReadMissing, Fail, registryVars, Contract!Fail,
     Contract!registry
<1> QED
  BY <1>1, <1>2 DEF ReadMissing

LEMMA ReportRefines ==
  ASSUME IInv, SubjectLevelRead \/ GlobalLevelRead
  PROVE  Contract!Report
<1>1. op \in {"read", "import"}
  BY DEF SubjectLevelRead, GlobalLevelRead, IInv, TypeOK, Ops, TaskOK
<1>2. UNCHANGED registryVars /\ Contract!Ends
  BY FinishEnds DEF SubjectLevelRead, GlobalLevelRead, ReadRecords, Records
<1>3. CASE SubjectLevelRead
  BY <1>1, <1>2, <1>3 DEF SubjectLevelRead, ReadRecords, Records, registryVars,
     Contract!Report, Contract!Recorded, Contract!registry
<1>4. CASE GlobalLevelRead
  BY <1>1, <1>2, <1>4 DEF GlobalLevelRead, ReadRecords, Records, registryVars,
     Contract!Report, Contract!Recorded, Contract!registry
<1> QED
  BY <1>3, <1>4

LEMMA OthersRefine ==
  ASSUME EnvironmentStep
  PROVE  Contract!Others
<1>1. UNCHANGED <<record, taskVars>>
  BY OthersForget
<1> QED
  BY <1>1 DEF taskVars, Leveled, LevelChanged, Contract!Others

(* No step gives a version number that is in use another definition.       *)
LEMMA RequestImmutable ==
  ASSUME IInv, NEW r \in RequestValue, Execute(r)
  PROVE  Contract!Immutable
<1>1. DOMAIN versions = Versions /\ RegistryOK
  BY DEF IInv, TypeOK
<1>2. \A v \in Versions : v <= top => versions'[v] = versions[v]
  BY FactsSurvive
<1>3. \A v \in Versions : v > top => versions[v] = None
  BY <1>1 DEF RegistryOK
<1>4. \A v \in Versions : v <= top \/ v > top
  BY DEF IInv, TypeOK, Versions
<1> QED
  BY <1>1, <1>2, <1>3, <1>4 DEF Contract!Immutable

LEMMA Immutability ==
  ASSUME IInv, [Next]_vars
  PROVE  Contract!Immutable
<1>1. CASE UNCHANGED versions
  BY <1>1 DEF Contract!Immutable
<1>2. CASE ClientStep
  <2>1. CASE step \in {"level", "register"} /\ Execute(Request)
    BY <2>1, Requested, RequestImmutable
  <2>2. CASE UNCHANGED registryVars
    BY <1>1, <2>2 DEF registryVars
  <2> QED
    BY <1>2, <2>1, <2>2 DEF ClientStep, CallFails, ConfigRefused, ConfigAccepted,
       LevelSet, Registered, ReplyLost, RequestDelayed, VersionResolved,
       ResultFetched, ReadFetched, ReadMissing, SubjectLevelRead,
       SubjectLevelMissing, GlobalLevelRead, DeleteRefused
<1>3. CASE CoreStep
  BY <1>1, <1>3 DEF CoreStep, StartCreate, StartUpdate, StartDelete,
     StartRefresh, StartImport, Begin, registryVars
<1>4. CASE EnvironmentStep
  <2>0. DOMAIN versions = Versions /\ late \subseteq RequestValue
    BY DEF IInv, TypeOK
  <2>1. ASSUME NEW r \in late, LateArrives(r)
        PROVE  Contract!Immutable
    BY <2>0, <2>1, RequestImmutable DEF LateArrives
  <2>2. ASSUME NEW d \in Definitions, OthersRegister(d)
        PROVE  Contract!Immutable
    <3>1. [kind |-> "register", value |-> d] \in RequestValue
      BY DEF RequestValue
    <3> QED
      BY <2>2, <3>1, RequestImmutable DEF OthersRegister
  <2>3. ASSUME NEW v \in Versions, OthersDeleteVersion(v)
        PROVE  Contract!Immutable
    BY <2>0, <2>3 DEF OthersDeleteVersion, Contract!Immutable
  <2>4. OthersDeleteSubject => Contract!Immutable
    BY <2>0 DEF OthersDeleteSubject, Contract!Immutable
  <2>5. CASE UNCHANGED versions
    BY <1>1, <2>5
  <2> QED
    BY <1>4, <2>1, <2>2, <2>3, <2>4, <2>5 DEF EnvironmentStep, LateDropped,
       OthersSetLevel, OthersSetGlobal, registryVars
<1>5. CASE UNCHANGED vars
  BY <1>1, <1>5 DEF vars, registryVars
<1> QED
  BY <1>2, <1>3, <1>4, <1>5 DEF Next

(* Every operation of streamline_schema keeps its promise.                 *)
THEOREM Implements == Spec => ImplementsContract
<1>1. Init => Contract!Init
  <2>0. Init => op = "none" /\ ~Leveled /\ step # "global"
    BY DEF Init, Leveled
  <2> SUFFICES ASSUME Init, record # NoRecord
               PROVE  versions[record.version] = record.def
    BY <2>0 DEF Contract!Init
  <2>1. PICK d \in Definitions \cup {None} :
          /\ versions = [v \in Versions |-> IF v = 1 THEN d ELSE None]
          /\ record \in [exists : {TRUE}, version : {1}, def : {d} \ {None},
                         level : Levels, refs : {TRUE}]
    BY DEF Init
  <2>2. record.version = 1 /\ record.def = d
    BY <2>1
  <2> QED
    BY <2>1, <2>2, SchemaAssumption DEF Versions
<1>2. IInv /\ [Next]_vars => [Contract!Next]_(Contract!vars)
  <2> SUFFICES ASSUME IInv, [Next]_vars
               PROVE  Contract!Next \/ UNCHANGED Contract!vars
    OBVIOUS
  <2>1. CASE ClientStep
    BY <2>1, FailureRefines, ProgressRefines, LevelSetRefines, ResultRefines,
       FetchRefines, UnsetRefines, MissRefines, ReportRefines, Immutability
       DEF ClientStep, Contract!Next
  <2>2. CASE CoreStep
    BY <2>2, BeginRefines, Immutability DEF Contract!Next
  <2>3. CASE EnvironmentStep
    BY <2>3, OthersRefine, Immutability DEF Contract!Next
  <2>4. CASE UNCHANGED vars
    BY <2>4 DEF vars, registryVars, taskVars, Leveled, LevelChanged,
       Contract!vars, Contract!registry
  <2> QED
    BY <2>1, <2>2, <2>3, <2>4 DEF Next
<1> QED
  BY <1>1, <1>2, Invariance, PTL DEF Spec, ImplementsContract, Contract!Spec
============================================================================
