--------------------------- MODULE SchemaContract ---------------------------
(***************************************************************************)
(* What streamline_schema promises to Terraform, without the requests a    *)
(* handler consists of: an operation fails and leaves the record alone, or *)
(* each part of what it records agreed with the registry in an instant of  *)
(* that operation, though not all parts in the same one.  An apply puts    *)
(* the level in force first and has the version later.  A refresh observes *)
(* the version, then the subject's own level, and only if it had none the  *)
(* registry's: the subject may have got a level by then, and the record    *)
(* holds one that is not in force.  Destroying is not on offer.            *)
(***************************************************************************)
EXTENDS Integers

CONSTANTS NoRecord, None

VARIABLES
  versions,  \* the definition live under each version number, or None
  level,     \* the subject's own compatibility level, or None
  global,    \* the registry's compatibility level
  record,    \* the resource in the Terraform state
  op,        \* the running operation
  wanted,    \* the configuration it applies
  found,     \* the version and definition it has observed
  leveled,   \* has it put the level wanted in force?
  unset      \* has it seen the subject without a level of its own?

registry == <<versions, level, global>>
vars     == <<registry, record, op, wanted, found, leveled, unset>>

Recorded(version, def, l, refs) ==
  [exists |-> TRUE, version |-> version, def |-> def, level |-> l, refs |-> refs]

(* What lives under a version number may go, but never turns into another  *)
(* definition, whoever acts on the subject.                                *)
Immutable ==
  \A v \in DOMAIN versions :
    versions[v] # None => versions'[v] \in {versions[v], None}

Init ==
  /\ op = "none" /\ ~leveled /\ ~unset
  /\ record = NoRecord \/ versions[record.version] = record.def

Begin ==
  /\ op = "none"
  /\ op' \in {"create", "read", "import", "update", "delete"}
  /\ op' \in {"create", "import"} <=> record = NoRecord
  /\ UNCHANGED <<registry, record, leveled, unset>>

Ends == op' = "none" /\ ~leveled' /\ ~unset'

(* The level wanted is in force in this instant.                           *)
Level ==
  /\ op \in {"create", "update"} /\ op' = op
  /\ level' = wanted.level /\ leveled'
  /\ UNCHANGED <<versions, global, record, wanted, unset>>

(* The version recorded holds the definition wanted, and the level wanted  *)
(* was put in force before, unless it is the one recorded already.         *)
Register ==
  /\ op \in {"create", "update"} /\ Ends
  /\ ~wanted.refs
  /\ leveled \/ record.level = wanted.level
  /\ record' = Recorded(record'.version, wanted.def, wanted.level, FALSE)
  /\ versions[record'.version] = wanted.def
  /\ UNCHANGED registry

(* Version and definition stay, and the level wanted is in force.          *)
Relevel ==
  /\ op = "update" /\ Ends
  /\ record.def = wanted.def
  /\ level' = wanted.level /\ UNCHANGED <<versions, global>>
  /\ record' = [record EXCEPT !.level = wanted.level]

(* A refresh never turns to another version, an import takes the latest.   *)
Observe ==
  /\ op \in {"read", "import"} /\ op' = op
  /\ found'.version \in DOMAIN versions
  /\ found'.def = versions[found'.version] /\ found'.def # None
  /\ IF op = "read" THEN found'.version = record.version
     ELSE \A v \in DOMAIN versions : versions[v] = None \/ v <= found'.version
  /\ UNCHANGED <<registry, record, wanted, leveled, unset>>

Unset ==
  /\ op \in {"read", "import"} /\ op' = op
  /\ level = None /\ unset'
  /\ UNCHANGED <<registry, record, wanted, found, leveled>>

(* The level reported is the subject's own in this instant, or, if it had  *)
(* none in an earlier one, the registry's in this instant.                 *)
Report ==
  /\ op \in {"read", "import"} /\ Ends
  /\ ~unset => level # None
  /\ record' = Recorded(found.version, found.def,
                        IF unset THEN global ELSE level, record.refs)
  /\ UNCHANGED registry

Miss ==
  /\ op = "read" /\ Ends
  /\ versions[record.version] = None
  /\ record' = NoRecord
  /\ UNCHANGED registry

(* What the operation did stays done, but it did no more than was asked.   *)
Fail ==
  /\ op # "none" /\ Ends
  /\ UNCHANGED <<record, global>>
  /\ op \notin {"create", "update"} => UNCHANGED registry
  /\ level' \in {level, wanted.level}
  /\ \A v \in DOMAIN versions : versions'[v] \in {versions[v], wanted.def}

(* A request on its way, and the rest of the world.                        *)
Others ==
  /\ UNCHANGED <<record, op, wanted, leveled, unset>>
  /\ op \in {"read", "import"} => UNCHANGED found

Next ==
  /\ \/ Begin
     \/ Level \/ Register \/ Relevel
     \/ Observe \/ Unset \/ Report \/ Miss \/ Fail
     \/ Others
  /\ Immutable

Spec == Init /\ [][Next]_vars
=============================================================================
