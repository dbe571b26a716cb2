----------------------------- MODULE AclContract -----------------------------
(***************************************************************************)
(* What streamline_acl promises to Terraform, without pattern codes,       *)
(* filters, retries or the network: an operation either fails and leaves   *)
(* the record alone, or takes effect in one instant in which the recorded  *)
(* entry is granted, found, missing or revoked, and no other entry is      *)
(* touched.  Others grant and revoke entries in between.                   *)
(***************************************************************************)

CONSTANT NoEntry

VARIABLES
  acls,    \* the entries the broker holds
  record,  \* the entry Terraform believes in, or NoEntry
  op,      \* the running operation
  wanted,  \* the entry it is to grant or to adopt
  exact,   \* does the broker heed every field of a filter?
  mute     \* may it answer a revocation with nothing?

vars == <<acls, record, op, wanted, exact, mute>>

Init == op = "none" /\ record \in {NoEntry} \cup acls

Begin ==
  /\ op = "none"
  /\ op' \in {"create", "read", "import", "delete"}
  /\ op' \in {"create", "import"} <=> record = NoEntry
  /\ UNCHANGED <<acls, record>>

(* An entry that is there already is granted again, at no cost.            *)
Grant ==
  /\ op = "create" /\ op' = "none"
  /\ record = NoEntry
  /\ acls' = acls \cup {wanted}
  /\ record' = wanted

Adopt ==
  /\ op = "import" /\ op' = "none"
  /\ wanted \in acls
  /\ record' = wanted
  /\ UNCHANGED acls

Confirm ==
  /\ op = "read" /\ op' = "none"
  /\ record \in acls
  /\ UNCHANGED <<acls, record>>

Miss ==
  /\ op = "read" /\ op' = "none"
  /\ record \notin acls
  /\ record' = NoEntry
  /\ UNCHANGED acls

(* A replacement goes on to grant what is wanted instead.                  *)
Revoke ==
  /\ op = "delete"
  /\ \/ op' = "none"
     \/ op' = "create" /\ wanted' = wanted
  /\ \/ acls' = acls \ {record}
     \/ mute /\ UNCHANGED acls
  /\ record' = NoEntry

(* The operation reports an error; what it did may stay done, but it did   *)
(* no more than it was asked to.                                           *)
Fail ==
  /\ op # "none" /\ op' = "none"
  /\ UNCHANGED record
  /\ op \in {"read", "import"} => UNCHANGED acls
  /\ op = "create" => acls' \in {acls, acls \cup {wanted}}
  /\ (op = "delete" /\ exact) => acls' \in {acls, acls \ {record}}

(* A request that is repeated, or late, and the rest of the world.         *)
Others ==
  /\ UNCHANGED <<record, op, wanted>>
  /\ exact => \/ UNCHANGED acls
              \/ \E e \in acls \cup acls' : acls' \in {acls \cup {e}, acls \ {e}}

Next ==
  /\ \/ Begin
     \/ Grant \/ Adopt \/ Confirm \/ Miss \/ Revoke \/ Fail
     \/ Others
  /\ UNCHANGED <<exact, mute>>

Spec == Init /\ [][Next]_vars
============================================================================
