---------------------------- MODULE GroupContract ----------------------------
(***************************************************************************)
(* What streamline_consumer_group promises to Terraform, without the       *)
(* coordinator, the listings or the network.  An operation ends in one     *)
(* instant; a record may be dropped in it only if the group was missing,   *)
(* or out of sight, at some moment of the attempt that decides it, since   *)
(* no instant shows all brokers at once.  Nothing ever creates a group.    *)
(***************************************************************************)

VARIABLES
  group,   \* the group: absent, empty, or in use
  record,  \* the state Terraform believes in, or "none"
  op,      \* the running operation
  missed   \* was the group missing, or out of sight, in this attempt?

vars == <<group, record, op, missed>>

Absent == group = "absent"

Init == op = "none" /\ record \in {"none", group}

Begin ==
  /\ op = "none"
  /\ op' \in {"create", "read", "import", "data", "delete"}
  /\ op' \in {"create", "import"} => record = "none"
  /\ op' \in {"read", "delete"} => record # "none"
  /\ missed' = Absent
  /\ UNCHANGED <<group, record>>

(* A refresh or an import records the group as it is.                      *)
Describe ==
  /\ op \in {"read", "import"} /\ op' = "none"
  /\ ~Absent
  /\ record' = group
  /\ UNCHANGED <<group, missed>>

(* A refresh that finds nothing, or a deletion.  The group that goes with  *)
(* its record is one that nobody uses; a replacement goes on to create.    *)
Drop ==
  /\ \/ op = "read" /\ op' = "none" /\ UNCHANGED group
     \/ op = "delete" /\ op' \in {"none", "create"}
          /\ group' # group => group = "empty" /\ Absent'
  /\ record' = "none"
  /\ missed'

(* The operation reports an error, as creating always does, or a data      *)
(* source its answer.                                                      *)
Leave ==
  /\ op # "none" /\ op' = "none"
  /\ UNCHANGED record
  /\ group' # group => op = "delete" /\ group = "empty" /\ Absent'

(* The next attempt forgets what was missed before.                        *)
Retry ==
  /\ op # "none"
  /\ missed' = Absent
  /\ UNCHANGED <<group, record, op>>

(* Applications, administrators, requests that are repeated or late; no    *)
(* absence goes unnoticed, and nothing removes a group that is in use.     *)
Others ==
  /\ UNCHANGED <<record, op>>
  /\ missed => missed'
  /\ (Absent' /\ ~Absent) => missed' /\ group = "empty"

Next == Begin \/ Describe \/ Drop \/ Leave \/ Retry \/ Others

Spec == Init /\ [][Next]_vars
============================================================================
