--------------------------- MODULE TopicContract ---------------------------
(***************************************************************************)
(* What streamline_topic promises to Terraform, without the client, the    *)
(* retries or the network: every operation either fails and leaves the     *)
(* record alone, or takes effect in one instant in which record and topic  *)
(* agree.  The rest of the world creates, deletes and expands the topic in *)
(* between.                                                                *)
(***************************************************************************)
EXTENDS Integers

CONSTANT NoRecord

VARIABLES
  topic,    \* the topic: its partitions (0: none) and settings
  record,   \* what Terraform believes about it
  op        \* the running operation

vars == <<topic, record, op>>

Recorded(parts, conf) == [exists |-> TRUE, parts |-> parts, conf |-> conf]

(* A topic is only ever expanded in place: its settings stay as they are.  *)
Grows == topic'.parts >= topic.parts /\ topic'.conf = topic.conf

Init == op = "none"

Begin ==
  /\ op = "none"
  /\ op' \in {"create", "read", "import", "update", "delete"}
  /\ op' \in {"create", "import"} <=> record = NoRecord
  /\ UNCHANGED <<topic, record>>

(* Only a topic that was not there is created, and it is recorded as made. *)
Create ==
  /\ op = "create" /\ op' = "none"
  /\ record = NoRecord
  /\ topic.parts = 0
  /\ topic'.parts > 0
  /\ record' = Recorded(topic'.parts, topic'.conf)

(* Partitions are only added, and never fewer than recorded; the settings  *)
(* stay as they were, on both sides.                                       *)
Update ==
  /\ op = "update" /\ op' = "none"
  /\ topic.parts > 0 /\ Grows
  /\ record.parts <= record'.parts /\ record'.parts <= topic'.parts
  /\ record' = Recorded(record'.parts, record.conf)

Read ==
  /\ op \in {"read", "import"} /\ op' = "none"
  /\ topic.parts > 0
  /\ record' = Recorded(topic.parts, record.conf)
  /\ UNCHANGED topic

(* A refresh that finds nothing, a destroy, or the first half of a         *)
(* replacement, which goes on to create.                                   *)
Drop ==
  /\ \/ op \in {"read", "delete"} /\ op' = "none"
     \/ op = "delete" /\ op' = "create"
  /\ topic'.parts = 0
  /\ record' = NoRecord

(* The operation reports an error.  What it did to the topic stays done,   *)
(* but it did no more than it was asked to.                                *)
Fail ==
  /\ op # "none" /\ op' = "none"
  /\ UNCHANGED record
  /\ \/ UNCHANGED topic
     \/ op = "create" /\ topic.parts = 0
     \/ op = "update" /\ Grows
     \/ op = "delete" /\ topic'.parts = 0

(* A request that is repeated, or late, and the rest of the world.         *)
Others ==
  /\ UNCHANGED <<record, op>>
  /\ \/ UNCHANGED topic \/ Grows
     \/ topic.parts = 0 \/ topic'.parts = 0

Next == Begin \/ Create \/ Update \/ Read \/ Drop \/ Fail \/ Others

Spec == Init /\ [][Next]_vars
============================================================================
