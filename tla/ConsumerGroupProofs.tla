------------------------- MODULE ConsumerGroupProofs -------------------------
(***************************************************************************)
(* What holds of ConsumerGroup for every set of brokers, every number of   *)
(* attempts and every number of requests in flight.                        *)
(***************************************************************************)
EXTENDS ConsumerGroup, FiniteSetTheorems, TLAPS

USE GroupAssumption

(* The initial states satisfy the invariant.                               *)
LEMMA InitOK == Init => IInv
<1> SUFFICES ASSUME Init PROVE IInv
  OBVIOUS
<1>1. 0 \in 0..(MaxRetries - 1) /\ 0 \in 0..MaxLate
  OBVIOUS
<1>2. TypeOK
  BY <1>1 DEF Init, TypeOK
<1>3. TaskOK /\ SeenOK
  BY DEF Init, TaskOK, SeenOK, Recorded
<1> QED
  BY <1>2, <1>3 DEF IInv

(* Whatever handler ends, the idle state it leaves behind is a good one.   *)
LEMMA FinishOK ==
  ASSUME TypeOK, Finish,
         group' \in {"absent", "empty", "active"}, coordinator' \in Servers,
         late' \in 0..MaxLate, record' \in {"none", "empty", "active"},
         seen' \in SUBSET {"absent", "moved"}
  PROVE  IInv'
<1>1. 0 \in 0..(MaxRetries - 1)
  OBVIOUS
<1>2. TypeOK'
  BY <1>1 DEF TypeOK, Finish
<1>3. TaskOK' /\ SeenOK'
  BY DEF TaskOK, SeenOK, Finish
<1> QED
  BY <1>2, <1>3 DEF IInv

(* withRetry after a failed attempt: either there is an attempt left, or   *)
(* the operation has ended.  An absence in between is remembered.          *)
LEMMA FailOK ==
  ASSUME IInv, AttemptFails, op # "none", op # "create",
         group' \in {"absent", "empty", "active"}, coordinator' \in Servers,
         late' \in 0..MaxLate, UNCHANGED record,
         seen' \in SUBSET {"absent", "moved"},
         group' # "absent" \/ "absent" \in seen'
  PROVE  IInv'
<1>1. CASE Finish
  BY <1>1, FinishOK DEF IInv, TypeOK
<1>2. CASE MoreAttempts /\ GoTo("backoff")
  <2>1. TypeOK'
    BY <1>2 DEF IInv, TypeOK, GoTo, callVars
  <2>2. attempt + 1 < MaxRetries
    BY <1>2 DEF IInv, TypeOK, MoreAttempts
  <2>3. TaskOK'
    BY <1>2, <2>2 DEF IInv, TaskOK, GoTo, callVars, Recorded
  <2>4. SeenOK'
    BY <1>2 DEF SeenOK, GoTo, Exists
  <2> QED
    BY <2>1, <2>3, <2>4 DEF IInv
<1> QED
  BY <1>1, <1>2 DEF AttemptFails

(* A NotFoundError ends every operation but a replacement, which proceeds  *)
(* to the creation that is refused.                                        *)
LEMMA NotFoundOK ==
  ASSUME IInv, NotFound, op # "none", op # "create",
         group' \in {"absent", "empty", "active"}, UNCHANGED coordinator,
         UNCHANGED late, seen' \in SUBSET {"absent", "moved"},
         group' # "absent" \/ "absent" \in seen'
  PROVE  IInv'
<1>1. CASE record' \in {"none", record} /\ Finish
  BY <1>1, FinishOK DEF IInv, TypeOK
<1>2. CASE /\ record' = "none"
           /\ op' = "create" /\ step' = "refuse" /\ attempt' = 0
           /\ replacing' = FALSE
           /\ UNCHANGED callVars
  <2>1. 0 \in 0..(MaxRetries - 1)
    OBVIOUS
  <2>2. TypeOK'
    BY <1>2, <2>1 DEF IInv, TypeOK, callVars
  <2>3. TaskOK' /\ SeenOK'
    BY <1>2 DEF TaskOK, SeenOK, Recorded, Exists
  <2> QED
    BY <2>2, <2>3 DEF IInv
<1> QED
  BY <1>1, <1>2 DEF NotFound

(* An operation that Terraform core begins.                                *)
LEMMA BeginOK ==
  ASSUME IInv, CoreStep
  PROVE  IInv'
<1>1. PICK o \in {"create", "read", "import", "data", "delete"},
           s \in {"refuse", "find"}, r \in BOOLEAN :
        /\ Begin(o, s, r)
        /\ o \in {"create", "import"} => ~Recorded
        /\ o \in {"read", "delete"} => Recorded
        /\ o = "create" <=> s = "refuse"
        /\ r => o = "delete"
  BY DEF CoreStep, StartCreate, StartRefresh, StartImport, StartDataSource,
         StartDestroy, StartReplace
<1>2. Outset \in SUBSET {"absent", "moved"} /\ (Exists \/ "absent" \in Outset)
  BY DEF Outset
<1>3. TypeOK'
  BY <1>1, <1>2 DEF IInv, TypeOK, Begin, clusterVars, callVars
<1>4. TaskOK'
  BY <1>1 DEF IInv, TaskOK, Begin, clusterVars, callVars, Recorded
<1>5. SeenOK'
  BY <1>1, <1>2 DEF SeenOK, Begin, clusterVars, callVars, Exists
<1> QED
  BY <1>3, <1>4, <1>5 DEF IInv

(* The steps of the client before the listings.                            *)
LEMMA RequestStepsOK ==
  ASSUME IInv,
         \/ CreateRefused \/ CallFails
         \/ \E b \in Servers : CoordinatorFound(b)
         \/ DescribeFinds \/ RequestNotFound \/ DeleteSucceeds
         \/ ReplyLost \/ RequestDelayed \/ CoordinatorUnavailable
         \/ BackoffElapses
  PROVE  IInv'
<1> USE DEF IInv
<1>1. CASE CreateRefused
  BY <1>1, FinishOK DEF TypeOK, CreateRefused, clusterVars
<1>2. CASE CallFails
  BY <1>2, FailOK DEF TypeOK, TaskOK, SeenOK, CallFails, clusterVars, Exists
<1>3. ASSUME NEW b \in Servers, CoordinatorFound(b)
      PROVE  IInv'
  <2>1. TypeOK'
    BY <1>3 DEF TypeOK, CoordinatorFound, clusterVars
  <2>2. TaskOK' /\ SeenOK'
    BY <1>3 DEF TaskOK, SeenOK, CoordinatorFound, clusterVars, Recorded, Exists
  <2> QED
    BY <2>1, <2>2
<1>4. CASE DescribeFinds
  <2>1. record' \in {"none", "empty", "active"}
    BY <1>4 DEF TypeOK, DescribeFinds, Described, Exists
  <2> QED
    BY <1>4, <2>1, FinishOK DEF TypeOK, DescribeFinds, Described, clusterVars
<1>5. CASE RequestNotFound
  BY <1>5, NotFoundOK
     DEF TypeOK, TaskOK, SeenOK, RequestNotFound, AtCoordinator, clusterVars, Exists
<1>6. CASE DeleteSucceeds
  BY <1>6, NotFoundOK
     DEF TypeOK, TaskOK, DeleteSucceeds, GroupGoes, AtCoordinator
<1>7. CASE ReplyLost
  BY <1>7, FailOK DEF TypeOK, TaskOK, ReplyLost, GroupGoes, AtCoordinator
<1>8. CASE RequestDelayed
  <2>1. late' \in 0..MaxLate
    BY <1>8 DEF TypeOK, RequestDelayed
  <2> QED
    BY <1>8, <2>1, FailOK
       DEF TypeOK, TaskOK, SeenOK, RequestDelayed, clusterVars, Exists
<1>9. CASE CoordinatorUnavailable
  <2>1. TypeOK'
    BY <1>9 DEF TypeOK, CoordinatorUnavailable, GoTo, callVars, clusterVars
  <2>2. TaskOK' /\ SeenOK'
    BY <1>9 DEF TaskOK, SeenOK, CoordinatorUnavailable, GoTo, callVars,
                clusterVars, Recorded, Exists
  <2> QED
    BY <2>1, <2>2
<1>10. CASE BackoffElapses
  <2>1. attempt' \in 0..(MaxRetries - 1)
    BY <1>10 DEF TypeOK, TaskOK, BackoffElapses
  <2>2. Outset \in SUBSET {"absent", "moved"} /\ (Exists \/ "absent" \in Outset)
    BY DEF Outset
  <2>3. TypeOK'
    BY <1>10, <2>1, <2>2 DEF TypeOK, BackoffElapses, callVars, clusterVars
  <2>4. TaskOK'
    BY <1>10 DEF TaskOK, BackoffElapses, callVars, clusterVars, Recorded
  <2>5. SeenOK'
    BY <1>10, <2>2 DEF SeenOK, BackoffElapses, callVars, clusterVars, Exists
  <2> QED
    BY <2>3, <2>4, <2>5
<1> QED
  BY <1>1, <1>2, <1>3, <1>4, <1>5, <1>6, <1>7, <1>8, <1>9, <1>10

(* The listings: what is still to be asked, was shown, or failed, covers   *)
(* the coordinator as long as it stays where it is.                        *)
LEMMA ListingStepsOK ==
  ASSUME IInv,
         \/ \E A \in SUBSET Servers : BrokersAdvertised(A)
         \/ \E b \in Servers : ListingAnswered(b) \/ ListingFails(b)
         \/ AbsenceConfirmed \/ AbsenceNotConfirmed
  PROVE  IInv'
<1> USE DEF IInv
<1>1. ASSUME NEW A \in SUBSET Servers, BrokersAdvertised(A)
      PROVE  IInv'
  <2>1. TypeOK'
    BY <1>1 DEF TypeOK, BrokersAdvertised, clusterVars
  <2>2. TaskOK'
    BY <1>1 DEF TaskOK, BrokersAdvertised, clusterVars, Recorded
  <2>3. SeenOK'
    BY <1>1 DEF SeenOK, TaskOK, BrokersAdvertised, clusterVars, Exists
  <2> QED
    BY <2>1, <2>2, <2>3
<1>2. ASSUME NEW b \in Servers, ListingAnswered(b)
      PROVE  IInv'
  <2>1. TypeOK'
    BY <1>2 DEF TypeOK, ListingAnswered, ListingShows, Listed, clusterVars
  <2>2. TaskOK'
    BY <1>2 DEF TaskOK, ListingAnswered, clusterVars, Recorded
  <2>3. SeenOK'
    <3>1. op # "none" => Exists \/ "absent" \in seen
      BY DEF SeenOK
    <3>2. op # "none"
      BY <1>2 DEF ListingAnswered, TaskOK
    <3>3. b = coordinator /\ Exists => present'
      BY <1>2 DEF ListingAnswered, ListingShows, Listed
    <3>4. present => present'
      BY <1>2 DEF ListingAnswered, ListingShows
    <3> QED
      BY <1>2, <3>1, <3>2, <3>3, <3>4 DEF SeenOK, ListingAnswered, clusterVars, Exists
  <2> QED
    BY <2>1, <2>2, <2>3
<1>3. ASSUME NEW b \in Servers, ListingFails(b)
      PROVE  IInv'
  <2>1. TypeOK'
    BY <1>3 DEF TypeOK, ListingFails, clusterVars
  <2>2. TaskOK'
    BY <1>3 DEF TaskOK, ListingFails, clusterVars, Recorded
  <2>3. SeenOK'
    BY <1>3 DEF SeenOK, ListingFails, clusterVars, Exists
  <2> QED
    BY <2>1, <2>2, <2>3
<1>4. CASE AbsenceConfirmed
  BY <1>4, NotFoundOK
     DEF TypeOK, TaskOK, SeenOK, AbsenceConfirmed, Believed, clusterVars, Exists
<1>5. CASE AbsenceNotConfirmed
  BY <1>5, FailOK
     DEF TypeOK, TaskOK, SeenOK, AbsenceNotConfirmed, clusterVars, Exists
<1> QED
  BY <1>1, <1>2, <1>3, <1>4, <1>5

(* Brokers, applications and administrators.                               *)
LEMMA EnvironmentOK ==
  ASSUME IInv, EnvironmentStep
  PROVE  IInv'
<1> USE DEF IInv
<1>1. CASE Killed
  BY <1>1, FinishOK DEF TypeOK, Killed, clusterVars
<1>2. CASE /\ UNCHANGED <<record, taskVars>>
           /\ group' \in {"absent", "empty", "active"} /\ coordinator' \in Servers
           /\ late' \in 0..MaxLate
           /\ seen \subseteq seen' /\ seen' \in SUBSET {"absent", "moved"}
           /\ Exists' \/ "absent" \in seen' \/ UNCHANGED group
           /\ coordinator' = coordinator \/ "moved" \in seen'
  <2>1. TypeOK'
    BY <1>2 DEF TypeOK, taskVars, callVars
  <2>2. TaskOK'
    BY <1>2 DEF TaskOK, taskVars, callVars, Recorded
  <2>3. SeenOK'
    BY <1>2 DEF SeenOK, taskVars, callVars, Exists
  <2> QED
    BY <2>1, <2>2, <2>3
<1>3. CASE LateArrives \/ LateDropped
  <2>1. late' \in 0..MaxLate
    BY <1>3 DEF TypeOK, LateArrives, LateDropped
  <2> QED
    BY <1>2, <1>3, <2>1
       DEF TypeOK, LateArrives, LateDropped, GroupGoes, clusterVars
<1>4. CASE MembersJoin \/ MembersLeave \/ GroupExpires
  BY <1>2, <1>4
     DEF TypeOK, MembersJoin, MembersLeave, GroupExpires, GroupGoes, Exists
<1>5. ASSUME NEW b \in Servers, CoordinatorMoves(b)
      PROVE  IInv'
  BY <1>2, <1>5 DEF TypeOK, CoordinatorMoves
<1> QED
  BY <1>1, <1>3, <1>4, <1>5 DEF EnvironmentStep

(* The invariant of handlers, listings and cluster holds in every          *)
(* reachable state.                                                        *)
THEOREM Invariance == Spec => []IInv
<1>1. IInv /\ [Next]_vars => IInv'
  <2> SUFFICES ASSUME IInv, [Next]_vars PROVE IInv'
    OBVIOUS
  <2>1. CASE ClientStep
    BY <2>1, RequestStepsOK, ListingStepsOK DEF ClientStep
  <2>2. CASE CoreStep
    BY <2>2, BeginOK
  <2>3. CASE EnvironmentStep
    BY <2>3, EnvironmentOK
  <2>4. CASE UNCHANGED vars
    BY <2>4 DEF vars, clusterVars, taskVars, callVars, IInv, TypeOK, TaskOK,
                SeenOK, Recorded, Exists
  <2> QED
    BY <2>1, <2>2, <2>3, <2>4 DEF Next
<1> QED
  BY InitOK, <1>1, PTL DEF Spec

(* Every step that drops the record follows an absence, or a coordinator   *)
(* that moved or was hidden, in the same attempt.                          *)
LEMMA DropStep ==
  ASSUME IInv, [Next]_vars, Recorded, ~Recorded'
  PROVE  seen' # {}
<1>1. UNCHANGED record => FALSE
  BY DEF Recorded
<1>2. CASE RequestNotFound
  BY <1>2 DEF RequestNotFound, AtCoordinator, IInv, TaskOK, SeenOK
<1>3. CASE DeleteSucceeds
  BY <1>3 DEF DeleteSucceeds, GroupGoes
<1>4. CASE AbsenceConfirmed
  BY <1>4 DEF AbsenceConfirmed, Believed, IInv, SeenOK
<1>5. CASE DescribeFinds
  BY <1>5 DEF DescribeFinds, Described, Exists, Recorded, IInv, TypeOK
<1>6. ClientStep => RequestNotFound \/ DeleteSucceeds \/ AbsenceConfirmed
                      \/ DescribeFinds \/ UNCHANGED record
  BY DEF ClientStep, CreateRefused, CallFails, CoordinatorFound, ReplyLost,
         RequestDelayed, CoordinatorUnavailable, BrokersAdvertised,
         ListingAnswered, ListingFails, AbsenceNotConfirmed, BackoffElapses
<1>7. CoreStep => UNCHANGED record
  BY DEF CoreStep, Begin, StartCreate, StartRefresh, StartImport,
         StartDataSource, StartDestroy, StartReplace
<1>8. EnvironmentStep => UNCHANGED record
  BY DEF EnvironmentStep, Killed, LateArrives, LateDropped, MembersJoin,
         MembersLeave, GroupExpires, CoordinatorMoves
<1> QED
  BY <1>1, <1>2, <1>3, <1>4, <1>5, <1>6, <1>7, <1>8 DEF Next, vars

(* No record of a consumer group is dropped on the word of a coordinator   *)
(* that is not available, whichever brokers the cluster has and however    *)
(* their answers interleave with its changes.                              *)
THEOREM DropsOnlyAbsent == Spec => DropOnlyIfAbsent
<1>1. IInv /\ [Next]_vars => [(Recorded /\ ~Recorded') => seen' # {}]_vars
  BY DropStep
<1> QED
  BY Invariance, <1>1, PTL DEF Spec, DropOnlyIfAbsent

----------------------------------------------------------------------------
(* How long an operation takes.                                            *)

(* What a attempts of k steps each amount to, when m are allowed.          *)
LEMMA AttemptsLeft ==
  ASSUME NEW k \in Nat, NEW m \in Nat, NEW a \in 0..(m - 1)
  PROVE  /\ k * (m - a) \in Nat
         /\ k <= k * (m - a) /\ k * (m - a) <= k * m
         /\ k * (m - (a + 1)) = k * (m - a) - k
         /\ k * (m - 0) = k * m
<1>1. k * (m - (a + 1)) = k * (m - a) - k
  OBVIOUS
<1>2. k * (m - a) = k * m - k * a
  OBVIOUS
<1>3. k * a \in Nat
  OBVIOUS
<1>4. k * (m - (a + 1)) \in Nat
  OBVIOUS
<1> QED
  BY <1>1, <1>2, <1>3, <1>4

(* The brokers that are still to be listed are some of the cluster's.      *)
LEMMA ServersCount ==
  /\ Cardinality(Servers) \in Nat
  /\ AttemptWork \in Nat /\ AttemptWork = Cardinality(Servers) + 5
  /\ \A A \in SUBSET Servers : Cardinality(A) \in 0..Cardinality(Servers)
<1>1. Cardinality(Servers) \in Nat
  BY FS_CardinalityType
<1>2. ASSUME NEW A \in SUBSET Servers
      PROVE  Cardinality(A) \in 0..Cardinality(Servers)
  <2>1. IsFiniteSet(A) /\ Cardinality(A) <= Cardinality(Servers)
    BY FS_Subset
  <2> QED
    BY <1>1, <2>1, FS_CardinalityType
<1> QED
  BY <1>1, <1>2 DEF AttemptWork

(* Every step of an attempt has a weight below that of a whole attempt.    *)
LEMMA WeightTyped ==
  ASSUME TypeOK
  PROVE  Weight(step) \in 1..AttemptWork
<1>1. Cardinality(pending) \in 0..Cardinality(Servers)
  BY ServersCount DEF TypeOK
<1> QED
  BY <1>1, ServersCount DEF TypeOK, Weight

(* While an operation runs there is something left to do.                  *)
LEMMA WorkTyped ==
  ASSUME TypeOK
  PROVE  /\ Work \in 0..(2 * AttemptWork * MaxRetries + AttemptWork)
         /\ op # "none" => Work >= AttemptWork + Weight(step)
         /\ (op # "none" /\ replacing)
              => Work >= AttemptWork + Weight(step) + AttemptWork * MaxRetries
<1> DEFINE w == Weight(step)
           k == AttemptWork
           left == k * (MaxRetries - attempt)
           all == k * MaxRetries
<1>1. k \in Nat /\ w \in 1..k /\ replacing \in BOOLEAN
  BY WeightTyped, ServersCount DEF TypeOK
<1>2. left \in Nat /\ k <= left /\ left <= all /\ all \in Nat
  BY <1>1, AttemptsLeft DEF TypeOK
<1>3. 2 * k * MaxRetries = all + all
  BY <1>1
<1>4. Work = IF op = "none" THEN 0 ELSE left + w + (IF replacing THEN all ELSE 0)
  BY DEF Work
<1> HIDE DEF w, k, left, all
<1>5. Work \in 0..(all + all + k)
  BY <1>1, <1>2, <1>4
<1>6. /\ op # "none" => Work >= k + w
      /\ (op # "none" /\ replacing) => Work >= k + w + all
  BY <1>1, <1>2, <1>4
<1> QED
  BY <1>3, <1>5, <1>6 DEF w, k, all

(* The end of an operation leaves nothing to do.                           *)
LEMMA EndLess ==
  ASSUME TypeOK, op # "none", op' = "none"
  PROVE  Work' < Work
<1>1. Work' = 0
  BY DEF Work
<1> QED
  BY <1>1, WeightTyped, WorkTyped, ServersCount

(* Within an attempt the weight of what is left decides.                   *)
LEMMA ForwardLess ==
  ASSUME TypeOK, TypeOK', op # "none", UNCHANGED <<op, attempt, replacing>>,
         Weight(step)' < Weight(step)
  PROVE  Work' < Work
<1> DEFINE left == AttemptWork * (MaxRetries - attempt)
           more == IF replacing THEN AttemptWork * MaxRetries ELSE 0
<1>1. left \in Nat /\ more \in Nat
  BY ServersCount, AttemptsLeft DEF TypeOK
<1>2. Weight(step) \in Nat /\ Weight(step)' \in Nat
  <2>1. Weight(step) \in Nat
    BY WeightTyped, ServersCount
  <2>2. Cardinality(pending') \in 0..Cardinality(Servers)
    BY ServersCount DEF TypeOK
  <2>3. Weight(step)' \in Nat
    BY <2>2, ServersCount DEF Weight
  <2> QED
    BY <2>1, <2>3
<1>3. Work = left + Weight(step) + more /\ Work' = left + Weight(step)' + more
  BY DEF Work, AttemptWork
<1> HIDE DEF left, more
<1> QED
  BY <1>1, <1>2, <1>3

(* A failed attempt either ends the operation or brings it to its backoff. *)
LEMMA FailLess ==
  ASSUME TypeOK, TypeOK', op # "none", AttemptFails,
         step \in {"find", "request", "metadata", "listing"}
  PROVE  Work' < Work
<1>1. CASE Finish
  BY <1>1, EndLess DEF Finish
<1>2. CASE GoTo("backoff")
  <2>1. Cardinality(pending) \in Nat
    BY ServersCount DEF TypeOK
  <2>2. Weight(step)' < Weight(step)
    BY <1>2, <2>1, ServersCount DEF Weight, GoTo
  <2> QED
    BY <1>2, <2>2, ForwardLess DEF GoTo
<1> QED
  BY <1>1, <1>2 DEF AttemptFails

(* The attempt that is spent outweighs the steps of the next one.          *)
LEMMA BackoffLess ==
  ASSUME TypeOK, TaskOK, BackoffElapses
  PROVE  Work' < Work
<1> DEFINE k == AttemptWork
           left == k * (MaxRetries - attempt)
           more == IF replacing THEN k * MaxRetries ELSE 0
<1>1. /\ op # "none" /\ step = "backoff" /\ attempt' = attempt + 1
      /\ step' = "find" /\ UNCHANGED <<op, replacing>>
  BY DEF BackoffElapses, TaskOK
<1>2. Weight(step) = 1 /\ Weight(step)' = k
  BY <1>1 DEF Weight, AttemptWork
<1>3. left \in Nat /\ more \in Nat /\ k * (MaxRetries - (attempt + 1)) = left - k
      /\ k \in Nat
  BY ServersCount, AttemptsLeft DEF TypeOK
<1>4. Work = left + 1 + more /\ Work' = (left - k) + k + more
  BY <1>1, <1>2, <1>3 DEF Work, AttemptWork
<1> HIDE DEF k, left, more
<1> QED
  BY <1>3, <1>4

(* The deletion of a replacement leaves the creation, which is refused.    *)
LEMMA NotFoundLess ==
  ASSUME TypeOK, op # "none", NotFound
  PROVE  Work' < Work
<1>1. CASE Finish
  BY <1>1, EndLess DEF Finish
<1>2. CASE replacing /\ op' = "create" /\ step' = "refuse" /\ attempt' = 0
             /\ replacing' = FALSE
  <2>1. Work' = AttemptWork * MaxRetries + 1
    BY <1>2, ServersCount, AttemptsLeft DEF Work, Weight, AttemptWork
  <2>2. Work >= AttemptWork + Weight(step) + AttemptWork * MaxRetries
        /\ Weight(step) \in 1..AttemptWork /\ AttemptWork * MaxRetries \in Nat
    BY <1>2, WorkTyped, WeightTyped, ServersCount
  <2>3. Work \in Int /\ AttemptWork \in Nat /\ AttemptWork >= 5
    BY WorkTyped, ServersCount
  <2> QED
    BY <2>1, <2>2, <2>3
<1> QED
  BY <1>1, <1>2 DEF NotFound

(* Every step of the client brings the running operation nearer its end.   *)
LEMMA ClientLess ==
  ASSUME TypeOK, TypeOK', TaskOK, ClientStep
  PROVE  op # "none" /\ Work' < Work
<1>0. step # "idle" => op # "none"
  BY DEF TaskOK
<1>1. CASE CreateRefused \/ DescribeFinds
  BY <1>0, <1>1, EndLess DEF CreateRefused, DescribeFinds, Described, Finish, AtCoordinator
<1>2. CASE CallFails \/ ReplyLost \/ RequestDelayed \/ AbsenceNotConfirmed
  BY <1>0, <1>2, FailLess
     DEF CallFails, ReplyLost, RequestDelayed, AbsenceNotConfirmed, AtCoordinator
<1>3. CASE RequestNotFound \/ DeleteSucceeds \/ AbsenceConfirmed
  BY <1>0, <1>3, NotFoundLess
     DEF RequestNotFound, DeleteSucceeds, AbsenceConfirmed, AtCoordinator, Believed
<1>4. CASE CoordinatorUnavailable \/ \E b \in Servers : CoordinatorFound(b)
  <2>1. /\ UNCHANGED <<op, attempt, replacing>> /\ op # "none"
        /\ \/ step = "request" /\ step' = "metadata"
           \/ step = "find" /\ step' = "request"
    BY <1>0, <1>4 DEF CoordinatorUnavailable, CoordinatorFound, GoTo
  <2>2. Weight(step)' < Weight(step)
    BY <2>1, ServersCount DEF Weight
  <2> QED
    BY <2>1, <2>2, ForwardLess
<1>5. ASSUME NEW A \in SUBSET Servers, BrokersAdvertised(A)
      PROVE  op # "none" /\ Work' < Work
  <2>1. /\ UNCHANGED <<op, attempt, replacing>> /\ op # "none"
        /\ step = "metadata" /\ step' = "listing" /\ pending' = A
    BY <1>0, <1>5 DEF BrokersAdvertised
  <2>2. Weight(step)' < Weight(step)
    BY <2>1, ServersCount DEF Weight
  <2> QED
    BY <2>1, <2>2, ForwardLess
<1>6. ASSUME NEW b \in Servers, ListingAnswered(b) \/ ListingFails(b)
      PROVE  op # "none" /\ Work' < Work
  <2>1. /\ UNCHANGED <<op, step, attempt, replacing>> /\ op # "none"
        /\ step = "listing" /\ pending' = pending \ {b} /\ b \in pending
    BY <1>0, <1>6 DEF ListingAnswered, ListingFails
  <2>2. Cardinality(pending') = Cardinality(pending) - 1
    <3>1. IsFiniteSet(pending)
      BY FS_Subset DEF TypeOK
    <3> QED
      BY <2>1, <3>1, FS_RemoveElement
  <2>3. Cardinality(pending) \in Nat
    BY ServersCount DEF TypeOK
  <2>4. Weight(step)' < Weight(step)
    BY <2>1, <2>2, <2>3 DEF Weight
  <2> QED
    BY <2>1, <2>4, ForwardLess
<1>7. CASE BackoffElapses
  BY <1>0, <1>7, BackoffLess DEF BackoffElapses
<1> QED
  BY <1>1, <1>2, <1>3, <1>4, <1>5, <1>6, <1>7 DEF ClientStep

(* Nobody but the client and a kill touches the running operation.         *)
LEMMA OthersLeaveTask ==
  ASSUME [Next]_vars, op # "none", ~ClientStep
  PROVE  UNCHANGED taskVars \/ op' = "none"
<1>1. CASE CoreStep
  BY <1>1 DEF CoreStep, StartCreate, StartRefresh, StartImport, StartDataSource,
              StartDestroy, StartReplace, Begin
<1>2. CASE EnvironmentStep
  BY <1>2 DEF EnvironmentStep, Killed, Finish, LateArrives, LateDropped,
              MembersJoin, MembersLeave, GroupExpires, CoordinatorMoves
<1>3. CASE UNCHANGED vars
  BY <1>3 DEF vars
<1> QED
  BY <1>1, <1>2, <1>3 DEF Next

(* However brokers and listings contradict each other, an operation takes  *)
(* a bounded number of steps of its handler: each attempt lists each       *)
(* broker once at most, and there are MaxRetries attempts, or twice as     *)
(* many in a replacement.                                                  *)
THEOREM WorkBounded ==
  Spec => WorkShrinks /\ [](Work \in 0..(2 * AttemptWork * MaxRetries + AttemptWork))
<1>1. IInv => Work \in 0..(2 * AttemptWork * MaxRetries + AttemptWork)
  BY WorkTyped DEF IInv
<1>2. IInv /\ IInv' /\ [Next]_vars =>
        [op # "none" => /\ Work' <= Work
                        /\ taskVars' # taskVars => Work' < Work]_vars
  <2> SUFFICES ASSUME IInv, IInv', [Next]_vars, op # "none"
               PROVE  /\ Work' <= Work
                      /\ taskVars' # taskVars => Work' < Work
    OBVIOUS
  <2>1. TypeOK /\ TypeOK' /\ TaskOK /\ Work \in Int
    BY WorkTyped, ServersCount DEF IInv
  <2>2. CASE UNCHANGED taskVars
    BY <2>1, <2>2 DEF taskVars, callVars, Work, Weight
  <2>3. ASSUME Work' < Work, Work' \in Int
        PROVE  Work' <= Work
    BY <2>1, <2>3
  <2>4. Work' \in Int
    <3>1. Cardinality(pending') \in 0..Cardinality(Servers)
      BY <2>1, ServersCount DEF TypeOK
    <3>2. Weight(step)' \in Int
      BY <3>1, ServersCount DEF Weight
    <3>3. attempt' \in Int /\ AttemptWork \in Int
      BY <2>1, ServersCount DEF TypeOK
    <3>4. AttemptWork * (MaxRetries - attempt') \in Int /\ AttemptWork * MaxRetries \in Int
      BY <3>3
    <3> QED
      BY <3>2, <3>4 DEF Work, AttemptWork
  <2> QED
    BY <2>1, <2>2, <2>3, <2>4, ClientLess, EndLess, OthersLeaveTask
<1> QED
  BY <1>1, <1>2, Invariance, PTL DEF Spec, WorkShrinks

----------------------------------------------------------------------------
(* ConsumerGroup implements GroupContract.                                 *)

(* Every operation that core begins is one the contract lets begin.        *)
LEMMA BeginRefines ==
  ASSUME CoreStep
  PROVE  Contract!Begin
<1>1. (Outset # {}) <=> group = "absent"
  BY DEF Outset, Exists
<1> QED
  BY <1>1 DEF CoreStep, StartCreate, StartRefresh, StartImport, StartDataSource,
         StartDestroy, StartReplace, Begin, Recorded, clusterVars,
         Contract!Begin, Contract!Absent

(* Steps that neither record anything nor touch the group, and forget      *)
(* nothing the attempt has seen.                                           *)
LEMMA QuietRefines ==
  ASSUME UNCHANGED <<group, record>>, seen \subseteq seen',
         \/ op' = op
         \/ op # "none" /\ op' = "none"
  PROVE  Contract!Next
<1>1. CASE op' = op
  BY <1>1 DEF Contract!Next, Contract!Others, Contract!Absent
<1>2. CASE op # "none" /\ op' = "none"
  BY <1>2 DEF Contract!Next, Contract!Leave
<1> QED
  BY <1>1, <1>2

(* A group that nobody uses disappears while the operation goes on, or     *)
(* ends without having recorded anything.                                  *)
LEMMA GoingRefines ==
  ASSUME GroupGoes, group = "empty", UNCHANGED record,
         \/ op' = op
         \/ op = "delete" /\ op' = "none"
  PROVE  Contract!Next
<1>1. CASE op' = op
  BY <1>1 DEF GroupGoes, Contract!Next, Contract!Others, Contract!Absent
<1>2. CASE op = "delete" /\ op' = "none"
  BY <1>2 DEF GroupGoes, Contract!Next, Contract!Leave, Contract!Absent
<1> QED
  BY <1>1, <1>2

(* A NotFoundError of an attempt that missed the group is the contract's   *)
(* Drop, or is reported.                                                   *)
LEMMA NotFoundRefines ==
  ASSUME IInv, NotFound, op # "none", op # "create", seen' # {},
         \/ UNCHANGED group
         \/ op = "delete" /\ group = "empty" /\ group' = "absent"
  PROVE  Contract!Next
<1>1. replacing => op = "delete"
  BY DEF IInv, TaskOK
<1>2. CASE op \in {"read", "delete"}
  <2>1. record' = "none" /\ op' \in {"none", "create"} /\ (op = "read" => op' = "none")
    BY <1>1, <1>2 DEF NotFound, Finish
  <2>2. Contract!Drop
    BY <1>2, <2>1 DEF Contract!Drop, Contract!Absent
  <2> QED
    BY <2>2 DEF Contract!Next
<1>3. CASE op \in {"import", "data"}
  BY <1>1, <1>3 DEF NotFound, Finish, Contract!Next, Contract!Leave
<1> QED
  BY <1>2, <1>3 DEF IInv, TypeOK

(* Requests to the coordinator: what is recorded is the group as it is.    *)
LEMMA RequestsRefine ==
  ASSUME IInv,
         DescribeFinds \/ RequestNotFound \/ DeleteSucceeds \/ ReplyLost
           \/ RequestDelayed \/ AbsenceConfirmed
  PROVE  Contract!Next
<1>1. op # "none" /\ (op # "create" \/ step = "refuse")
  BY DEF DescribeFinds, RequestNotFound, DeleteSucceeds, ReplyLost, RequestDelayed,
         AbsenceConfirmed, Believed, AtCoordinator, IInv, TaskOK
<1>2. step # "refuse"
  BY DEF DescribeFinds, RequestNotFound, DeleteSucceeds, ReplyLost, RequestDelayed,
         AbsenceConfirmed, Believed, AtCoordinator
<1>3. CASE DescribeFinds /\ op = "data"
  BY <1>1, <1>3, QuietRefines DEF DescribeFinds, Described, Finish, clusterVars
<1>4. CASE DescribeFinds /\ op # "data"
  <2>1. op \in {"read", "import"}
    BY <1>1, <1>2, <1>4 DEF DescribeFinds, IInv, TypeOK
  <2>2. Contract!Describe
    BY <1>4, <2>1 DEF DescribeFinds, Described, Finish, clusterVars, Exists,
                      Contract!Describe, Contract!Absent
  <2> QED
    BY <2>2 DEF Contract!Next
<1>5. CASE RequestNotFound
  <2>1. seen' # {}
    BY <1>1, <1>5 DEF RequestNotFound, IInv, SeenOK
  <2> QED
    BY <1>1, <1>2, <1>5, <2>1, NotFoundRefines DEF RequestNotFound, clusterVars
<1>6. CASE DeleteSucceeds
  BY <1>6, NotFoundRefines DEF DeleteSucceeds, GroupGoes, Deletable
<1>7. CASE ReplyLost
  BY <1>7, GoingRefines DEF ReplyLost, Deletable, AttemptFails, GoTo, Finish
<1>8. CASE RequestDelayed
  BY <1>1, <1>8, QuietRefines DEF RequestDelayed, clusterVars, AttemptFails, GoTo, Finish
<1>9. CASE AbsenceConfirmed
  <2>1. seen' # {}
    BY <1>9 DEF AbsenceConfirmed, Believed, IInv, SeenOK
  <2> QED
    BY <1>1, <1>2, <1>9, <2>1, NotFoundRefines DEF AbsenceConfirmed, clusterVars
<1> QED
  BY <1>3, <1>4, <1>5, <1>6, <1>7, <1>8, <1>9

(* Lookups, listings and failures change nothing the contract sees, but    *)
(* for the next attempt, which starts anew.                                *)
LEMMA ClientRefines ==
  ASSUME IInv, ClientStep
  PROVE  Contract!Next
<1>1. CASE CreateRefused \/ CallFails \/ AbsenceNotConfirmed
  BY <1>1, QuietRefines
     DEF CreateRefused, CallFails, AbsenceNotConfirmed, AttemptFails, GoTo, Finish,
         clusterVars, IInv, TaskOK
<1>2. CASE CoordinatorUnavailable
             \/ \E b \in Servers : CoordinatorFound(b) \/ ListingAnswered(b) \/ ListingFails(b)
             \/ \E A \in SUBSET Servers : BrokersAdvertised(A)
  <2>1. UNCHANGED <<group, record, op>> /\ seen \subseteq seen'
    BY <1>2 DEF CoordinatorUnavailable, CoordinatorFound, ListingAnswered,
                ListingFails, BrokersAdvertised, GoTo, clusterVars
  <2> QED
    BY <2>1, QuietRefines
<1>3. CASE BackoffElapses
  <2>1. (Outset # {}) <=> group = "absent"
    BY DEF Outset, Exists
  <2>2. Contract!Retry
    BY <1>3, <2>1 DEF BackoffElapses, clusterVars, IInv, TaskOK,
                      Contract!Retry, Contract!Absent
  <2> QED
    BY <2>2 DEF Contract!Next
<1> QED
  BY <1>1, <1>2, <1>3, RequestsRefine DEF ClientStep

(* Brokers, applications and administrators.                               *)
LEMMA EnvironmentRefines ==
  ASSUME IInv, EnvironmentStep
  PROVE  Contract!Next
<1>1. CASE Killed
  BY <1>1, QuietRefines DEF Killed, Finish, clusterVars
<1>2. CASE LateDropped \/ \E b \in Servers : CoordinatorMoves(b)
  BY <1>2, QuietRefines DEF LateDropped, CoordinatorMoves, clusterVars, taskVars
<1>3. CASE (LateArrives /\ ~Deletable)
  BY <1>3, QuietRefines DEF LateArrives, clusterVars, taskVars
<1>4. CASE (LateArrives /\ Deletable) \/ GroupExpires
  BY <1>4, GoingRefines DEF LateArrives, GroupExpires, Deletable, taskVars
<1>5. CASE MembersJoin \/ MembersLeave
  BY <1>5 DEF MembersJoin, MembersLeave, taskVars,
              Contract!Next, Contract!Others, Contract!Absent
<1> QED
  BY <1>1, <1>2, <1>3, <1>4, <1>5 DEF EnvironmentStep

(* Lookups, listings, retries and the word of coordinators that are not    *)
(* available together implement the contract: a record is the group as it  *)
(* is, and goes only after a moment at which the group was missing or out  *)
(* of sight.                                                               *)
THEOREM Implements == Spec => ImplementsContract
<1>1. Init => Contract!Init
  BY DEF Init, Contract!Init
<1>2. IInv /\ [Next]_vars => [Contract!Next]_(Contract!vars)
  <2> SUFFICES ASSUME IInv, [Next]_vars
               PROVE  Contract!Next \/ UNCHANGED Contract!vars
    OBVIOUS
  <2>1. CASE CoreStep
    BY <2>1, BeginRefines DEF Contract!Next
  <2>2. CASE UNCHANGED vars
    BY <2>2 DEF vars, clusterVars, taskVars, Contract!vars
  <2> QED
    BY <2>1, <2>2, ClientRefines, EnvironmentRefines DEF Next
<1> QED
  BY <1>1, <1>2, Invariance, PTL DEF Spec, ImplementsContract, Contract!Spec
==============================================================================
