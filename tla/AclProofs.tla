----------------------------- MODULE AclProofs -----------------------------
(***************************************************************************)
(* What holds of Acl for every set of entries, every broker and every      *)
(* number of attempts: the invariant of its handlers, and that no request  *)
(* removes, records or leaves behind an entry it should not.               *)
(***************************************************************************)
EXTENDS Acl, TLAPS

USE AclAssumption

----------------------------------------------------------------------------
(* Entries, codes and filters.                                             *)

(* Two entries that agree on every field are one.                          *)
LEMMA SameEntry ==
  ASSUME NEW d \in Entries, NEW e \in Entries,
         d.type = e.type, d.pattern = e.pattern,
         \A f \in Fields : d[f] = e[f]
  PROVE  d = e
<1>1. \A f \in Fields \cup {"type", "pattern"} : d[f] = e[f]
  OBVIOUS
<1>2. DOMAIN d = Fields \cup {"type", "pattern"} /\ d = [f \in DOMAIN d |-> d[f]]
  BY DEF IsEntry
<1>3. DOMAIN e = Fields \cup {"type", "pattern"} /\ e = [f \in DOMAIN e |-> e[f]]
  BY DEF IsEntry
<1> QED
  BY <1>1, <1>2, <1>3

(* The broker creates the entry that was meant: the code of a creation     *)
(* survives the broker's own numbering.                                    *)
LEMMA CreatedIsMeant ==
  ASSUME NEW e \in Entries, ManagedValid(e)
  PROVE  Created(CreateRequest(e)) = e
<1>1. CreatedPattern(CreationCode(e.pattern)) = e.pattern
  BY DEF ManagedValid, Valid, IsEntry, CreatedPattern, CreationCode
<1>2. DOMAIN e = Fields \cup {"type", "pattern"} /\ e = [f \in DOMAIN e |-> e[f]]
  BY DEF IsEntry
<1>3. [e EXCEPT !.pattern = e.pattern] = e
  BY <1>2
<1>4. Created(CreateRequest(e)) =
        [e EXCEPT !.pattern = CreatedPattern(CreationCode(e.pattern))]
  BY DEF Created, CreateRequest
<1> QED
  BY <1>1, <1>3, <1>4

(* The code of a filter selects the entry's pattern type and no other.     *)
LEMMA FilterIsExact ==
  ASSUME NEW e \in Entries, ManagedValid(e)
  PROVE  FilteredPatterns(FilterCode(e.pattern)) = {e.pattern}
BY DEF ManagedValid, Valid, IsEntry, FilteredPatterns, FilterCode

(* On a broker that heeds every field the filter of a managed entry        *)
(* matches that entry only.                                                *)
LEMMA MatchesItselfOnly ==
  ASSUME NEW e \in Entries, ManagedValid(e), acls \subseteq Entries,
         NEW d \in Matched(DeleteRequest(e), {})
  PROVE  d = e
<1>1. d \in Entries /\ d.type = e.type
  BY DEF Matched, DeleteRequest
<1>2. d.pattern = e.pattern
  BY FilterIsExact DEF Matched, DeleteRequest
<1>3. \A f \in Fields : d[f] = e[f]
  BY DEF Matched, DeleteRequest, ManagedValid
<1> QED
  BY <1>1, <1>2, <1>3, SameEntry

(* Whatever the broker overlooks, the filter matches the entry itself.     *)
LEMMA MatchesItself ==
  ASSUME NEW e \in Entries, ManagedValid(e), e \in acls, NEW o
  PROVE  e \in Matched(DeleteRequest(e), o)
<1>1. e.pattern \in FilteredPatterns(DeleteRequest(e).code)
  BY FilterIsExact DEF DeleteRequest
<1>2. DeleteRequest(e).entry = e
  BY DEF DeleteRequest
<1> QED
  BY <1>1, <1>2 DEF Matched

(* Requests are only ever made for entries that can be managed.            *)
LEMMA RequestShape ==
  ASSUME NEW r \in RequestValue
  PROVE  \E e \in Entries : /\ ManagedValid(e)
                            /\ r = CreateRequest(e) \/ r = DeleteRequest(e)
BY DEF RequestValue

LEMMA RequestTyped ==
  ASSUME IInv, step = "request"
  PROVE  /\ Request \in RequestValue
         /\ op = "create" => /\ Request = CreateRequest(target)
                             /\ target \in Entries /\ ManagedValid(target)
         /\ op # "create" => /\ op = "delete" /\ Request = DeleteRequest(record)
                             /\ record \in Entries /\ ManagedValid(record)
BY DEF IInv, TypeOK, TaskOK, Request, Subject, RequestValue, Held

(* Executing a request leaves the broker with entries it can hold.         *)
LEMMA ExecuteTyped ==
  ASSUME NEW r \in RequestValue, NEW o, Execute(r, o), TypeOK
  PROVE  /\ acls' \in SUBSET {e \in Entries : Valid(e)}
         /\ broker' = broker
<1>1. PICK e \in Entries : ManagedValid(e) /\
                           (r = CreateRequest(e) \/ r = DeleteRequest(e))
  BY RequestShape
<1>2. CASE r = CreateRequest(e)
  <2>1. r.kind = "create" /\ Created(r) = e /\ Valid(e)
    BY <1>1, <1>2, CreatedIsMeant DEF CreateRequest, ManagedValid
  <2> QED
    BY <2>1 DEF Execute, TypeOK
<1>3. CASE r = DeleteRequest(e)
  BY <1>3 DEF Execute, DeleteRequest, TypeOK
<1> QED
  BY <1>1, <1>2, <1>3

----------------------------------------------------------------------------
(* The invariant.                                                          *)

LEMMA InitOK == Init => IInv
<1> SUFFICES ASSUME Init PROVE IInv
  OBVIOUS
<1>1. 0 \in 0..(MaxRetries - 1)
  OBVIOUS
<1>2. TypeOK
  BY <1>1 DEF Init, TypeOK, Creatable, Valid
<1>3. TaskOK
  BY DEF Init, TaskOK, Held
<1> QED
  BY <1>2, <1>3 DEF IInv

(* What a step owes to the state outside of the running operation.         *)
OutsideOK ==
  /\ broker \in Brokers
  /\ acls \in SUBSET {e \in Entries : Valid(e)}
  /\ late \in SUBSET RequestValue
  /\ record \in {NoEntry} \cup Entries

(* Whatever handler ends, the idle state it leaves behind is a good one.   *)
LEMMA FinishOK ==
  ASSUME OutsideOK', Finish
  PROVE  IInv'
<1>1. 0 \in 0..(MaxRetries - 1)
  OBVIOUS
<1>2. TypeOK'
  BY <1>1 DEF OutsideOK, TypeOK, Finish
<1>3. TaskOK'
  BY DEF TaskOK, Finish
<1> QED
  BY <1>2, <1>3 DEF IInv

(* withRetry after a failed attempt of a creation or of a deletion.        *)
LEMMA FailOK ==
  ASSUME IInv, OutsideOK', step = "request", UNCHANGED record,
         NEW shown \in BOOLEAN, shown => op = "delete", AttemptFails(shown)
  PROVE  IInv'
<1>1. CASE Finish
  BY <1>1, FinishOK
<1>2. CASE MoreAttempts /\ GoTo("backoff") /\ collateral' = (collateral \/ shown)
  <2>1. TypeOK'
    BY <1>2 DEF OutsideOK, IInv, TypeOK, GoTo
  <2>2. attempt + 1 < MaxRetries
    BY <1>2 DEF IInv, TypeOK, MoreAttempts
  <2>3. TaskOK'
    BY <1>2, <2>2 DEF IInv, TaskOK, TypeOK, GoTo, Held, Subject
  <2> QED
    BY <2>1, <2>3 DEF IInv
<1> QED
  BY <1>1, <1>2 DEF AttemptFails

(* A deletion that succeeded: over, or the first half of a replacement.    *)
LEMMA DeleteRecordsOK ==
  ASSUME IInv, OutsideOK', op = "delete", DeleteRecords
  PROVE  IInv'
<1>1. CASE Finish
  BY <1>1, FinishOK
<1>2. CASE /\ replacing
           /\ op' = "create" /\ step' = "begin" /\ attempt' = 0
           /\ replacing' = FALSE /\ collateral' = FALSE
           /\ UNCHANGED target
  <2>1. 0 \in 0..(MaxRetries - 1)
    OBVIOUS
  <2>2. TypeOK'
    BY <1>2, <2>1 DEF OutsideOK, IInv, TypeOK
  <2>3. TaskOK'
    BY <1>2 DEF IInv, TaskOK, DeleteRecords, Held
  <2> QED
    BY <2>2, <2>3 DEF IInv
<1> QED
  BY <1>1, <1>2 DEF DeleteRecords

(* An operation that Terraform core begins.  A configuration without a     *)
(* host is refused as long as there is no entry to take it from.           *)
LEMMA BeginOK ==
  ASSUME IInv, CoreStep
  PROVE  IInv'
<1>1. ASSUME NEW c \in Configs, ~Refused(c, NoEntry)
      PROVE  c \in Entries
  <2>1. c.host # Null
    BY <1>1 DEF Refused, HostMissing
  <2>2. ASSUME NEW e \in Entries PROVE [e EXCEPT !.host = Null].host = Null
    <3>1. "host" \in DOMAIN e
      BY DEF IsEntry, Fields
    <3> QED
      BY <3>1
  <2> QED
    BY <2>1, <2>2 DEF Configs
<1>2. PICK o \in {"create", "read", "import", "delete"},
           s \in {"begin", "describe"}, e \in {NoEntry} \cup Entries,
           r \in BOOLEAN :
        /\ Begin(o, s, e, r)
        /\ o \in {"create", "import"} => ~Held /\ e \in Entries
        /\ o \in {"read", "delete"} => Held
        /\ s = "begin" <=> o # "read"
        /\ r => o = "delete" /\ e \in Entries
  <2>1. ASSUME NEW c \in Configs, StartCreate(c)
        PROVE  c \in Entries /\ ~Held /\ Begin("create", "begin", c, FALSE)
    BY <1>1, <2>1 DEF StartCreate
  <2>2. ASSUME NEW c \in Configs, StartReplace(c)
        PROVE  c \in Entries /\ Held /\ Begin("delete", "begin", c, TRUE)
    BY <1>1, <2>2 DEF StartReplace
  <2> QED
    BY <2>1, <2>2 DEF CoreStep, StartImport, StartDestroy, StartRefresh
<1>3. 0 \in 0..(MaxRetries - 1)
  OBVIOUS
<1>4. TypeOK'
  BY <1>2, <1>3 DEF IInv, TypeOK, Begin, brokerVars
<1>5. TaskOK'
  BY <1>2 DEF IInv, TaskOK, Begin, brokerVars, Held
<1> QED
  BY <1>4, <1>5 DEF IInv

(* The steps of CreateACL and DeleteACL.                                   *)
LEMMA RequestStepsOK ==
  ASSUME IInv,
         \/ BeginRefused \/ BeginAccepted
         \/ \E n \in {0, 1} : CreateAnswered(n)
         \/ \E o \in Overlooked : DeleteSucceeds(o) \/ DeleteTooBroad(o) \/ ReplyLost(o)
         \/ DeleteAnsweredEmpty \/ RequestFails \/ RequestDelayed
         \/ BackoffElapses
  PROVE  IInv'
<1> USE DEF IInv
<1>1. CASE BeginRefused
  BY <1>1, FinishOK DEF OutsideOK, TypeOK, BeginRefused, brokerVars
<1>2. CASE BeginAccepted
  <2>1. TypeOK'
    BY <1>2 DEF TypeOK, BeginAccepted, GoTo, brokerVars
  <2>2. TaskOK'
    BY <1>2 DEF TaskOK, BeginAccepted, GoTo, brokerVars, Held, Subject
  <2> QED
    BY <2>1, <2>2
<1>3. ASSUME NEW n \in {0, 1}, CreateAnswered(n)
      PROVE  IInv'
  <2>1. /\ acls' \in SUBSET {e \in Entries : Valid(e)}
        /\ broker' = broker
    BY <1>3, RequestTyped, ExecuteTyped DEF CreateAnswered, TypeOK, brokerVars
  <2>2. CASE record' = target /\ Finish
    BY <1>3, <2>1, <2>2, FinishOK DEF OutsideOK, TypeOK, CreateAnswered
  <2>3. CASE AttemptFails(FALSE) /\ UNCHANGED record
    BY <1>3, <2>1, <2>3, FailOK DEF OutsideOK, TypeOK, CreateAnswered
  <2> QED
    BY <1>3, <2>2, <2>3 DEF CreateAnswered
<1>4. ASSUME NEW o \in Overlooked, DeleteSucceeds(o)
      PROVE  IInv'
  <2>1. /\ acls' \in SUBSET {e \in Entries : Valid(e)}
        /\ broker' = broker
    BY <1>4, RequestTyped, ExecuteTyped DEF DeleteSucceeds
  <2> QED
    BY <1>4, <2>1, DeleteRecordsOK
       DEF OutsideOK, TypeOK, DeleteSucceeds, DeleteRecords
<1>5. ASSUME NEW o \in Overlooked, DeleteTooBroad(o)
      PROVE  IInv'
  <2>1. /\ acls' \in SUBSET {e \in Entries : Valid(e)}
        /\ broker' = broker
    BY <1>5, RequestTyped, ExecuteTyped DEF DeleteTooBroad
  <2> QED
    BY <1>5, <2>1, FailOK DEF OutsideOK, TypeOK, DeleteTooBroad
<1>6. ASSUME NEW o \in Overlooked, ReplyLost(o)
      PROVE  IInv'
  <2>1. /\ acls' \in SUBSET {e \in Entries : Valid(e)}
        /\ broker' = broker
    BY <1>6, RequestTyped, ExecuteTyped DEF ReplyLost
  <2> QED
    BY <1>6, <2>1, FailOK DEF OutsideOK, TypeOK, ReplyLost
<1>7. CASE DeleteAnsweredEmpty
  BY <1>7, DeleteRecordsOK
     DEF OutsideOK, TypeOK, DeleteAnsweredEmpty, DeleteRecords, brokerVars
<1>8. CASE RequestFails
  BY <1>8, FailOK DEF OutsideOK, TypeOK, RequestFails, brokerVars
<1>9. CASE RequestDelayed
  BY <1>9, RequestTyped, FailOK DEF OutsideOK, TypeOK, RequestDelayed, brokerVars
<1>10. CASE BackoffElapses
  <2>1. attempt' \in 0..(MaxRetries - 1)
    BY <1>10 DEF TypeOK, TaskOK, BackoffElapses
  <2>2. TypeOK'
    BY <1>10, <2>1 DEF TypeOK, BackoffElapses, brokerVars
  <2>3. TaskOK'
    BY <1>10 DEF TaskOK, BackoffElapses, brokerVars, Held, Subject
  <2> QED
    BY <2>2, <2>3
<1> QED
  BY <1>1, <1>2, <1>3, <1>4, <1>5, <1>6, <1>7, <1>8, <1>9, <1>10

(* Lookups and refreshes.                                                  *)
LEMMA DescribeStepsOK ==
  ASSUME IInv, LookupFinds \/ DescribeFinds \/ DescribeMisses \/ DescribeFails
  PROVE  IInv'
<1> USE DEF IInv
<1>1. CASE LookupFinds
  <2>1. TypeOK'
    BY <1>1 DEF TypeOK, LookupFinds, GoTo, brokerVars
  <2>2. TaskOK'
    BY <1>1 DEF TaskOK, LookupFinds, GoTo, brokerVars, Held
  <2> QED
    BY <2>1, <2>2
<1>2. CASE DescribeFinds
  BY <1>2, FinishOK DEF OutsideOK, TypeOK, DescribeFinds, Subject, brokerVars
<1>3. CASE DescribeMisses
  BY <1>3, FinishOK DEF OutsideOK, TypeOK, DescribeMisses, brokerVars
<1>4. CASE DescribeFails
  BY <1>4, FinishOK DEF OutsideOK, TypeOK, DescribeFails, brokerVars
<1> QED
  BY <1>1, <1>2, <1>3, <1>4

(* Requests that arrive late, administrators, and a killed provider.       *)
LEMMA EnvironmentOK ==
  ASSUME IInv, EnvironmentStep
  PROVE  IInv'
<1> USE DEF IInv
<1>1. CASE Killed
  BY <1>1, FinishOK DEF OutsideOK, TypeOK, Killed, brokerVars
<1>2. CASE UNCHANGED <<broker, record, taskVars>> /\ OutsideOK'
  <2>1. TypeOK'
    BY <1>2 DEF OutsideOK, TypeOK, taskVars
  <2>2. TaskOK'
    BY <1>2 DEF TaskOK, taskVars, Held, Subject
  <2> QED
    BY <2>1, <2>2
<1>3. ASSUME NEW r \in late, LateDropped(r)
      PROVE  IInv'
  BY <1>2, <1>3 DEF OutsideOK, TypeOK, LateDropped, brokerVars
<1>4. ASSUME NEW r \in late, NEW o \in Overlooked, LateArrives(r, o)
      PROVE  IInv'
  <2>1. /\ acls' \in SUBSET {e \in Entries : Valid(e)}
        /\ broker' = broker
    BY <1>4, ExecuteTyped DEF TypeOK, LateArrives
  <2> QED
    BY <1>2, <1>4, <2>1 DEF OutsideOK, TypeOK, LateArrives
<1>5. ASSUME NEW e \in Entries, OthersAdd(e) \/ OthersRemove(e)
      PROVE  IInv'
  BY <1>2, <1>5
     DEF OutsideOK, TypeOK, OthersAdd, OthersRemove, Creatable, Valid
<1> QED
  BY <1>1, <1>3, <1>4, <1>5 DEF EnvironmentStep

(* The invariant of the handlers holds in every reachable state.           *)
THEOREM Invariance == Spec => []IInv
<1>1. IInv /\ [Next]_vars => IInv'
  <2> SUFFICES ASSUME IInv, [Next]_vars PROVE IInv'
    OBVIOUS
  <2>1. CASE ClientStep
    BY <2>1, RequestStepsOK, DescribeStepsOK DEF ClientStep
  <2>2. CASE CoreStep
    BY <2>2, BeginOK
  <2>3. CASE EnvironmentStep
    BY <2>3, EnvironmentOK
  <2>4. CASE UNCHANGED vars
    BY <2>4 DEF vars, brokerVars, taskVars, IInv, TypeOK, TaskOK, Held, Subject
  <2> QED
    BY <2>1, <2>2, <2>3, <2>4 DEF Next
<1> QED
  BY InitOK, <1>1, PTL DEF Spec

----------------------------------------------------------------------------
(* What a step may do.                                                     *)

(* Only some steps execute a request, each under what the broker           *)
(* overlooks; every other one leaves the entries alone or is not the       *)
(* provider's.                                                             *)
LEMMA ClientChanges ==
  ASSUME ClientStep, acls' # acls
  PROVE  step = "request" /\ \E o \in Overlooked : Execute(Request, o)
BY DEF ClientStep, BeginRefused, BeginAccepted, CreateAnswered, DeleteSucceeds,
       DeleteTooBroad, ReplyLost, DeleteAnsweredEmpty, RequestFails,
       RequestDelayed, LookupFinds, DescribeFinds, DescribeMisses,
       DescribeFails, BackoffElapses, brokerVars, Overlooked

(* A request that removes an entry is the deletion of that entry.          *)
LEMMA RemovesItsEntry ==
  ASSUME IInv, NEW r \in RequestValue, Execute(r, {}), NEW e \in acls \ acls'
  PROVE  r.kind = "delete" /\ r.entry = e
<1>1. PICK d \in Entries : ManagedValid(d) /\
                           (r = CreateRequest(d) \/ r = DeleteRequest(d))
  BY RequestShape
<1>2. CASE r = CreateRequest(d)
  BY <1>2 DEF Execute, CreateRequest
<1>3. CASE r = DeleteRequest(d)
  <2>1. e \in Matched(DeleteRequest(d), {})
    BY <1>3 DEF Execute, DeleteRequest
  <2>2. acls \subseteq Entries
    BY DEF IInv, TypeOK
  <2> QED
    BY <1>1, <1>3, <2>1, <2>2, MatchesItselfOnly DEF DeleteRequest
<1> QED
  BY <1>1, <1>2, <1>3

LEMMA ExactStep ==
  ASSUME IInv, [Next]_vars, broker.overlooks = {},
         <<late, taskVars>>' # <<late, taskVars>>, NEW e \in acls \ acls'
  PROVE  \/ \E r \in late \ late' : r.kind = "delete" /\ r.entry = e
         \/ op = "delete" /\ step = "request" /\ record = e
<1>1. \A o \in Overlooked : o = {}
  BY DEF Overlooked
<1>2. CASE ClientStep
  <2>1. step = "request" /\ Execute(Request, {})
    BY <1>1, <1>2, ClientChanges
  <2>2. Request \in RequestValue
    BY <2>1, RequestTyped
  <2>3. Request.kind = "delete" /\ Request.entry = e
    BY <2>1, <2>2, RemovesItsEntry
  <2> QED
    BY <2>1, <2>3, RequestTyped DEF CreateRequest, DeleteRequest
<1>3. CASE \E r \in late : \E o \in Overlooked : LateArrives(r, o)
  <2>1. PICK r \in late : \E o \in Overlooked : LateArrives(r, o)
    BY <1>3
  <2>2. r \in late \ late' /\ Execute(r, {})
    BY <1>1, <2>1 DEF LateArrives
  <2>3. r \in RequestValue
    BY DEF IInv, TypeOK
  <2> QED
    BY <2>2, <2>3, RemovesItsEntry
<1>4. EnvironmentStep => \/ UNCHANGED acls
                         \/ UNCHANGED <<late, taskVars>>
                         \/ \E r \in late : \E o \in Overlooked : LateArrives(r, o)
  BY DEF EnvironmentStep, Killed, LateDropped, OthersAdd, OthersRemove, brokerVars
<1>5. CoreStep => UNCHANGED acls
  BY DEF CoreStep, StartCreate, StartReplace, StartImport, StartDestroy,
         StartRefresh, Begin, brokerVars
<1> QED
  BY <1>2, <1>3, <1>4, <1>5 DEF Next, vars, brokerVars

(* Retried, late or both, the provider's requests remove no entry but the  *)
(* managed one, on every broker that heeds all fields of a filter.         *)
THEOREM DeletesExactly == Spec => ExactDeletion
<1>1. IInv /\ [Next]_vars =>
        [(broker.overlooks = {} /\ <<late, taskVars>>' # <<late, taskVars>>) =>
           \A e \in acls \ acls' :
             \/ \E r \in late \ late' : r.kind = "delete" /\ r.entry = e
             \/ op = "delete" /\ step = "request" /\ record = e]_vars
  BY ExactStep
<1> QED
  BY Invariance, <1>1, PTL DEF Spec, ExactDeletion

(* The steps that change the record.                                       *)
LEMMA RecordChanges ==
  ASSUME [Next]_vars, record' # record
  PROVE  \/ \E n \in {0, 1} : CreateAnswered(n)
         \/ \E o \in Overlooked : DeleteSucceeds(o)
         \/ DeleteAnsweredEmpty \/ DescribeFinds \/ DescribeMisses
<1>1. CASE ClientStep
  BY <1>1 DEF ClientStep, BeginRefused, BeginAccepted, DeleteTooBroad, ReplyLost,
              RequestFails, RequestDelayed, LookupFinds, DescribeFails,
              BackoffElapses
<1>2. CoreStep => UNCHANGED record
  BY DEF CoreStep, StartCreate, StartReplace, StartImport, StartDestroy,
         StartRefresh, Begin
<1>3. EnvironmentStep => UNCHANGED record
  BY DEF EnvironmentStep, Killed, LateArrives, LateDropped, OthersAdd, OthersRemove
<1> QED
  BY <1>1, <1>2, <1>3 DEF Next, vars

LEMMA RecordStep ==
  ASSUME IInv, [Next]_vars, ~Held, Held'
  PROVE  record' = target /\ target \in acls'
<1>1. record' # record
  BY DEF Held
<1>2. ASSUME NEW n \in {0, 1}, CreateAnswered(n)
      PROVE  record' = target /\ target \in acls'
  <2>1. OneResult(n) /\ record' = target /\ n = 1
    BY <1>1, <1>2 DEF CreateAnswered, OneResult
  <2>2. Request = CreateRequest(target) /\ Created(Request) = target
    BY <1>2, RequestTyped, CreatedIsMeant DEF CreateAnswered
  <2> QED
    BY <1>2, <2>1, <2>2 DEF CreateAnswered, Execute, CreateRequest
<1>3. CASE DescribeFinds
  BY <1>3 DEF DescribeFinds, Subject, IInv, TaskOK, brokerVars
<1>4. ~(\E o \in Overlooked : DeleteSucceeds(o))
  BY DEF DeleteSucceeds, DeleteRecords, Held
<1>5. ~DeleteAnsweredEmpty /\ ~DescribeMisses
  BY DEF DeleteAnsweredEmpty, DeleteRecords, DescribeMisses, Held
<1> QED
  BY <1>1, <1>2, <1>3, <1>4, <1>5, RecordChanges

(* A creation or an import records the entry that was asked for, and the   *)
(* broker holds it at that moment.                                         *)
THEOREM RecordsAsked == Spec => RecordsWhatWasAsked
<1>1. IInv /\ [Next]_vars =>
        [(~Held /\ Held') => record' = target /\ target \in acls']_vars
  BY RecordStep
<1> QED
  BY Invariance, <1>1, PTL DEF Spec, RecordsWhatWasAsked

LEMMA DropStep ==
  ASSUME IInv, [Next]_vars, Held, ~Held', ~broker.lite
  PROVE  record \notin acls'
<1>1. record' # record
  BY DEF Held
<1>2. ASSUME NEW o \in Overlooked, DeleteSucceeds(o)
      PROVE  record \notin acls'
  <2>1. /\ Request = DeleteRequest(record) /\ record \in Entries
        /\ ManagedValid(record)
    BY <1>2, RequestTyped DEF DeleteSucceeds
  <2>2. acls' = acls \ Matched(Request, o)
    BY <1>2, <2>1 DEF DeleteSucceeds, Execute, DeleteRequest
  <2> QED
    BY <2>1, <2>2, MatchesItself
<1>3. CASE DescribeMisses
  BY <1>3 DEF DescribeMisses, Subject, IInv, TaskOK, brokerVars
<1>4. ~(\E n \in {0, 1} : CreateAnswered(n))
  BY DEF CreateAnswered, IInv, TaskOK
<1>5. ~DeleteAnsweredEmpty
  BY DEF DeleteAnsweredEmpty
<1>6. DescribeFinds => FALSE
  <2> SUFFICES ASSUME DescribeFinds PROVE FALSE
    OBVIOUS
  <2>1. record' \in acls /\ acls \subseteq Entries
    BY DEF DescribeFinds, IInv, TypeOK
  <2>2. NoEntry \notin Entries
    BY DEF NoEntry, IsEntry
  <2> QED
    BY <2>1, <2>2 DEF Held
<1> QED
  BY <1>1, <1>2, <1>3, <1>4, <1>5, <1>6, RecordChanges

(* No entry is left behind without a record, but by a broker that answers  *)
(* deletions with nothing.                                                 *)
THEOREM NothingLeftBehind == Spec => KeptWhilePresent
<1>1. IInv /\ [Next]_vars =>
        [(Held /\ ~Held' /\ ~broker.lite) => record \notin acls']_vars
  BY DropStep
<1> QED
  BY Invariance, <1>1, PTL DEF Spec, KeptWhilePresent

----------------------------------------------------------------------------
(* How long an operation takes.                                            *)

(* While an operation runs there is something left to do.                  *)
LEMMA WorkTyped ==
  ASSUME TypeOK
  PROVE  /\ Weight[step] \in 0..4
         /\ Work \in 0..(6 * MaxRetries + 4)
         /\ op # "none" => Work >= 3 + Weight[step]
         /\ (op # "none" /\ replacing) => Work >= 3 + Weight[step] + 3 * MaxRetries
<1>1. Weight[step] \in 0..4
  BY DEF TypeOK, Weight
<1>2. attempt \in 0..(MaxRetries - 1) /\ replacing \in BOOLEAN
  BY DEF TypeOK
<1> QED
  BY <1>1, <1>2 DEF Work

(* The end of an operation leaves nothing to do.                           *)
LEMMA EndLess ==
  ASSUME TypeOK, op # "none", op' = "none"
  PROVE  Work' < Work
<1>1. Work' = 0
  BY DEF Work
<1> QED
  BY <1>1, WorkTyped

(* Each step is nearer to the end of its attempt than the one before.      *)
LEMMA ForwardLess ==
  ASSUME TypeOK, op # "none", NEW s \in {"backoff", "describe", "lookup", "request"},
         GoTo(s), Weight[s] < Weight[step]
  PROVE  Work' < Work
<1>1. UNCHANGED <<op, attempt, replacing>> /\ step' = s
  BY DEF GoTo
<1>2. Weight[step] \in 0..4 /\ Weight[s] \in 0..4
  BY WorkTyped DEF Weight
<1>3. attempt \in 0..(MaxRetries - 1) /\ replacing \in BOOLEAN
  BY DEF TypeOK
<1> QED
  BY <1>1, <1>2, <1>3 DEF Work

(* A failed attempt either ends the operation or brings it to its backoff. *)
LEMMA FailLess ==
  ASSUME TypeOK, op # "none", step = "request", NEW shown, AttemptFails(shown)
  PROVE  Work' < Work
<1>1. CASE Finish
  BY <1>1, EndLess DEF Finish
<1>2. CASE GoTo("backoff")
  <2>1. Weight["backoff"] < Weight[step]
    BY DEF Weight
  <2> QED
    BY <1>2, <2>1, ForwardLess
<1> QED
  BY <1>1, <1>2 DEF AttemptFails

(* The attempt that is spent outweighs the request of the next one.        *)
LEMMA BackoffLess ==
  ASSUME TypeOK, TaskOK, BackoffElapses
  PROVE  Work' < Work
<1>1. /\ op # "none" /\ step = "backoff" /\ attempt' = attempt + 1
      /\ step' = "request" /\ UNCHANGED <<op, replacing>>
  BY DEF BackoffElapses, TaskOK
<1>2. Weight[step] = 1 /\ Weight[step'] = 3
  BY <1>1 DEF Weight
<1>3. attempt \in 0..(MaxRetries - 1) /\ replacing \in BOOLEAN
  BY DEF TypeOK
<1> QED
  BY <1>1, <1>2, <1>3 DEF Work

(* The deletion of a replacement leaves the creation, with all attempts.   *)
LEMMA DeleteLess ==
  ASSUME TypeOK, op = "delete", step = "request", DeleteRecords
  PROVE  Work' < Work
<1>1. CASE Finish
  BY <1>1, EndLess DEF Finish
<1>2. CASE replacing /\ op' = "create" /\ step' = "begin" /\ attempt' = 0
             /\ replacing' = FALSE
  <2>1. Work' = 3 * MaxRetries + 4
    BY <1>2 DEF Work, Weight
  <2>2. Weight[step] = 3
    BY DEF Weight
  <2> QED
    BY <2>1, <2>2, <1>2, WorkTyped
<1> QED
  BY <1>1, <1>2 DEF DeleteRecords

(* Every step of the client brings the running operation nearer its end.   *)
LEMMA ClientLess ==
  ASSUME TypeOK, TaskOK, ClientStep
  PROVE  op # "none" /\ Work' < Work
<1>0. step # "idle" => op # "none"
  BY DEF TaskOK
<1>1. CASE BeginRefused \/ DescribeFinds \/ DescribeMisses \/ DescribeFails
  BY <1>0, <1>1, EndLess
     DEF BeginRefused, DescribeFinds, DescribeMisses, DescribeFails, Finish
<1>2. CASE BeginAccepted \/ LookupFinds
  <2>1. /\ op # "none"
        /\ \/ step = "begin" /\ (GoTo("lookup") \/ GoTo("request"))
           \/ step = "lookup" /\ GoTo("describe")
    BY <1>0, <1>2 DEF BeginAccepted, LookupFinds
  <2>2. /\ Weight["lookup"] < Weight["begin"] /\ Weight["request"] < Weight["begin"]
        /\ Weight["describe"] < Weight["lookup"]
    BY DEF Weight
  <2> QED
    BY <2>1, <2>2, ForwardLess
<1>3. ASSUME NEW n \in {0, 1}, CreateAnswered(n)
      PROVE  op # "none" /\ Work' < Work
  BY <1>3, FailLess, EndLess DEF CreateAnswered, Finish
<1>4. ASSUME NEW o \in Overlooked, DeleteSucceeds(o) \/ DeleteTooBroad(o) \/ ReplyLost(o)
      PROVE  op # "none" /\ Work' < Work
  BY <1>0, <1>4, FailLess, DeleteLess DEF DeleteSucceeds, DeleteTooBroad, ReplyLost
<1>5. CASE DeleteAnsweredEmpty
  BY <1>5, DeleteLess DEF DeleteAnsweredEmpty
<1>6. CASE RequestFails \/ RequestDelayed
  BY <1>0, <1>6, FailLess DEF RequestFails, RequestDelayed
<1>7. CASE BackoffElapses
  BY <1>0, <1>7, BackoffLess DEF BackoffElapses
<1> QED
  BY <1>1, <1>2, <1>3, <1>4, <1>5, <1>6, <1>7 DEF ClientStep

(* Nobody but the client and a kill touches the running operation.         *)
LEMMA OthersLeaveTask ==
  ASSUME [Next]_vars, op # "none", ~ClientStep
  PROVE  UNCHANGED taskVars \/ op' = "none"
<1>1. CASE CoreStep
  BY <1>1 DEF CoreStep, StartCreate, StartReplace, StartDestroy, StartRefresh,
              StartImport, Begin
<1>2. CASE EnvironmentStep
  BY <1>2 DEF EnvironmentStep, Killed, Finish, LateArrives, LateDropped,
              OthersAdd, OthersRemove
<1>3. CASE UNCHANGED vars
  BY <1>3 DEF vars
<1> QED
  BY <1>1, <1>2, <1>3 DEF Next

(* Whatever the broker answers, loses or overlooks, an operation of the    *)
(* ACL resource takes at most 6 * MaxRetries + 4 steps of its handler, the *)
(* two halves of a replacement counted.                                    *)
THEOREM WorkBounded == Spec => WorkShrinks /\ [](Work \in 0..(6 * MaxRetries + 4))
<1>1. IInv => Work \in 0..(6 * MaxRetries + 4)
  BY WorkTyped DEF IInv
<1>2. IInv /\ IInv' /\ [Next]_vars =>
        [op # "none" => /\ Work' <= Work
                        /\ taskVars' # taskVars => Work' < Work]_vars
  <2> SUFFICES ASSUME IInv, IInv', [Next]_vars, op # "none"
               PROVE  /\ Work' <= Work
                      /\ taskVars' # taskVars => Work' < Work
    OBVIOUS
  <2>1. TypeOK /\ TaskOK /\ Work \in Int
    BY WorkTyped DEF IInv
  <2>2. Work' \in Int
    <3>1. /\ attempt' \in 0..(MaxRetries - 1) /\ replacing' \in BOOLEAN
          /\ step' \in {"idle", "begin", "lookup", "describe", "request", "backoff"}
      BY DEF IInv, TypeOK
    <3>2. Weight[step'] \in 0..4
      BY <3>1 DEF Weight
    <3> QED
      BY <3>1, <3>2 DEF Work
  <2>3. CASE Work' < Work
    BY <2>1, <2>2, <2>3
  <2>4. CASE UNCHANGED taskVars
    BY <2>1, <2>4 DEF taskVars, Work
  <2> QED
    BY <2>1, <2>3, <2>4, ClientLess, EndLess, OthersLeaveTask
<1> QED
  BY <1>1, <1>2, Invariance, PTL DEF Spec, WorkShrinks

----------------------------------------------------------------------------
(* Acl implements AclContract.                                             *)

(* On a broker that heeds every field a request grants its entry, or       *)
(* revokes its entry, or changes nothing.                                  *)
LEMMA OneEntryAtATime ==
  ASSUME IInv, NEW r \in RequestValue, NEW o \in Overlooked, Execute(r, o),
         broker.overlooks = {}
  PROVE  /\ r.kind = "create" => acls' = acls \cup {r.entry}
         /\ r.kind # "create" => acls' \in {acls, acls \ {r.entry}}
         /\ r.entry \in Entries
<1>1. PICK e \in Entries : ManagedValid(e) /\
                           (r = CreateRequest(e) \/ r = DeleteRequest(e))
  BY RequestShape
<1>2. CASE r = CreateRequest(e)
  <2>1. r.kind = "create" /\ r.entry = e /\ Created(r) = e
    BY <1>1, <1>2, CreatedIsMeant DEF CreateRequest
  <2> QED
    BY <2>1 DEF Execute
<1>3. CASE r = DeleteRequest(e)
  <2>1. r.kind = "delete" /\ r.entry = e /\ o = {}
    BY <1>3 DEF DeleteRequest, Overlooked
  <2>2. acls' = acls \ Matched(DeleteRequest(e), {})
    BY <1>3, <2>1 DEF Execute
  <2>3. acls \subseteq Entries
    BY DEF IInv, TypeOK
  <2>4. Matched(DeleteRequest(e), {}) \subseteq {e}
    BY <1>1, <2>3, MatchesItselfOnly
  <2>5. acls' \in {acls, acls \ {e}}
    BY <2>2, <2>4
  <2> QED
    BY <2>1, <2>5
<1> QED
  BY <1>1, <1>2, <1>3

(* The request of a handler that may still fail does what the contract     *)
(* lets a failing operation do.                                            *)
LEMMA AttemptRefines ==
  ASSUME IInv, step = "request", UNCHANGED <<broker, record>>,
         NEW shown, AttemptFails(shown),
         UNCHANGED acls \/ \E o \in Overlooked : Execute(Request, o)
  PROVE  Contract!Next
<1>1. /\ Request \in RequestValue
      /\ op = "create" => Request = CreateRequest(target)
      /\ op # "create" => op = "delete" /\ Request = DeleteRequest(record)
  BY RequestTyped
<1>2. op = "create" => acls' \in {acls, acls \cup {target}}
  <2> SUFFICES ASSUME op = "create", acls' # acls PROVE acls' = acls \cup {target}
    OBVIOUS
  <2>1. Created(Request) = target /\ Request.kind = "create"
    BY <1>1, RequestTyped, CreatedIsMeant DEF CreateRequest
  <2> QED
    BY <2>1 DEF Execute
<1>3. (op = "delete" /\ broker.overlooks = {}) => acls' \in {acls, acls \ {record}}
  <2> SUFFICES ASSUME op = "delete", broker.overlooks = {}, acls' # acls
               PROVE  acls' = acls \ {record}
    OBVIOUS
  <2>1. Request.kind # "create" /\ Request.entry = record
    BY <1>1 DEF DeleteRequest
  <2> QED
    BY <1>1, <2>1, OneEntryAtATime
<1>4. CASE op' = "none"
  <2>1. Contract!Fail
    BY <1>1, <1>2, <1>3, <1>4 DEF Contract!Fail
  <2> QED
    BY <2>1 DEF Contract!Next
<1>5. CASE UNCHANGED <<op, target>>
  <2>1. Contract!Others
    BY <1>1, <1>2, <1>3, <1>5 DEF Contract!Others
  <2> QED
    BY <2>1 DEF Contract!Next
<1> QED
  BY <1>4, <1>5 DEF AttemptFails, GoTo, Finish

(* Every operation that core begins is one the contract lets begin.        *)
LEMMA BeginRefines ==
  ASSUME CoreStep
  PROVE  Contract!Next
<1>1. Contract!Begin /\ UNCHANGED broker
  BY DEF CoreStep, StartCreate, StartReplace, StartDestroy, StartRefresh,
         StartImport, Begin, Contract!Begin, Held, brokerVars
<1> QED
  BY <1>1 DEF Contract!Next

(* Creations and deletions: the entry that is granted or revoked is the    *)
(* one the record speaks of, whatever the broker overlooks.                *)
LEMMA RequestsRefine ==
  ASSUME IInv,
         \/ \E n \in {0, 1} : CreateAnswered(n)
         \/ \E o \in Overlooked : DeleteSucceeds(o) \/ DeleteTooBroad(o) \/ ReplyLost(o)
         \/ DeleteAnsweredEmpty \/ RequestFails \/ RequestDelayed
  PROVE  Contract!Next
<1>1. ASSUME NEW n \in {0, 1}, CreateAnswered(n), OneResult(n), record' = target, Finish
      PROVE  Contract!Next
  <2>1. Request = CreateRequest(target) /\ target \in Entries /\ ManagedValid(target)
    BY <1>1, RequestTyped DEF CreateAnswered
  <2>2. acls' = acls \cup {target} /\ UNCHANGED broker
    BY <1>1, <2>1, CreatedIsMeant DEF CreateAnswered, OneResult, Execute, CreateRequest
  <2>3. record = NoEntry
    BY <1>1 DEF CreateAnswered, IInv, TaskOK, Held
  <2>4. Contract!Grant
    BY <1>1, <2>2, <2>3 DEF Contract!Grant, CreateAnswered, Finish
  <2> QED
    BY <2>2, <2>4 DEF Contract!Next
<1>2. ASSUME NEW n \in {0, 1}, CreateAnswered(n), ~OneResult(n)
      PROVE  Contract!Next
  BY <1>2, AttemptRefines DEF CreateAnswered, OneResult, brokerVars
<1>3. ASSUME NEW o \in Overlooked, DeleteSucceeds(o)
      PROVE  Contract!Next
  <2>1. /\ Request = DeleteRequest(record) /\ record \in Entries
        /\ ManagedValid(record)
    BY <1>3, RequestTyped DEF DeleteSucceeds
  <2>2. acls' = acls \ Matched(Request, o) /\ UNCHANGED broker
    BY <1>3, <2>1 DEF DeleteSucceeds, Execute, DeleteRequest
  <2>3. Matched(Request, o) \subseteq {record}
    BY <1>3 DEF DeleteSucceeds, ExactMatch
  <2>4. record \in acls => record \in Matched(Request, o)
    BY <2>1, MatchesItself
  <2>5. acls' = acls \ {record}
    BY <2>2, <2>3, <2>4
  <2>6. Contract!Revoke
    BY <1>3, <2>5 DEF Contract!Revoke, DeleteSucceeds, DeleteRecords, Finish
  <2> QED
    BY <2>2, <2>6 DEF Contract!Next
<1>4. CASE DeleteAnsweredEmpty
  <2>1. Contract!Revoke /\ UNCHANGED broker
    BY <1>4 DEF Contract!Revoke, DeleteAnsweredEmpty, DeleteRecords, Finish, brokerVars
  <2> QED
    BY <2>1 DEF Contract!Next
<1>5. ASSUME NEW o \in Overlooked, DeleteTooBroad(o) \/ ReplyLost(o)
      PROVE  Contract!Next
  BY <1>5, AttemptRefines DEF DeleteTooBroad, ReplyLost, Execute
<1>6. CASE RequestFails \/ RequestDelayed
  BY <1>6, AttemptRefines DEF RequestFails, RequestDelayed, brokerVars
<1> QED
  BY <1>1, <1>2, <1>3, <1>4, <1>5, <1>6 DEF CreateAnswered

(* Steps that send nothing.                                                *)
LEMMA QuietRefines ==
  ASSUME UNCHANGED <<brokerVars, record>>,
         \/ UNCHANGED <<op, target>>
         \/ op # "none" /\ op' = "none"
  PROVE  Contract!Next
<1>1. CASE UNCHANGED <<op, target>>
  BY <1>1 DEF Contract!Next, Contract!Others, brokerVars
<1>2. CASE op # "none" /\ op' = "none"
  BY <1>2 DEF Contract!Next, Contract!Fail, brokerVars
<1> QED
  BY <1>1, <1>2

(* What an import or a refresh finds is the entry it asked for.            *)
LEMMA DescribesRefine ==
  ASSUME IInv, DescribeFinds \/ DescribeMisses
  PROVE  Contract!Next
<1>1. op \in {"read", "import"} /\ op' = "none" /\ UNCHANGED brokerVars
  BY DEF DescribeFinds, DescribeMisses, Finish, IInv, TaskOK
<1>2. CASE DescribeFinds /\ op = "import"
  BY <1>1, <1>2 DEF DescribeFinds, Subject, Contract!Next, Contract!Adopt, brokerVars
<1>3. CASE DescribeFinds /\ op = "read"
  BY <1>1, <1>3 DEF DescribeFinds, Subject, Contract!Next, Contract!Confirm, brokerVars
<1>4. CASE DescribeMisses /\ op = "read"
  BY <1>1, <1>4 DEF DescribeMisses, Subject, Contract!Next, Contract!Miss, brokerVars
<1>5. CASE DescribeMisses /\ op = "import"
  <2>1. UNCHANGED record
    BY <1>5 DEF DescribeMisses, IInv, TaskOK, Held
  <2> QED
    BY <1>1, <1>5, <2>1, QuietRefines
<1> QED
  BY <1>1, <1>2, <1>3, <1>4, <1>5

(* Late requests, administrators and other Terraform states.               *)
LEMMA EnvironmentRefines ==
  ASSUME IInv, EnvironmentStep
  PROVE  Contract!Next
<1>1. CASE Killed
  BY <1>1, QuietRefines DEF Killed, Finish
<1>2. ASSUME NEW r \in late, LateDropped(r)
      PROVE  Contract!Next
  BY <1>2, QuietRefines DEF LateDropped, taskVars
<1>3. ASSUME NEW r \in late, NEW o \in Overlooked, LateArrives(r, o)
      PROVE  Contract!Next
  <2>1. r \in RequestValue /\ Execute(r, o) /\ UNCHANGED <<record, op, target, broker>>
    BY <1>3 DEF LateArrives, IInv, TypeOK, taskVars, Execute
  <2>2. broker.overlooks = {} => /\ r.kind = "create" => acls' = acls \cup {r.entry}
                                 /\ r.kind # "create" => acls' \in {acls, acls \ {r.entry}}
    BY <2>1, OneEntryAtATime
  <2>3. Contract!Others
    BY <2>1, <2>2 DEF Contract!Others
  <2> QED
    BY <2>1, <2>3 DEF Contract!Next
<1>4. ASSUME NEW e \in Entries, OthersAdd(e) \/ OthersRemove(e)
      PROVE  Contract!Next
  <2>1. Contract!Others /\ UNCHANGED broker
    BY <1>4 DEF OthersAdd, OthersRemove, taskVars, Contract!Others
  <2> QED
    BY <2>1 DEF Contract!Next
<1> QED
  BY <1>1, <1>2, <1>3, <1>4 DEF EnvironmentStep

(* The handlers, the encoding of patterns, the filters, the retries and    *)
(* the checks of the broker's answers together implement the contract:     *)
(* every operation grants, adopts, confirms, misses or revokes the entry   *)
(* it is about in one instant, or fails without having done more.          *)
THEOREM Implements == Spec => ImplementsContract
<1>1. Init => Contract!Init
  BY DEF Init, Contract!Init
<1>2. IInv /\ [Next]_vars => [Contract!Next]_(Contract!vars)
  <2> SUFFICES ASSUME IInv, [Next]_vars
               PROVE  Contract!Next \/ UNCHANGED Contract!vars
    OBVIOUS
  <2>1. CASE BeginRefused \/ BeginAccepted \/ BackoffElapses \/ LookupFinds
               \/ DescribeFails
    <3>1. op # "none"
      BY <2>1 DEF BeginRefused, BeginAccepted, BackoffElapses, LookupFinds,
                  DescribeFails, IInv, TaskOK
    <3> QED
      BY <2>1, <3>1, QuietRefines
         DEF BeginRefused, BeginAccepted, BackoffElapses, LookupFinds,
             DescribeFails, GoTo, Finish
  <2>2. CASE ClientStep
    BY <2>1, <2>2, RequestsRefine, DescribesRefine DEF ClientStep
  <2>3. CASE UNCHANGED vars
    BY <2>3 DEF vars, brokerVars, taskVars, Contract!vars
  <2> QED
    BY <2>2, <2>3, BeginRefines, EnvironmentRefines DEF Next
<1> QED
  BY <1>1, <1>2, Invariance, PTL DEF Spec, ImplementsContract, Contract!Spec
============================================================================
