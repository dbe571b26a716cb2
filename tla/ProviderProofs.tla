---------------------------- MODULE ProviderProofs ----------------------------
(***************************************************************************)
(* What holds of Provider for every configuration and every environment:   *)
(* its runs and reads keep their invariant, and a plan guesses nothing.    *)
(***************************************************************************)
EXTENDS Provider, TLAPS

USE ProviderAssumption

----------------------------------------------------------------------------
(* Settings.                                                               *)

(* Every attribute resolves to a value.                                    *)
LEMMA ResolvedTyped ==
  ASSUME NEW i \in InputValue
  PROVE  /\ Resolve(i) \in Settings
         /\ \A a \in Attributes : Resolve(i)[a] = Resolved(i, a)
<1>1. ASSUME NEW a \in Attributes
      PROVE  Resolved(i, a) \in Values
  <2>1. i.written[a] \in Known \cup {Null, Unknown}
    BY DEF InputValue
  <2>2. FromEnvironment(i.env, a) \in Values
    <3>1. CASE a \in HclOnly
      BY <3>1 DEF FromEnvironment
    <3>2. CASE a \notin HclOnly
      <4>1. i.env[a] \in Known
        BY <3>2 DEF InputValue
      <4> QED
        BY <3>2, <4>1 DEF FromEnvironment, Known
    <3> QED
      BY <3>1, <3>2
  <2> QED
    BY <2>1, <2>2 DEF Resolved, Known
<1> QED
  BY <1>1 DEF Resolve, Settings

(* A value that is known when the plan is made is the same at apply; only  *)
(* what was not known, and read as empty, may change.                      *)
LEMMA ResolvedStays ==
  ASSUME NEW i \in InputValue, NEW j \in InputValue, NEW a \in Attributes,
         i.env = j.env,
         i.written[a] # Unknown => j.written[a] = i.written[a]
  PROVE  Resolved(i, a) \in {"", Resolved(j, a)}
<1>1. CASE i.written[a] = Unknown
  BY <1>1 DEF Resolved
<1>2. CASE i.written[a] # Unknown
  BY <1>2 DEF Resolved
<1> QED
  BY <1>1, <1>2

----------------------------------------------------------------------------
(* The invariant.                                                          *)

LEMMA InitOK == Init => IInv
<1> SUFFICES ASSUME Init PROVE IInv
  OBVIOUS
<1>1. TypeOK
  BY DEF Init, TypeOK
<1>2. RunOK
  BY DEF Init, RunOK
<1>3. ReadOK
  BY DEF Init, ReadOK
<1> QED
  BY <1>1, <1>2, <1>3 DEF IInv

(* The part of the type invariant that is about the read.                  *)
ReadTyped ==
  /\ op \in {"none", "cluster", "topics"}
  /\ step \in {"idle", "dial", "authenticate", "ask", "hop", "brokers",
               "controller", "list"}
  /\ open \in SUBSET {"bootstrap", "controller"}
  /\ silent \in BOOLEAN

(* A run that ends leaves nothing behind.                                  *)
LEMMA RunEndsOK ==
  ASSUME EndRun, ReadTyped', op' = "none", ReadOK'
  PROVE  IInv'
<1>1. TypeOK'
  BY DEF EndRun, ReadTyped, TypeOK
<1>2. RunOK'
  BY DEF EndRun, RunOK
<1> QED
  BY <1>1, <1>2 DEF IInv

(* The steps of a run: settings are resolved once per process, and the     *)
(* apply starts from the configuration the plan was made from.             *)
LEMMA RunStepsOK ==
  ASSUME IInv,
         \/ \E i \in Inputs : StartPlan(i)
         \/ Configured \/ ConfigureRefused
         \/ \E w \in [Unknowns -> Known \cup {Null}] : StartApply(w)
         \/ RunEnds
  PROVE  IInv'
<1> USE DEF IInv
<1>1. ASSUME NEW i \in Inputs, StartPlan(i)
      PROVE  IInv'
  <2>1. TypeOK'
    BY <1>1 DEF TypeOK, StartPlan, readVars
  <2>2. i \in InputValue
    OBVIOUS
  <2>3. RunOK'
    BY <1>1, <2>2 DEF RunOK, StartPlan, readVars
  <2>4. ReadOK'
    BY <1>1 DEF ReadOK, StartPlan, readVars
  <2> QED
    BY <2>1, <2>3, <2>4
<1>2. CASE Configured
  <2>1. input \in InputValue
    BY <1>2 DEF Configured, TypeOK, RunOK, InputValue
  <2>2. Resolve(input) \in Settings
    BY <2>1, ResolvedTyped
  <2>3. TypeOK'
    BY <1>2, <2>2 DEF TypeOK, Configured, readVars
  <2>4. RunOK'
    <3>1. /\ stage' = stage /\ input' = input /\ client' = Resolve(input)
          /\ stage # "none" /\ op' = op
          /\ stage = "plan" => planned' = client'
          /\ stage = "apply" => planned' = planned
      BY <1>2 DEF Configured, readVars
    <3>2. Resolve(input)' = Resolve(input)
      BY <3>1 DEF Resolve, Resolved, FromEnvironment
    <3>3. \A a \in Attributes : Resolved(input, a)' = Resolved(input, a)
      BY <3>1 DEF Resolved, FromEnvironment
    <3> QED
      BY <3>1, <3>2, <3>3 DEF RunOK
  <2>5. ReadOK'
    BY <1>2 DEF ReadOK, Configured, readVars
  <2> QED
    BY <2>3, <2>4, <2>5
<1>3. CASE ConfigureRefused
  <2>1. op = "none" /\ EndRun /\ UNCHANGED readVars
    BY <1>3 DEF ConfigureRefused, ReadOK
  <2>2. ReadTyped' /\ ReadOK'
    BY <2>1 DEF ReadTyped, TypeOK, ReadOK, readVars
  <2> QED
    BY <2>1, <2>2, RunEndsOK DEF readVars
<1>4. ASSUME NEW w \in [Unknowns -> Known \cup {Null}], StartApply(w)
      PROVE  IInv'
  <2> DEFINE written == [a \in Attributes |-> IF a \in Unknowns THEN w[a]
                                              ELSE input.written[a]]
  <2>1. /\ stage = "plan" /\ client # NoClient /\ op = "none" /\ stage' = "apply"
        /\ input' = [input EXCEPT !.written = written]
        /\ client' = NoClient /\ UNCHANGED <<planned, readVars>>
    BY <1>4 DEF StartApply
  <2>2. input \in InputValue
    BY <2>1 DEF TypeOK, RunOK, InputValue
  <2>3. written \in [Attributes -> Known \cup {Null, Unknown}]
    BY <2>2 DEF Unknowns, InputValue
  <2>4. input' \in InputValue /\ input'.env = input.env /\ input'.written = written
    BY <2>1, <2>2, <2>3 DEF InputValue
  <2>5. TypeOK'
    BY <2>1, <2>4 DEF TypeOK, InputValue, readVars
  <2>6. \A a \in Attributes : input.written[a] # Unknown
                                => input'.written[a] = input.written[a]
    BY <2>4 DEF Unknowns
  <2>7. \A a \in Attributes : Resolved(input, a) \in {"", Resolved(input', a)}
    BY <2>2, <2>4, <2>6, ResolvedStays
  <2>8. \A a \in Attributes : planned[a] = Resolved(input, a)
    BY <2>1, <2>2, ResolvedTyped DEF RunOK
  <2>9. \A a \in Attributes : Resolved(input, a)' = Resolved(input', a)
    BY DEF Resolved, FromEnvironment
  <2>10. RunOK'
    BY <2>1, <2>4, <2>7, <2>8, <2>9 DEF RunOK, readVars
  <2>11. ReadOK'
    BY <2>1 DEF ReadOK, readVars
  <2> QED
    BY <2>5, <2>10, <2>11
<1>5. CASE RunEnds
  <2>1. ReadTyped' /\ ReadOK' /\ op' = "none"
    BY <1>5 DEF RunEnds, ReadsForgotten, ReadTyped, ReadOK
  <2> QED
    BY <1>5, <2>1, RunEndsOK DEF RunEnds
<1> QED
  BY <1>1, <1>2, <1>3, <1>4, <1>5

(* No step of a read touches the run.                                      *)
LEMMA RunKept ==
  ASSUME RunOK, UNCHANGED runVars, stage # "none"
  PROVE  RunOK'
BY DEF RunOK, runVars, Resolve, Resolved, FromEnvironment

(* A read ends, and its connection is closed.                              *)
LEMMA FinishOK ==
  ASSUME IInv, op # "none", Finish, open' = {}
  PROVE  IInv'
<1> USE DEF IInv
<1>1. TypeOK'
  BY DEF TypeOK, Finish, runVars
<1>2. RunOK'
  BY RunKept DEF RunOK, Finish
<1>3. ReadOK'
  BY DEF ReadOK, Finish
<1> QED
  BY <1>1, <1>2, <1>3

(* The steps of a read: it goes from one call to the next with the         *)
(* connection that call needs, and ends without any.                       *)
LEMMA ReadStepsOK ==
  ASSUME IInv, ReadStep
  PROVE  IInv'
<1> USE DEF IInv
<1>1. CASE Dialled \/ ControllerNamed \/ Hopped \/ Authenticated \/ BrokersAnswered
  <2>1. /\ op # "none" /\ stage # "none" /\ UNCHANGED <<runVars, op, silent>>
    BY <1>1 DEF Dialled, ControllerNamed, Hopped, Authenticated, BrokersAnswered,
                Connected, GoTo, ReadOK, RunOK
  <2>2. RunOK'
    BY <2>1, RunKept
  <2>3. TypeOK'
    BY <1>1, <2>1 DEF TypeOK, runVars, Dialled, ControllerNamed, Hopped,
                      Authenticated, BrokersAnswered, Connected, GoTo
  <2>4. ReadOK'
    <3>1. CASE Dialled
      BY <3>1 DEF ReadOK, Dialled, Connected, GoTo, runVars
    <3>2. CASE ControllerNamed
      BY <3>2 DEF ReadOK, ControllerNamed, GoTo, runVars
    <3>3. CASE Hopped
      BY <3>3 DEF ReadOK, Hopped, Connected, GoTo, runVars
    <3>4. CASE Authenticated
      BY <3>4 DEF ReadOK, Authenticated, GoTo, runVars
    <3>5. CASE BrokersAnswered
      BY <3>5 DEF ReadOK, BrokersAnswered, GoTo, runVars
    <3> QED
      BY <1>1, <3>1, <3>2, <3>3, <3>4, <3>5
  <2> QED
    BY <2>2, <2>3, <2>4
<1>2. CASE AskFails \/ MetadataEnds \/ DialFails \/ ListEnds
  <2>1. op # "none" /\ open' = {} /\ Finish
    BY <1>2 DEF AskFails, AskClosed, MetadataEnds, DialFails, ListEnds, ReadOK
  <2> QED
    BY <2>1, FinishOK
<1> QED
  BY <1>1, <1>2 DEF ReadStep

(* Reads that begin, and a broker that falls silent.                       *)
LEMMA OtherStepsOK ==
  ASSUME IInv, ClusterReadStarts \/ TopicsReadStarts \/ FallsSilent
  PROVE  IInv'
<1> USE DEF IInv
<1>1. CASE ClusterReadStarts \/ TopicsReadStarts
  <2>1. /\ stage # "none" /\ client # NoClient /\ op = "none"
        /\ UNCHANGED <<runVars, open, silent>>
        /\ \/ op' = "cluster" /\ step' = "dial"
           \/ op' = "topics" /\ step' = "list"
    BY <1>1 DEF ClusterReadStarts, TopicsReadStarts, ReadStarts, RunOK
  <2>2. RunOK'
    BY <2>1, RunKept
  <2>3. TypeOK'
    BY <2>1 DEF TypeOK, runVars
  <2>4. ReadOK'
    BY <2>1 DEF ReadOK, runVars
  <2> QED
    BY <2>2, <2>3, <2>4
<1>2. CASE FallsSilent
  <2>1. op # "none" /\ stage # "none" /\ UNCHANGED <<runVars, op, step, open>>
    BY <1>2 DEF FallsSilent, ReadOK, RunOK
  <2>2. RunOK'
    BY <2>1, RunKept
  <2>3. TypeOK'
    BY <1>2, <2>1 DEF FallsSilent, TypeOK, runVars
  <2>4. ReadOK'
    BY <2>1 DEF ReadOK, runVars
  <2> QED
    BY <2>2, <2>3, <2>4
<1> QED
  BY <1>1, <1>2

(* The invariant of run and reads holds in every reachable state.          *)
THEOREM Invariance == Spec => []IInv
<1>1. IInv /\ [Next]_vars => IInv'
  <2> SUFFICES ASSUME IInv, [Next]_vars PROVE IInv'
    OBVIOUS
  <2>1. CASE ReadStep
    BY <2>1, ReadStepsOK
  <2>2. CASE RunStep
    BY <2>2, RunStepsOK, OtherStepsOK DEF RunStep
  <2>3. CASE FallsSilent
    BY <2>3, OtherStepsOK
  <2>4. CASE UNCHANGED vars
    <3>1. UNCHANGED runVars /\ UNCHANGED readVars
      BY <2>4 DEF vars
    <3>2. TypeOK'
      <4>1. /\ stage' = stage /\ input' = input
            /\ client' = client /\ planned' = planned
        BY <3>1 DEF runVars
      <4>2. /\ op' = op /\ step' = step /\ open' = open /\ silent' = silent
        BY <3>1 DEF readVars
      <4>3. /\ stage' \in {"none", "plan", "apply"}
            /\ input' \in {NoInput} \cup InputValue
            /\ client' \in {NoClient} \cup Settings
            /\ planned' \in {NoClient} \cup Settings
        BY <4>1 DEF IInv, TypeOK
      <4>4. ReadTyped'
        BY <4>2 DEF IInv, TypeOK, ReadTyped
      <4> QED
        BY <4>3, <4>4 DEF TypeOK, ReadTyped
    <3>3. ReadOK'
      BY <3>1 DEF runVars, readVars, IInv, ReadOK
    <3>4. RunOK'
      BY <3>1 DEF runVars, readVars, IInv, RunOK, Resolve, Resolved, FromEnvironment
    <3> QED
      BY <3>2, <3>3, <3>4 DEF IInv
  <2> QED
    BY <2>1, <2>2, <2>3, <2>4 DEF Next
<1> QED
  BY InitOK, <1>1, PTL DEF Spec

(* Whatever is configured and whatever the environment says, the apply     *)
(* uses every setting the plan was made with.                              *)
THEOREM ApplyUsesThePlanned == Spec => []PlanNeverGuesses
<1>1. IInv => PlanNeverGuesses
  <2> SUFFICES ASSUME IInv, stage = "apply", client # NoClient, NEW a \in Attributes
               PROVE  planned[a] \in {"", client[a]}
    BY DEF PlanNeverGuesses
  <2>1. input \in InputValue
    BY DEF IInv, TypeOK, RunOK, InputValue
  <2>2. client[a] = Resolved(input, a)
    BY <2>1, ResolvedTyped DEF IInv, RunOK
  <2> QED
    BY <2>2 DEF IInv, RunOK
<1> QED
  BY Invariance, <1>1, PTL
==============================================================================
