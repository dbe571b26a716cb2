------------------------ MODULE TopicSettingsProofs ------------------------
(***************************************************************************)
(* Lemmas about the operators of TopicSettings, for every choice of        *)
(* attributes, keys and values.                                            *)
(***************************************************************************)
EXTENDS TopicSettings, TLAPS

USE SettingsAssumption

(* A value known by its membership in Settings.                            *)
LEMMA SettingsElim ==
  ASSUME NEW s \in Settings
  PROVE  /\ s \in [Attr -> Value \cup MapValue \cup Absent]
         /\ s["config"] \in MapValue \cup Absent
         /\ \A a \in Dedicated \cup Legacy : s[a] \in Value \cup Absent
BY DEF Settings

(* Known settings are settings without an unknown value.                   *)
LEMMA KnownElim ==
  ASSUME NEW s \in KnownSettings
  PROVE  s \in Settings /\ \A a \in Attr : s[a] # Unknown
BY DEF KnownSettings, WhollyKnown

(* Planning: every planned value is the configured one, the recorded one,  *)
(* null or unknown, so a plan is a settings function again.                *)
LEMMA PlanTyped ==
  ASSUME NEW c \in Settings, NEW p \in KnownSettings, NEW ch \in BOOLEAN
  PROVE  PlanSettings(c, p, ch) \in Settings
<1>1. p \in Settings
  BY KnownElim
<1>2. PlanSettings(c, p, ch) = [a \in Attr |-> PlanSettings(c, p, ch)[a]]
  BY DEF PlanSettings, UseStateForUnknown
<1>3. \A a \in Attr : PlanSettings(c, p, ch)[a] \in {c[a], p[a]} \cup Absent
  BY DEF PlanSettings, UseStateForUnknown, MarkUnknown, Proposed, Absent
<1>4. \A a \in Dedicated \cup Legacy \cup {"config"} : a \in Attr
  BY DEF Attr
<1>5. PlanSettings(c, p, ch)["config"] \in MapValue \cup Absent
  BY <1>1, <1>3, <1>4, SettingsElim
<1>6. \A a \in Dedicated \cup Legacy : PlanSettings(c, p, ch)[a] \in Value \cup Absent
  BY <1>1, <1>3, <1>4, SettingsElim
<1>7. \A a \in Attr : PlanSettings(c, p, ch)[a] \in Value \cup MapValue \cup Absent
  BY <1>5, <1>6 DEF Attr
<1> QED
  BY <1>2, <1>5, <1>6, <1>7 DEF Settings

(* A resource without any setting is fully known.                          *)
LEMMA NoSettingsKnown == NoSettings \in KnownSettings
<1>1. \A a \in Dedicated \cup Legacy \cup {"config"} : a \in Attr
  BY DEF Attr
<1> QED
  BY <1>1 DEF NoSettings, KnownSettings, Settings, WhollyKnown, Absent

(* What is stored is known.                                                *)
LEMMA NullTyped ==
  ASSUME NEW s \in Settings
  PROVE  UnknownAsNull(s) \in KnownSettings
<1>1. \A a \in Dedicated \cup Legacy \cup {"config"} : a \in Attr
  BY DEF Attr
<1>2. \A a \in Attr : UnknownAsNull(s)[a] \in {s[a], Null} /\ UnknownAsNull(s)[a] # Unknown
  BY DEF UnknownAsNull
<1>3. UnknownAsNull(s) \in [Attr -> Value \cup MapValue \cup Absent]
  BY SettingsElim DEF UnknownAsNull, Absent
<1>4. UnknownAsNull(s)["config"] \in MapValue \cup Absent
  BY <1>1, <1>2, SettingsElim DEF Absent
<1>5. \A a \in Dedicated \cup Legacy : UnknownAsNull(s)[a] \in Value \cup Absent
  BY <1>1, <1>2, SettingsElim DEF Absent
<1> QED
  BY <1>2, <1>3, <1>4, <1>5 DEF KnownSettings, Settings, WhollyKnown

(* clearUnknownTopicState returns settings.                                *)
LEMMA ClearTyped ==
  ASSUME NEW s \in Settings
  PROVE  ClearUnknown(s) \in Settings
<1>1. \A a \in Dedicated \cup Legacy \cup {"config"} : a \in Attr
  BY DEF Attr
<1>2. \A a \in Attr : ClearUnknown(s)[a] \in {s[a], Null}
  BY DEF ClearUnknown
<1>3. ClearUnknown(s) \in [Attr -> Value \cup MapValue \cup Absent]
  BY SettingsElim DEF ClearUnknown, Absent
<1>4. ClearUnknown(s)["config"] \in MapValue \cup Absent
  BY <1>1, <1>2, SettingsElim DEF Absent
<1>5. \A a \in Dedicated \cup Legacy : ClearUnknown(s)[a] \in Value \cup Absent
  BY <1>1, <1>2, SettingsElim DEF Absent
<1> QED
  BY <1>3, <1>4, <1>5 DEF Settings

(* What is sent is a map of broker keys to known values.                   *)
LEMMA BuildTyped ==
  ASSUME NEW s \in Settings
  PROVE  BuildConfig(s) \in BrokerConf
<1> DEFINE own == {a \in Dedicated \cup Legacy : s[a] \notin Absent}
           map == s["config"]
<1>1. own \subseteq Keys \cup Legacy /\ \A a \in own : s[a] \in Value
  BY SettingsElim DEF Keys
<1>2. CASE map \in Absent
  <2>1. BuildConfig(s) = [k \in own |-> s[k]]
    BY <1>2 DEF BuildConfig
  <2>2. BuildConfig(s) \in [own -> Value]
    BY <2>1, <1>1
  <2> QED
    BY <2>2, <1>1 DEF BrokerConf
<1>3. CASE map \notin Absent
  <2>1. PICK K \in SUBSET Keys : map \in [K -> Value]
    BY <1>3, SettingsElim DEF MapValue
  <2>2. DOMAIN map = K
    BY <2>1
  <2>3. BuildConfig(s) = [k \in own \cup DOMAIN map |->
                            IF k \in DOMAIN map THEN map[k] ELSE s[k]]
    BY <1>3 DEF BuildConfig
  <2>4. BuildConfig(s) \in [own \cup K -> Value]
    BY <2>1, <2>2, <2>3, <1>1
  <2>5. own \cup K \in SUBSET (Keys \cup Legacy)
    BY <1>1
  <2> QED
    BY <2>4, <2>5 DEF BrokerConf
<1> QED
  BY <1>2, <1>3

(* Turning unknowns into nulls does not change what is sent.               *)
LEMMA BuildIgnoresAbsent ==
  ASSUME NEW s \in Settings, NEW t \in Settings,
         \A a \in Attr : s[a] = t[a] \/ (s[a] \in Absent /\ t[a] \in Absent)
  PROVE  BuildConfig(s) = BuildConfig(t)
<1> DEFINE own(u) == {a \in Dedicated \cup Legacy : u[a] \notin Absent}
<1>1. \A a \in Dedicated \cup Legacy \cup {"config"} : a \in Attr
  BY DEF Attr
<1>2. own(s) = own(t) /\ \A a \in own(s) : s[a] = t[a]
  BY <1>1
<1>3. CASE s["config"] \in Absent
  <2>1. t["config"] \in Absent
    BY <1>1, <1>3
  <2> QED
    BY <1>2, <1>3, <2>1 DEF BuildConfig
<1>4. CASE s["config"] \notin Absent
  <2>1. t["config"] = s["config"]
    BY <1>1, <1>4
  <2> QED
    BY <1>2, <1>4, <2>1 DEF BuildConfig
<1> QED
  BY <1>3, <1>4

(* Storing unknowns as null does not change the request a record amounts   *)
(* to.                                                                     *)
LEMMA BuildUnknownAsNull ==
  ASSUME NEW s \in Settings
  PROVE  BuildConfig(UnknownAsNull(s)) = BuildConfig(s)
<1>1. UnknownAsNull(s) \in Settings
  BY NullTyped, KnownElim
<1>2. \A a \in Attr : \/ UnknownAsNull(s)[a] = s[a]
                      \/ UnknownAsNull(s)[a] \in Absent /\ s[a] \in Absent
  BY DEF UnknownAsNull, Absent
<1> QED
  BY <1>1, <1>2, BuildIgnoresAbsent

(* Nor does clearing them before they are recorded.                        *)
LEMMA BuildClearUnknown ==
  ASSUME NEW s \in Settings
  PROVE  BuildConfig(ClearUnknown(s)) = BuildConfig(s)
<1>1. ClearUnknown(s) \in Settings
  BY ClearTyped
<1>2. \A a \in Attr : \/ ClearUnknown(s)[a] = s[a]
                      \/ ClearUnknown(s)[a] \in Absent /\ s[a] \in Absent
  BY DEF ClearUnknown, Absent
<1> QED
  BY <1>1, <1>2, BuildIgnoresAbsent

(* An in-place plan keeps every recorded setting, up to unknowns and the   *)
(* attributes that are not computed.                                       *)
LEMMA InPlaceKeeps ==
  ASSUME NEW c \in Settings, NEW p \in KnownSettings, NEW ch \in BOOLEAN,
         ~RequiresReplace(c, PlanSettings(c, p, ch), p)
  PROVE  \A a \in Computed : UnknownAsNull(PlanSettings(c, p, ch))[a] = p[a]
<1> SUFFICES ASSUME NEW a \in Computed
             PROVE  UnknownAsNull(PlanSettings(c, p, ch))[a] = p[a]
  OBVIOUS
<1>1. a \in Attr /\ p[a] # Unknown
  BY KnownElim DEF Computed
<1>2. CASE c[a] # Null
  <2>1. PlanSettings(c, p, ch)[a] = p[a]
    BY <1>1, <1>2 DEF RequiresReplace
  <2> QED
    BY <1>1, <2>1 DEF UnknownAsNull
<1>3. CASE c[a] = Null
  <2>1. PlanSettings(c, p, ch)[a] = p[a]
        \/ (PlanSettings(c, p, ch)[a] = Unknown /\ p[a] = Null)
    BY <1>1, <1>3 DEF PlanSettings, UseStateForUnknown, MarkUnknown, Proposed
  <2> QED
    BY <1>1, <2>1 DEF UnknownAsNull
<1> QED
  BY <1>2, <1>3

(* Once the record holds what is configured, and nothing that may not be   *)
(* left out, planning changes nothing.                                     *)
LEMMA Settled ==
  ASSUME NEW c \in KnownSettings, NEW s \in KnownSettings,
         \A a \in Attr : c[a] # Null => s[a] = c[a],
         \A a \in Attr \ Computed : c[a] = Null => s[a] = Null
  PROVE  Proposed(c, s) = s /\ PlanSettings(c, s, FALSE) = s
<1>1. s \in [Attr -> Value \cup MapValue \cup Absent]
  BY KnownElim, SettingsElim
<1>2. s = [a \in Attr |-> s[a]]
  BY <1>1
<1>3. \A a \in Attr : s[a] # Unknown
  BY KnownElim
<1>4. Proposed(c, s) = s
  BY <1>2 DEF Proposed
<1>5. PlanSettings(c, s, FALSE) = s
  BY <1>2, <1>3, <1>4 DEF PlanSettings, UseStateForUnknown, MarkUnknown
<1> QED
  BY <1>4, <1>5

(* What Create records of a resolved configuration is that configuration.  *)
LEMMA CreateRecordsConfig ==
  ASSUME NEW c \in KnownSettings
  PROVE  /\ ClearUnknown(PlanSettings(c, NoSettings, TRUE)) = c
         /\ UnknownAsNull(c) = c
<1>1. c \in [Attr -> Value \cup MapValue \cup Absent] /\ \A a \in Attr : c[a] # Unknown
  BY KnownElim, SettingsElim
<1>2. c = [a \in Attr |-> c[a]]
  BY <1>1
<1>3. UnknownAsNull(c) = c
  BY <1>1, <1>2 DEF UnknownAsNull
<1> DEFINE set == ClearUnknown(PlanSettings(c, NoSettings, TRUE))
<1>4. set = [a \in Attr |-> set[a]]
  BY DEF ClearUnknown
<1>5. \A a \in Attr : set[a] = c[a]
  <2> SUFFICES ASSUME NEW a \in Attr PROVE set[a] = c[a]
    OBVIOUS
  <2>1. CASE c[a] # Null
    BY <1>1, <2>1 DEF ClearUnknown, PlanSettings, UseStateForUnknown, MarkUnknown, Proposed
  <2>2. CASE c[a] = Null
    BY <2>2 DEF ClearUnknown, PlanSettings, UseStateForUnknown, MarkUnknown, Proposed, NoSettings
  <2> QED
    BY <2>1, <2>2
<1> HIDE DEF set
<1>6. set = c
  BY <1>2, <1>4, <1>5
<1> QED
  BY <1>3, <1>6 DEF set

(* What an in-place Update records is settled too.                         *)
LEMMA UpdateSettles ==
  ASSUME NEW c \in KnownSettings, NEW p \in KnownSettings, NEW ch \in BOOLEAN,
         ~RequiresReplace(c, PlanSettings(c, p, ch), p)
  PROVE  LET s == UnknownAsNull(PlanSettings(c, p, ch))
         IN  /\ \A a \in Attr : c[a] # Null => s[a] = c[a]
             /\ \A a \in Attr \ Computed : c[a] = Null => s[a] = Null
<1>1. \A a \in Attr : c[a] # Unknown
  BY KnownElim
<1>2. ASSUME NEW a \in Attr, c[a] # Null
      PROVE  UnknownAsNull(PlanSettings(c, p, ch))[a] = c[a]
  BY <1>1, <1>2 DEF UnknownAsNull, PlanSettings, UseStateForUnknown, MarkUnknown, Proposed
<1>3. ASSUME NEW a \in Attr \ Computed, c[a] = Null
      PROVE  UnknownAsNull(PlanSettings(c, p, ch))[a] = Null
  BY <1>3 DEF UnknownAsNull, PlanSettings, UseStateForUnknown, MarkUnknown, Proposed
<1> QED
  BY <1>2, <1>3
============================================================================
