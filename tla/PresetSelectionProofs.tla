------------------------- MODULE PresetSelectionProofs -------------------------
(***************************************************************************)
(* Proofs about what automation selects and how it applies it.             *)
(* PresetSelection, for any dwell, levels and rules: what a tick selects   *)
(* has been observed for its dwell, under the rules in force, and never    *)
(* between a pause and its resume.  AutomationRetry, for any presets and   *)
(* delays: how often and how soon a setting of a preset is written again.  *)
(***************************************************************************)
EXTENDS PresetSelection, AutomationRetry, TLAPS

Runs(presets) == [of : presets \union {NoPreset}, since : 0 .. now]

Typed ==
  /\ policy \in Policies /\ automation \in Preferences /\ now \in Nat
  /\ sourceRun \in Runs(Sources) /\ levelRun \in Runs({"Battery", "Recovery"})
  /\ \/ tick = IdleTick
     \/ /\ tick \in [busy : {TRUE}, prefs : Preferences, source : SourceOption,
                     level : ObservedLevels]
        /\ tick.prefs.enabled /\ ~tick.prefs.override

(* A candidate of the policy is no older than the run that it waits for.   *)
SourceFollowsRun(p) ==
  p.candidate # NoSource => sourceRun.of = p.candidate /\ sourceRun.since <= p.since

LevelFollowsRun(p) ==
  p.batteryCandidate # NoPreset =>
    /\ sourceRun.of = "Battery" /\ sourceRun.since <= p.batterySince
    /\ levelRun.of = p.batteryCandidate /\ levelRun.since <= p.batterySince

NoCandidates(p) == p.candidate = NoSource /\ p.batteryCandidate = NoPreset

PausedWaitsForNothing == policy.override => NoCandidates(policy)

(* A tick whose copy is stale finds a policy that waits for nothing.       *)
StaleFindsNothing == tick.busy /\ tick.prefs # automation => NoCandidates(policy)

IInv ==
  /\ Typed
  /\ SourceFollowsRun(policy) /\ LevelFollowsRun(policy)
  /\ PausedWaitsForNothing /\ StaleFindsNothing
  /\ awaitsResume = automation.override
  /\ SelectionNeedsSourceDwell /\ SelectionNeedsLevelDwell /\ SelectedUnderCurrentRules
-----------------------------------------------------------------------------
(* The operators of the policy.                                            *)

\* What the operators that drop a candidate or a selection leave.
LEMMA Dropping ==
  ASSUME NEW p \in Policies
  PROVE  LET s == WithoutSourceCandidate(p)
             b == WithoutBatteryCandidate(p)
         IN /\ s \in Policies /\ s.candidate = NoSource /\ s.stable = p.stable
            /\ s.batteryCandidate = p.batteryCandidate /\ s.batterySince = p.batterySince
            /\ s.enabled = p.enabled /\ s.override = p.override
            /\ b \in Policies /\ b.batteryCandidate = NoPreset /\ b.stable = p.stable
            /\ b.candidate = p.candidate /\ b.since = p.since
            /\ b.enabled = p.enabled /\ b.override = p.override
BY DEF WithoutSourceCandidate, WithoutBatteryCandidate, Policies, PresetOption, SourceOption

LEMMA DroppingBoth ==
  ASSUME NEW p \in Policies
  PROVE  LET q == WithoutCandidates(p)
         IN /\ q \in Policies /\ NoCandidates(q) /\ q.stable = p.stable
            /\ q.enabled = p.enabled /\ q.override = p.override
<1> DEFINE s == WithoutSourceCandidate(p)
           b == WithoutBatteryCandidate(s)
<1>1. /\ s \in Policies /\ s.candidate = NoSource /\ s.stable = p.stable
      /\ s.enabled = p.enabled /\ s.override = p.override
  BY Dropping
<1> HIDE DEF s
<1>2. /\ b \in Policies /\ b.batteryCandidate = NoPreset /\ b.stable = s.stable
      /\ b.candidate = s.candidate /\ b.enabled = s.enabled /\ b.override = s.override
  BY <1>1, Dropping
<1> HIDE DEF b
<1>3. WithoutCandidates(p) = b
  BY DEF WithoutCandidates, b, s
<1> QED BY <1>1, <1>2, <1>3 DEF NoCandidates

LEMMA Unselecting ==
  ASSUME NEW p \in Policies
  PROVE  LET q == Unselected(p)
         IN /\ q \in Policies /\ NoCandidates(q)
            /\ q.enabled = p.enabled /\ q.override = p.override
<1> DEFINE w == WithoutCandidates(p)
<1>1. /\ w \in Policies /\ NoCandidates(w) /\ w.enabled = p.enabled /\ w.override = p.override
  BY DroppingBoth
<1> HIDE DEF w
<1>2. Unselected(p) =
        [w EXCEPT !.stable = NoSource, !.active = NoPreset, !.pending = NoPreset]
  BY DEF Unselected, w
<1> QED BY <1>1, <1>2 DEF Policies, PresetOption, SourceOption, NoCandidates

LEMMA Enabling ==
  ASSUME NEW p \in Policies, NEW b \in BOOLEAN
  PROVE  LET q == SetEnabled(p, b)
         IN /\ q \in Policies /\ q.enabled = b /\ q.override = p.override
            /\ q = p \/ NoCandidates(q)
<1> DEFINE w == Unselected(p)
<1>1. w \in Policies /\ NoCandidates(w) /\ w.override = p.override
  BY Unselecting
<1> HIDE DEF w
<1>2. SetEnabled(p, b) = IF p.enabled = b THEN p ELSE [w EXCEPT !.enabled = b]
  BY DEF SetEnabled, w
<1> QED BY <1>1, <1>2 DEF Policies, NoCandidates

LEMMA Overriding ==
  ASSUME NEW p \in Policies, NEW b \in BOOLEAN
  PROVE  LET q == SetManualOverride(p, b)
         IN /\ q \in Policies /\ q.override = b /\ q.enabled = p.enabled
            /\ q = p \/ NoCandidates(q)
<1> DEFINE w == IF b THEN WithoutCandidates(p) ELSE Unselected(p)
<1>1. w \in Policies /\ NoCandidates(w) /\ w.enabled = p.enabled
  BY DroppingBoth, Unselecting
<1> HIDE DEF w
<1>2. SetManualOverride(p, b) = IF p.override = b THEN p ELSE [w EXCEPT !.override = b]
  BY DEF SetManualOverride, w
<1> QED BY <1>1, <1>2 DEF Policies, NoCandidates

\* The policy as a tick finds it once the preferences are set.
LEMMA SettingPreferences ==
  ASSUME NEW p \in Policies, NEW enabled \in BOOLEAN, NEW override \in BOOLEAN
  PROVE  LET q == SetManualOverride(SetEnabled(p, enabled), override)
         IN /\ q \in Policies /\ q.enabled = enabled /\ q.override = override
            /\ q = p \/ NoCandidates(q)
<1> DEFINE e == SetEnabled(p, enabled)
           q == SetManualOverride(e, override)
<1>1. e \in Policies /\ e.enabled = enabled /\ (e = p \/ NoCandidates(e))
  BY Enabling, Zenon
<1> HIDE DEF e
<1>2. /\ q \in Policies /\ q.override = override /\ q.enabled = e.enabled
      /\ q = e \/ NoCandidates(q)
  BY <1>1, Overriding, Zenon
<1> HIDE DEF q
<1>3. /\ q \in Policies /\ q.enabled = enabled /\ q.override = override
      /\ q = p \/ NoCandidates(q)
  BY <1>1, <1>2
<1> QED BY <1>3 DEF q, e

LEMMA ApplyingRule ==
  ASSUME NEW p \in Policies, NEW rule \in Rules
  PROVE  LET q == UnderRule(p, rule)
         IN /\ q \in Policies /\ q.candidate = p.candidate /\ q.since = p.since
            /\ q.stable = p.stable /\ q.enabled = p.enabled /\ q.override = p.override
            /\ q.batteryCandidate = NoPreset
               \/ (q.batteryCandidate = p.batteryCandidate /\ q.batterySince = p.batterySince)
<1> DEFINE w == WithoutBatteryCandidate(p)
<1>1. /\ w \in Policies /\ w.candidate = p.candidate /\ w.since = p.since
      /\ w.stable = p.stable /\ w.enabled = p.enabled /\ w.override = p.override
      /\ w.batteryCandidate = NoPreset
  BY Dropping
<1> HIDE DEF w
<1>2. UnderRule(p, rule) = IF p.rule = rule THEN p ELSE [w EXCEPT !.rule = rule, !.pending = NoPreset]
  BY DEF UnderRule, w
<1> QED BY <1>1, <1>2 DEF Policies, PresetOption

\* Without a level nothing is called for.
LEMMA ObservingNoLevel ==
  ASSUME NEW p \in Policies, NEW rule \in Rules, NEW recovery, NEW at
  PROVE  LET o == ObserveBatteryThreshold(p, at, NoLevel, rule, recovery)
         IN /\ o.policy \in Policies /\ o.policy.batteryCandidate = NoPreset
            /\ o.policy.candidate = p.candidate /\ o.policy.since = p.since
            /\ o.policy.override = p.override
            /\ o.action = NoPreset
<1> DEFINE u == UnderRule(p, rule)
           w == WithoutBatteryCandidate(u)
<1>1. ObserveBatteryThreshold(p, at, NoLevel, rule, recovery) = Quiet(w)
  BY DEF ObserveBatteryThreshold, BatteryTarget
<1>2. /\ u \in Policies /\ u.candidate = p.candidate /\ u.since = p.since
      /\ u.override = p.override
  BY ApplyingRule
<1> HIDE DEF u
<1>3. /\ w \in Policies /\ w.batteryCandidate = NoPreset /\ w.candidate = u.candidate
      /\ w.since = u.since /\ w.override = u.override
  BY <1>2, Dropping
<1> HIDE DEF w
<1> QED BY <1>1, <1>2, <1>3 DEF Quiet

LEMMA RulesOfThresholds ==
  ASSUME NEW rule \in ThresholdRules
  PROVE  /\ Unset \in Rules
         /\ rule.lower # NoLevel => Battery(rule) \in Rules
BY DEF Unset, Battery, Rules, ThresholdRules, LevelOption, Levels, NoLevel

LEMMA BlockedForgets ==
  ASSUME NEW p \in Policies, NEW prefs \in Preferences, NEW at
  PROVE  Blocked(p, prefs, at) \in Policies /\ NoCandidates(Blocked(p, prefs, at))
<1> DEFINE current == SetManualOverride(SetEnabled(p, prefs.enabled), prefs.override)
           w == WithoutCandidates(current)
           unsourced == ObservePowerSource(current, at, NoSource, FALSE).policy
           rule == IF prefs.rule.lower = NoLevel THEN Unset ELSE Battery(prefs.rule)
           blocked == ObserveBatteryThreshold(unsourced, at, NoLevel, rule, prefs.rule.recovery).policy
<1>1. prefs.rule \in ThresholdRules /\ prefs.enabled \in BOOLEAN /\ prefs.override \in BOOLEAN
  BY PresetSelectionAssumption DEF Preferences
<1>2. rule \in Rules
  BY <1>1, RulesOfThresholds
<1>3. current \in Policies
  BY <1>1, SettingPreferences
<1> HIDE DEF current
<1>4. w \in Policies /\ NoCandidates(w)
  BY <1>3, DroppingBoth
<1> HIDE DEF w
<1>5. unsourced = [w EXCEPT !.stable = NoSource, !.pending = NoPreset]
  BY DEF ObservePowerSource, Quiet, w
<1> HIDE DEF unsourced
<1>6. unsourced \in Policies /\ NoCandidates(unsourced)
  BY <1>4, <1>5 DEF Policies, SourceOption, PresetOption, NoCandidates
<1> HIDE DEF rule
<1>7. /\ blocked \in Policies /\ blocked.batteryCandidate = NoPreset
      /\ blocked.candidate = unsourced.candidate
  BY <1>2, <1>6, ObservingNoLevel
<1> HIDE DEF blocked
<1>8. Blocked(p, prefs, at) = blocked
  BY DEF Blocked, blocked, rule, unsourced, current
<1> QED BY <1>6, <1>7, <1>8 DEF NoCandidates

LEMMA ResetForgets ==
  ASSUME NEW p \in Policies
  PROVE  /\ ResetForReconfiguration(p) \in Policies /\ NoCandidates(ResetForReconfiguration(p))
         /\ ResumePolicy(p) \in Policies /\ NoCandidates(ResumePolicy(p))
<1> DEFINE w == Unselected(p)
<1>1. w \in Policies /\ NoCandidates(w)
  BY Unselecting
<1> HIDE DEF w
<1>2. /\ ResetForReconfiguration(p) = [w EXCEPT !.rule = NoRule]
      /\ ResumePolicy(p) = [w EXCEPT !.override = FALSE]
  BY DEF ResetForReconfiguration, ResumePolicy, w
<1> QED BY <1>1, <1>2 DEF Policies, NoCandidates

\* An observed source: the policy waits for it, or has waited long enough.
LEMMA ObservingSource ==
  ASSUME NEW p \in Policies, p.enabled, ~p.override, NEW at \in Nat, NEW source \in Sources,
         NEW threshold \in BOOLEAN
  PROVE  LET o == ObservePowerSource(p, at, source, threshold)
             q == o.policy
         IN /\ q \in Policies /\ ~q.override
            /\ q.candidate \in {NoSource, source}
            /\ q.candidate = source =>
                 q.since = at \/ (p.candidate = source /\ q.since = p.since)
            /\ q.batteryCandidate = NoPreset
               \/ (q.batteryCandidate = p.batteryCandidate /\ q.batterySince = p.batterySince)
            /\ o.action # NoPreset =>
                 /\ o.action = source /\ (source = "Battery" => ~threshold)
                 /\ p.candidate = source /\ at - p.since >= Dwell
<1> DEFINE o == ObservePowerSource(p, at, source, threshold)
           q == o.policy
           s == WithoutSourceCandidate(p)
           w == WithoutCandidates(p)
           chosen == IF source = "Battery" /\ threshold THEN NoPreset ELSE source
<1>1. source # NoSource /\ source # NoPreset /\ chosen \in PresetOption /\ source \in SourceOption
  BY DEF Sources, NoSource, NoPreset, PresetOption, Presets, SourceOption
<1>2. o = IF p.stable = source THEN Quiet(s)
          ELSE IF p.candidate # source
               THEN Quiet([p EXCEPT !.candidate = source, !.since = at])
          ELSE IF at - p.since < Dwell THEN Quiet(p)
          ELSE [policy |-> [w EXCEPT !.stable = source, !.pending = chosen], action |-> chosen]
  BY <1>1 DEF ObservePowerSource, Stabilized
<1>3. /\ s \in Policies /\ s.candidate = NoSource /\ s.override = p.override
      /\ s.batteryCandidate = p.batteryCandidate /\ s.batterySince = p.batterySince
  BY Dropping
<1>4. w \in Policies /\ NoCandidates(w) /\ w.override = p.override
  BY DroppingBoth
<1> HIDE DEF o, s, w
<1>5. CASE p.stable = source
  BY <1>1, <1>2, <1>3, <1>5 DEF Quiet, o
<1>6. CASE p.stable # source /\ p.candidate # source
  <2> DEFINE r == [p EXCEPT !.candidate = source, !.since = at]
  <2>1. /\ r \in Policies /\ r.candidate = source /\ r.since = at
        /\ r.override = p.override
        /\ r.batteryCandidate = p.batteryCandidate /\ r.batterySince = p.batterySince
    BY <1>1 DEF Policies
  <2>2. o = Quiet(r)
    BY <1>2, <1>6
  <2> HIDE DEF r
  <2> QED BY <2>1, <2>2 DEF Quiet, o
<1>7. CASE p.stable # source /\ p.candidate = source /\ at - p.since < Dwell
  BY <1>2, <1>7 DEF Quiet, o
<1>8. CASE p.stable # source /\ p.candidate = source /\ ~(at - p.since < Dwell)
  <2> DEFINE r == [w EXCEPT !.stable = source, !.pending = chosen]
  <2>1. r \in Policies /\ NoCandidates(r) /\ r.override = p.override
    BY <1>1, <1>4 DEF Policies, NoCandidates
  <2>2. o.policy = r /\ o.action = chosen
    BY <1>2, <1>8
  <2>3. at - p.since >= Dwell
    BY <1>8, PolicyAssumption DEF Policies
  <2> HIDE DEF r
  <2> QED BY <1>1, <1>8, <2>1, <2>2, <2>3 DEF NoCandidates, o
<1> QED BY <1>5, <1>6, <1>7, <1>8

\* An observed level calls for a preset, for which the policy waits, or has
\* waited long enough.
LEMMA ObservingThreshold ==
  ASSUME NEW p \in Policies, NEW at \in Nat, NEW level \in LevelOption, NEW rule \in Rules,
         NEW recovery \in BOOLEAN
  PROVE  LET o == ObserveBatteryThreshold(p, at, level, rule, recovery)
             q == o.policy
             target == BatteryTarget(UnderRule(p, rule), level, rule, recovery)
         IN /\ q \in Policies /\ q.override = p.override
            /\ q.candidate = p.candidate /\ q.since = p.since
            /\ q.batteryCandidate # NoPreset =>
                 /\ q.batteryCandidate = target
                 /\ q.batterySince = at
                    \/ (p.batteryCandidate = target /\ q.batterySince = p.batterySince)
            /\ o.action # NoPreset =>
                 /\ o.action = target
                 /\ p.batteryCandidate = target /\ at - p.batterySince >= Dwell
<1> DEFINE u == UnderRule(p, rule)
           o == ObserveBatteryThreshold(p, at, level, rule, recovery)
           target == BatteryTarget(u, level, rule, recovery)
           w == WithoutBatteryCandidate(u)
<1>1. /\ u \in Policies /\ u.candidate = p.candidate /\ u.since = p.since
      /\ u.override = p.override
      /\ u.batteryCandidate = NoPreset
         \/ (u.batteryCandidate = p.batteryCandidate /\ u.batterySince = p.batterySince)
  BY ApplyingRule
<1>2. target \in PresetOption
  BY DEF BatteryTarget, PresetOption, Presets
<1> HIDE DEF u
<1>3. /\ w \in Policies /\ w.batteryCandidate = NoPreset /\ w.candidate = u.candidate
      /\ w.since = u.since /\ w.override = u.override
  BY <1>1, Dropping
<1>4. o = IF target \in {NoPreset, u.active, u.pending} THEN Quiet(w)
          ELSE IF u.batteryCandidate # target
               THEN Quiet([u EXCEPT !.batteryCandidate = target, !.batterySince = at])
          ELSE IF at - u.batterySince < Dwell THEN Quiet(u)
          ELSE [policy |-> [w EXCEPT !.pending = target], action |-> target]
  BY DEF ObserveBatteryThreshold, u
<1> HIDE DEF o, w, target
<1>5. CASE target \in {NoPreset, u.active, u.pending}
  BY <1>1, <1>3, <1>4, <1>5 DEF Quiet, o
<1>6. CASE target \notin {NoPreset, u.active, u.pending} /\ u.batteryCandidate # target
  <2> DEFINE r == [u EXCEPT !.batteryCandidate = target, !.batterySince = at]
  <2>1. /\ r \in Policies /\ r.batteryCandidate = target /\ r.batterySince = at
        /\ r.override = u.override /\ r.candidate = u.candidate /\ r.since = u.since
    BY <1>1, <1>2 DEF Policies
  <2>2. o = Quiet(r)
    BY <1>4, <1>6
  <2> HIDE DEF r
  <2> QED BY <1>1, <2>1, <2>2 DEF Quiet, o, target, u
<1>7. CASE /\ target \notin {NoPreset, u.active, u.pending} /\ u.batteryCandidate = target
           /\ at - u.batterySince < Dwell
  <2>1. o = Quiet(u)
    BY <1>4, <1>7
  <2> QED BY <1>1, <1>7, <2>1 DEF Quiet, o, target, u
<1>8. CASE /\ target \notin {NoPreset, u.active, u.pending} /\ u.batteryCandidate = target
           /\ ~(at - u.batterySince < Dwell)
  <2> DEFINE r == [w EXCEPT !.pending = target]
  <2>1. /\ r \in Policies /\ r.batteryCandidate = NoPreset /\ r.override = u.override
        /\ r.candidate = u.candidate /\ r.since = u.since
    BY <1>2, <1>3 DEF Policies
  <2>2. o.policy = r /\ o.action = target
    BY <1>4, <1>8
  <2>3. at - u.batterySince >= Dwell
    BY <1>1, <1>8, PolicyAssumption DEF Policies
  <2> HIDE DEF r
  <2> QED BY <1>1, <1>8, <2>1, <2>2, <2>3 DEF o, target, u
<1> QED BY <1>5, <1>6, <1>7, <1>8

\* Both: what a tick that is evaluated leaves, and what it selects.
LEMMA Evaluating ==
  ASSUME NEW p \in Policies, NEW prefs \in Preferences, prefs.enabled, ~prefs.override,
         NEW at \in Nat, NEW source \in Sources, NEW level \in LevelOption
  PROVE  LET e == Evaluated(p, prefs, at, source, level)
             q == e.policy
             called == CalledFor(prefs.rule, source, level)
         IN /\ q \in Policies /\ ~q.override
            /\ q.candidate \in {NoSource, source}
            /\ q.candidate = source =>
                 q.since = at \/ (p.candidate = source /\ q.since = p.since)
            /\ q.batteryCandidate # NoPreset =>
                 /\ source = "Battery" /\ q.batteryCandidate = called
                 /\ q.batterySince = at
                    \/ (p.batteryCandidate = called /\ q.batterySince = p.batterySince)
            /\ e.action # NoPreset =>
                 \/ /\ e.action = source /\ p.candidate = source /\ at - p.since >= Dwell
                    /\ source = "Battery" => prefs.rule.lower = NoLevel
                 \/ /\ source = "Battery" /\ e.action = called
                    /\ p.batteryCandidate = called /\ at - p.batterySince >= Dwell
<1> DEFINE current == SetManualOverride(SetEnabled(p, prefs.enabled), prefs.override)
           threshold == prefs.rule.lower # NoLevel
           o == ObservePowerSource(current, at, source, threshold)
           b == o.policy
           l == ObserveLevel(b, at, source, level, prefs.rule)
           called == CalledFor(prefs.rule, source, level)
           e == Evaluated(p, prefs, at, source, level)
<1>1. /\ prefs.rule \in ThresholdRules /\ prefs.enabled = TRUE /\ prefs.override = FALSE
      /\ prefs.rule.recovery \in BOOLEAN
  BY PresetSelectionAssumption DEF Preferences, ThresholdRules
<1>2. /\ current \in Policies /\ current.enabled /\ ~current.override
      /\ current = p \/ NoCandidates(current)
  <2>1. /\ current \in Policies /\ current.enabled = prefs.enabled
        /\ current.override = prefs.override /\ (current = p \/ NoCandidates(current))
    BY <1>1, SettingPreferences, Zenon
  <2> HIDE DEF current
  <2> QED BY <1>1, <2>1
<1>3. /\ e.policy = l.policy
      /\ e.action = IF o.action = NoPreset THEN l.action ELSE o.action
  BY DEF Evaluated
<1> HIDE DEF current, e
<1>4. source # NoSource /\ NoPreset # source /\ threshold \in BOOLEAN
  BY DEF Sources, NoSource, NoPreset
<1> HIDE DEF threshold
<1>5. /\ b \in Policies /\ ~b.override
      /\ b.candidate \in {NoSource, source}
      /\ b.candidate = source =>
           b.since = at \/ (current.candidate = source /\ b.since = current.since)
      /\ b.batteryCandidate = NoPreset
         \/ (b.batteryCandidate = current.batteryCandidate
             /\ b.batterySince = current.batterySince)
      /\ o.action # NoPreset =>
           /\ o.action = source /\ (source = "Battery" => ~threshold)
           /\ current.candidate = source /\ at - current.since >= Dwell
  BY <1>2, <1>4, ObservingSource
<1> HIDE DEF o, b
<1>6. /\ l.policy \in Policies /\ ~l.policy.override
      /\ l.policy.candidate = b.candidate /\ l.policy.since = b.since
      /\ l.policy.batteryCandidate # NoPreset =>
           /\ source = "Battery" /\ l.policy.batteryCandidate = called
           /\ l.policy.batterySince = at
              \/ (b.batteryCandidate = called /\ l.policy.batterySince = b.batterySince)
      /\ l.action # NoPreset =>
           /\ source = "Battery" /\ l.action = called
           /\ b.batteryCandidate = called /\ at - b.batterySince >= Dwell
  <2>1. CASE source = "Battery" /\ b.stable = "Battery" /\ prefs.rule.lower # NoLevel
    <3> DEFINE rule == Battery(prefs.rule)
               target == BatteryTarget(UnderRule(b, rule), level, rule, prefs.rule.recovery)
    <3>1. l = ObserveBatteryThreshold(b, at, level, rule, prefs.rule.recovery)
      BY <2>1 DEF ObserveLevel
    <3>2. rule \in Rules /\ rule.lower = prefs.rule.lower /\ rule.upper = prefs.rule.upper
      BY <1>1, <2>1, RulesOfThresholds DEF Battery
    <3>3. target # NoPreset => target = called
      BY <1>1, <2>1, <3>2 DEF BatteryTarget, CalledFor, ThresholdRules
    <3> HIDE DEF rule, target, called, l
    <3>4. /\ l.policy \in Policies /\ l.policy.override = b.override
          /\ l.policy.candidate = b.candidate /\ l.policy.since = b.since
          /\ l.policy.batteryCandidate # NoPreset =>
               /\ l.policy.batteryCandidate = target
               /\ l.policy.batterySince = at
                  \/ (b.batteryCandidate = target /\ l.policy.batterySince = b.batterySince)
          /\ l.action # NoPreset =>
               /\ l.action = target
               /\ b.batteryCandidate = target /\ at - b.batterySince >= Dwell
      BY <1>1, <1>5, <3>1, <3>2, ObservingThreshold DEF target
    <3> QED BY <1>5, <2>1, <3>3, <3>4
  <2>2. CASE ~(source = "Battery" /\ b.stable = "Battery" /\ prefs.rule.lower # NoLevel)
    <3> DEFINE o2 == ObserveBatteryThreshold(b, at, NoLevel, Unset, FALSE)
    <3>1. l = o2
      BY <2>2 DEF ObserveLevel
    <3>2. /\ o2.policy \in Policies /\ o2.policy.batteryCandidate = NoPreset
          /\ o2.policy.candidate = b.candidate /\ o2.policy.since = b.since
          /\ o2.policy.override = b.override /\ o2.action = NoPreset
      <4>1. Unset \in Rules
        BY <1>1, RulesOfThresholds
      <4>2. b \in Policies /\ ~b.override
        BY <1>5
      <4> QED BY <4>1, <4>2, ObservingNoLevel
    <3> HIDE DEF l, o2
    <3> QED BY <1>5, <3>1, <3>2
  <2> QED BY <2>1, <2>2
<1> HIDE DEF l, called
<1>7. called # NoPreset => called \in {"Battery", "Recovery"}
  BY DEF CalledFor, called
<1>8. NoCandidates(current) => current.candidate # source /\ current.batteryCandidate = NoPreset
  BY <1>4 DEF NoCandidates
<1>9. /\ e.policy \in Policies /\ ~e.policy.override
      /\ e.policy.candidate \in {NoSource, source}
      /\ e.policy.candidate = source =>
           e.policy.since = at \/ (p.candidate = source /\ e.policy.since = p.since)
  BY <1>2, <1>3, <1>5, <1>6, <1>8
<1>10. e.policy.batteryCandidate # NoPreset =>
         /\ source = "Battery" /\ e.policy.batteryCandidate = called
         /\ e.policy.batterySince = at
            \/ (p.batteryCandidate = called /\ e.policy.batterySince = p.batterySince)
  BY <1>2, <1>3, <1>5, <1>6, <1>8
<1>11. e.action # NoPreset =>
         \/ /\ e.action = source /\ p.candidate = source /\ at - p.since >= Dwell
            /\ source = "Battery" => prefs.rule.lower = NoLevel
         \/ /\ source = "Battery" /\ e.action = called
            /\ p.batteryCandidate = called /\ at - p.batterySince >= Dwell
  BY <1>2, <1>3, <1>5, <1>6, <1>8 DEF threshold
<1> QED BY <1>9, <1>10, <1>11 DEF e, called
-----------------------------------------------------------------------------
(* The inductive invariant.                                                *)

LEMMA InitIInv == Init => IInv
<1> SUFFICES ASSUME Init PROVE IInv
  OBVIOUS
<1>1. policy \in Policies /\ NoCandidates(policy) /\ policy.override = FALSE
  BY DEF Init, NewPolicy, Policies, NoCandidates, PresetOption, SourceOption
<1>2. Typed
  BY <1>1 DEF Init, Typed, Runs, NoRun
<1> QED BY <1>1, <1>2 DEF IInv, Init, SourceFollowsRun, LevelFollowsRun, NoCandidates,
          PausedWaitsForNothing, StaleFindsNothing, SelectionNeedsSourceDwell,
          SelectionNeedsLevelDwell, SelectedUnderCurrentRules, Selected, IdleTick

\* Every step that forgets what the policy waits for breaks the runs with it.
LEMMA ResetKeepsIInv ==
  ASSUME IInv, Reset, policy' \in Policies, NoCandidates(policy'), automation' \in Preferences,
         now' = now, tick' \in {tick, IdleTick}, awaitsResume' = automation'.override
  PROVE  IInv'
<1>1. Typed'
  <2>1. 0 \in 0 .. now'
    BY DEF IInv, Typed
  <2>2. (sourceRun \in Runs(Sources))' /\ (levelRun \in Runs({"Battery", "Recovery"}))'
    BY <2>1 DEF Reset, Runs, NoRun
  <2> QED BY <2>2 DEF IInv, Typed
<1>2. /\ SourceFollowsRun(policy)' /\ LevelFollowsRun(policy)'
      /\ PausedWaitsForNothing' /\ StaleFindsNothing'
  BY DEF SourceFollowsRun, LevelFollowsRun, PausedWaitsForNothing, StaleFindsNothing, NoCandidates
<1>3. (SelectionNeedsSourceDwell /\ SelectionNeedsLevelDwell /\ SelectedUnderCurrentRules)'
  BY DEF Reset, SelectionNeedsSourceDwell, SelectionNeedsLevelDwell,
         SelectedUnderCurrentRules, Selected
<1> QED BY <1>1, <1>2, <1>3 DEF IInv

\* The copy of the preferences that a tick in progress works with.
LEMMA BusyTick ==
  ASSUME Typed, tick.busy
  PROVE  /\ tick.prefs \in Preferences /\ tick.prefs.enabled /\ ~tick.prefs.override
         /\ tick.source \in SourceOption /\ tick.level \in LevelOption
<1>1. tick # IdleTick
  <2>1. IdleTick.busy = FALSE
    BY DEF IdleTick
  <2> QED BY <2>1
<1> QED BY <1>1, PresetSelectionAssumption DEF Typed

LEMMA TickReadsKeepsIInv ==
  ASSUME IInv, NEW source \in SourceOption, NEW level \in ObservedLevels,
         TickReads(source, level)
  PROVE  IInv'
<1>1. /\ tick' = [busy |-> TRUE, prefs |-> automation, source |-> source, level |-> level]
      /\ automation.enabled /\ ~automation.override
      /\ UNCHANGED <<policy, automation, now, sourceRun, levelRun, selection, awaitsResume>>
  BY DEF TickReads, history
<1>2. Typed'
  BY <1>1 DEF IInv, Typed, Runs
<1>3. StaleFindsNothing'
  BY <1>1 DEF StaleFindsNothing
<1> QED BY <1>1, <1>2, <1>3 DEF IInv, SourceFollowsRun, LevelFollowsRun, NoCandidates,
          PausedWaitsForNothing, SelectionNeedsSourceDwell,
          SelectionNeedsLevelDwell, SelectedUnderCurrentRules, Selected

LEMMA TickBlockedKeepsIInv ==
  ASSUME IInv, TickBlocked
  PROVE  IInv'
<1>1. tick.prefs \in Preferences
  BY BusyTick DEF IInv, TickBlocked
<1>2. policy' \in Policies /\ NoCandidates(policy')
  BY <1>1, BlockedForgets DEF IInv, Typed, TickBlocked
<1> QED BY <1>2, ResetKeepsIInv DEF TickBlocked, IInv, Typed

LEMMA TickEvaluatesKeepsIInv ==
  ASSUME IInv, TickEvaluates
  PROVE  IInv'
<1> DEFINE source == tick.source
           prefs == tick.prefs
           called == CalledFor(prefs.rule, source, tick.level)
           e == Evaluated(policy, prefs, now, source, tick.level)
<1>1. /\ source \in Sources /\ prefs \in Preferences /\ prefs.enabled /\ ~prefs.override
      /\ tick.level \in LevelOption /\ tick.busy /\ policy \in Policies /\ now \in Nat
      /\ sourceRun \in Runs(Sources) /\ levelRun \in Runs({"Battery", "Recovery"})
  BY BusyTick DEF IInv, Typed, TickEvaluates, SourceOption
<1>2. /\ policy' = e.policy /\ tick' = IdleTick
      /\ sourceRun' = Extend(sourceRun, source) /\ levelRun' = Extend(levelRun, called)
      /\ selection' = IF e.action # NoPreset
           THEN [preset |-> e.action, at |-> now, prefs |-> prefs,
                 source |-> sourceRun', level |-> levelRun']
           ELSE IF selection # NoSelection /\ sourceRun' # selection.source
                THEN NoSelection ELSE selection
      /\ UNCHANGED <<automation, now, awaitsResume>>
  BY DEF TickEvaluates
<1>3. source \in {"Ac", "Battery"} /\ called \in {NoPreset, "Battery", "Recovery"}
  BY <1>1 DEF Sources, CalledFor
<1>4. /\ e.policy \in Policies /\ ~e.policy.override
      /\ e.policy.candidate \in {NoSource, source}
      /\ e.policy.candidate = source =>
           e.policy.since = now \/ (policy.candidate = source /\ e.policy.since = policy.since)
      /\ e.policy.batteryCandidate # NoPreset =>
           /\ source = "Battery" /\ e.policy.batteryCandidate = called
           /\ e.policy.batterySince = now
              \/ (policy.batteryCandidate = called /\ e.policy.batterySince = policy.batterySince)
      /\ e.action # NoPreset =>
           \/ /\ e.action = source /\ policy.candidate = source /\ now - policy.since >= Dwell
              /\ source = "Battery" => prefs.rule.lower = NoLevel
           \/ /\ source = "Battery" /\ e.action = called
              /\ policy.batteryCandidate = called /\ now - policy.batterySince >= Dwell
  <2> HIDE DEF source, prefs
  <2> QED BY <1>1, Evaluating
<1> HIDE DEF e, called
<1>5. /\ sourceRun' \in Runs(Sources) /\ sourceRun'.of = source
      /\ sourceRun.of = source => sourceRun' = sourceRun
      /\ levelRun' \in Runs({"Battery", "Recovery"}) /\ levelRun'.of = called
      /\ levelRun.of = called /\ called # NoPreset => levelRun' = levelRun
  BY <1>1, <1>2, <1>3 DEF Extend, NoRun, Runs, NoPreset, Sources
<1>6. Typed'
  BY <1>1, <1>2, <1>4, <1>5 DEF IInv, Typed, Runs
<1>7. SourceFollowsRun(policy)'
  BY <1>1, <1>2, <1>4, <1>5 DEF IInv, SourceFollowsRun, Runs
<1>8. LevelFollowsRun(policy)'
  BY <1>1, <1>2, <1>4, <1>5 DEF IInv, LevelFollowsRun, Runs
<1>9. PausedWaitsForNothing' /\ StaleFindsNothing' /\ (awaitsResume = automation.override)'
  BY <1>2, <1>4 DEF IInv, PausedWaitsForNothing, StaleFindsNothing, IdleTick
<1>10. (SelectionNeedsSourceDwell /\ SelectionNeedsLevelDwell /\ SelectedUnderCurrentRules)'
  <2>1. CASE e.action # NoPreset
    <3>1. /\ selection'.preset = e.action /\ selection'.at = now /\ selection'.prefs = prefs
          /\ selection'.source = sourceRun' /\ selection'.level = levelRun'
      BY <1>2, <2>1
    <3>2. prefs = automation
      BY <1>1, <1>3, <1>4, <2>1 DEF IInv, StaleFindsNothing, NoCandidates, NoSource, NoPreset
    <3>3. SelectedUnderCurrentRules'
      BY <1>1, <1>2, <3>1, <3>2 DEF SelectedUnderCurrentRules
    <3>4. CASE /\ e.action = source /\ policy.candidate = source
               /\ now - policy.since >= Dwell /\ (source = "Battery" => prefs.rule.lower = NoLevel)
      <4>1. sourceRun' = sourceRun /\ sourceRun.since <= policy.since
        BY <1>3, <1>5, <3>4 DEF IInv, SourceFollowsRun, NoSource
      <4>2. now - sourceRun.since >= Dwell
        BY <1>1, <3>4, <4>1, PolicyAssumption DEF Runs, Policies
      <4> QED BY <1>3, <1>5, <3>1, <3>3, <3>4, <4>1, <4>2
              DEF SelectionNeedsSourceDwell, SelectionNeedsLevelDwell
    <3>5. CASE /\ source = "Battery" /\ e.action = called
               /\ policy.batteryCandidate = called /\ now - policy.batterySince >= Dwell
      <4>1. /\ sourceRun' = sourceRun /\ sourceRun.since <= policy.batterySince
            /\ levelRun' = levelRun /\ levelRun.since <= policy.batterySince
        BY <1>5, <2>1, <3>5 DEF IInv, LevelFollowsRun
      <4>2. now - sourceRun.since >= Dwell /\ now - levelRun.since >= Dwell
        BY <1>1, <3>5, <4>1, PolicyAssumption DEF Runs, Policies
      <4> QED BY <1>3, <1>5, <2>1, <3>1, <3>3, <3>5, <4>1, <4>2
              DEF SelectionNeedsSourceDwell, SelectionNeedsLevelDwell, NoPreset
    <3> QED BY <1>4, <2>1, <3>4, <3>5
  <2>2. CASE e.action = NoPreset
    <3>1. selection' \in {NoSelection, selection} /\ automation' = automation
      BY <1>2, <2>2
    <3> QED BY <3>1 DEF IInv, SelectionNeedsSourceDwell, SelectionNeedsLevelDwell,
              SelectedUnderCurrentRules, Selected
  <2> QED BY <2>1, <2>2
<1> QED BY <1>6, <1>7, <1>8, <1>9, <1>10 DEF IInv

LEMMA TimePassesKeepsIInv ==
  ASSUME IInv, TimePasses
  PROVE  IInv'
<1>1. now' = now + 1 /\ UNCHANGED <<policy, automation, tick, sourceRun, levelRun, selection, awaitsResume>>
  BY DEF TimePasses, history
<1>2. Typed'
  <2>1. 0 .. now \subseteq 0 .. now' /\ now' \in Nat
    BY <1>1 DEF IInv, Typed
  <2>2. (sourceRun \in Runs(Sources))' /\ (levelRun \in Runs({"Battery", "Recovery"}))'
    BY <1>1, <2>1 DEF IInv, Typed, Runs
  <2> QED BY <1>1, <2>1, <2>2 DEF IInv, Typed
<1> QED BY <1>1, <1>2 DEF IInv, SourceFollowsRun, LevelFollowsRun, NoCandidates,
          PausedWaitsForNothing, StaleFindsNothing, SelectionNeedsSourceDwell,
          SelectionNeedsLevelDwell, SelectedUnderCurrentRules, Selected

LEMMA StutterKeepsIInv ==
  ASSUME IInv, UNCHANGED <<policy, automation, tick, now, history, awaitsResume>>
  PROVE  IInv'
<1>1. UNCHANGED <<sourceRun, levelRun, selection>>
  BY DEF history
<1>2. Typed'
  BY <1>1 DEF IInv, Typed, Runs
<1> QED BY <1>1, <1>2 DEF IInv, SourceFollowsRun, LevelFollowsRun, NoCandidates,
          PausedWaitsForNothing, StaleFindsNothing, SelectionNeedsSourceDwell,
          SelectionNeedsLevelDwell, SelectedUnderCurrentRules, Selected

\* A saved configuration either changes nothing or resets the policy.
LEMMA StoreKeepsIInv ==
  ASSUME IInv, NEW prefs \in Preferences, Store(prefs, policy),
         UNCHANGED <<tick, now>>, awaitsResume' = prefs.override
  PROVE  IInv'
<1>1. CASE prefs = automation
  BY <1>1, StutterKeepsIInv DEF IInv, Store
<1>2. CASE prefs # automation
  <2>1. policy' \in Policies /\ NoCandidates(policy')
    BY <1>2, ResetForgets DEF IInv, Typed, Store
  <2> QED BY <1>2, <2>1, ResetKeepsIInv DEF Store
<1> QED BY <1>1, <1>2

LEMMA PauseKeepsIInv ==
  ASSUME IInv, Pause \/ Resume
  PROVE  IInv'
<1>1. ASSUME NEW b \in BOOLEAN
      PROVE  /\ [automation EXCEPT !.override = b] \in Preferences
             /\ [automation EXCEPT !.override = b].override = b
  BY DEF IInv, Typed, Preferences
<1>2. CASE Pause
  BY <1>1, <1>2, StoreKeepsIInv DEF Pause
<1>3. CASE Resume
  BY <1>1, <1>3, StoreKeepsIInv DEF Resume
<1> QED BY <1>2, <1>3

LEMMA PauseForManualActionKeepsIInv ==
  ASSUME IInv, PauseForManualAction
  PROVE  IInv'
<1> DEFINE p == ResetForReconfiguration(policy)
           q == SetManualOverride(p, TRUE)
<1>1. p \in Policies /\ NoCandidates(p)
  BY ResetForgets DEF IInv, Typed
<1>2. policy' = q
  BY DEF PauseForManualAction
<1> HIDE DEF p
<1>3. q \in Policies /\ (q = p \/ NoCandidates(q))
  BY <1>1, Overriding, Zenon
<1>4. automation' \in Preferences /\ awaitsResume' = automation'.override
  BY DEF IInv, Typed, PauseForManualAction, Preferences
<1> QED BY <1>1, <1>2, <1>3, <1>4, ResetKeepsIInv DEF PauseForManualAction

\* What pause_automation and resume_automation do after they have stored.
LEMMA PausePolicyKeepsIInv ==
  ASSUME IInv, PausePolicy
  PROVE  IInv'
<1> DEFINE q == SetManualOverride(policy, TRUE)
<1>1. policy' = q /\ policy \in Policies
  BY DEF PausePolicy, IInv, Typed
<1>2. q \in Policies /\ q.override = TRUE /\ (q = policy \/ NoCandidates(q))
  BY <1>1, Overriding, Zenon
<1> HIDE DEF q
<1>3. NoCandidates(q)
  BY <1>2 DEF IInv, PausedWaitsForNothing
<1> QED BY <1>1, <1>2, <1>3, ResetKeepsIInv DEF PausePolicy, IInv, Typed

LEMMA ResumeStepsKeepIInv ==
  ASSUME IInv, ResumeRaisesBarrier \/ ResumeEndsPause
  PROVE  IInv'
<1>1. policy' \in Policies /\ NoCandidates(policy')
  BY BlockedForgets, ResetForgets DEF IInv, Typed, ResumeRaisesBarrier, ResumeEndsPause
<1> QED BY <1>1, ResetKeepsIInv DEF ResumeRaisesBarrier, ResumeEndsPause, IInv, Typed

LEMMA BarrierRaisedKeepsIInv ==
  ASSUME IInv, BarrierRaised
  PROVE  IInv'
<1>1. policy' \in Policies /\ NoCandidates(policy')
  BY BlockedForgets DEF IInv, Typed, BarrierRaised
<1> QED BY <1>1, ResetKeepsIInv DEF BarrierRaised, IInv, Typed

LEMMA NextKeepsIInv == IInv /\ [Next]_vars => IInv'
<1> SUFFICES ASSUME IInv, [Next]_vars PROVE IInv'
  OBVIOUS
<1>1. ASSUME NEW source \in SourceOption, NEW level \in ObservedLevels, TickReads(source, level)
      PROVE  IInv'
  BY <1>1, TickReadsKeepsIInv
<1>2. ASSUME NEW enabled \in BOOLEAN, NEW rule \in RuleChoices, SetConfiguration(enabled, rule)
      PROVE  IInv'
  <2> DEFINE prefs == [automation EXCEPT !.enabled = enabled, !.rule = rule]
  <2>1. prefs \in Preferences /\ prefs.override = automation.override
    BY DEF IInv, Typed, Preferences
  <2> QED BY <1>2, <2>1, StoreKeepsIInv DEF SetConfiguration, IInv
<1>3. CASE ResetConfiguration
  <2> DEFINE prefs == [enabled |-> FALSE, override |-> FALSE, rule |-> NoThresholds]
  <2>1. prefs \in Preferences /\ prefs.override = FALSE
    BY PresetSelectionAssumption DEF Preferences
  <2> QED BY <1>3, <2>1, StoreKeepsIInv DEF ResetConfiguration
<1> QED BY <1>1, <1>2, <1>3, TickBlockedKeepsIInv, TickEvaluatesKeepsIInv, TimePassesKeepsIInv,
        PauseKeepsIInv, PauseForManualActionKeepsIInv, PausePolicyKeepsIInv,
        ResumeStepsKeepIInv, BarrierRaisedKeepsIInv, StutterKeepsIInv DEF Next, vars

LEMMA Invariance == Spec => []IInv
BY InitIInv, NextKeepsIInv, PTL DEF Spec
-----------------------------------------------------------------------------
(* The properties.                                                         *)

(* A tick of process_automation selects a preset only when every tick of   *)
(* the last dwell saw the source that calls for it, and nothing paused,    *)
(* resumed, reconfigured or invalidated the policy in between.             *)
THEOREM SelectionsWaitForTheSource == Spec => []SelectionNeedsSourceDwell
<1>1. IInv => SelectionNeedsSourceDwell
  BY DEF IInv
<1> QED BY <1>1, Invariance, PTL

(* Where a battery threshold is set, what is selected on battery is what   *)
(* the level called for at every tick of another dwell.                    *)
THEOREM SelectionsWaitForTheLevel == Spec => []SelectionNeedsLevelDwell
<1>1. IInv => SelectionNeedsLevelDwell
  BY DEF IInv
<1> QED BY <1>1, Invariance, PTL

(* The tick evaluates a copy of the preferences that another handler may   *)
(* have replaced: it selects nothing unless the copy is the one in force.  *)
THEOREM SelectionsFollowTheRules == Spec => []SelectedUnderCurrentRules
<1>1. IInv => SelectedUnderCurrentRules
  BY DEF IInv
<1> QED BY <1>1, Invariance, PTL

(* After pause_automation nothing is selected before resume_automation or  *)
(* a reset of the configuration, whatever is called in between.            *)
THEOREM PausedSelectsNothing == Spec => []NoSelectionBeforeResume
<1>1. IInv => NoSelectionBeforeResume
  BY DEF IInv, SelectedUnderCurrentRules, NoSelectionBeforeResume
<1> QED BY <1>1, Invariance, PTL

-----------------------------------------------------------------------------
(* Retries of what was selected.                                           *)

Delay(n) == IF n = 1 THEN FirstDelay ELSE SecondDelay

(* What the schedule of a component says of its attempts. *)
Paced(c) ==
  LET r == runtime.components[c]
  IN  /\ r.attempts = starts[c]
      /\ r.attempts > 0 =>
           /\ runtime.target # NoTarget
           /\ r.key = Desired[runtime.target.profile][c]
           /\ r.generation = runtime.target.generation
      /\ r.next # NotScheduled =>
           /\ r.attempts \in {1, 2} /\ ~r.confirmed
           /\ r.next = After(failedAt[c], Delay(r.attempts))

(* A component being written has started an attempt, unless an             *)
(* invalidation has forgotten it.                                          *)
WriteStarted ==
  op.phase = "write" /\ runtime.target # NoTarget =>
    LET r == runtime.components[Component]
    IN  r.attempts > 0 /\ r.next = NotScheduled /\ ~r.confirmed

RetryInv ==
  /\ TypeOK
  /\ \A c \in Components : Paced(c)
  /\ WriteStarted
-----------------------------------------------------------------------------
(* Retry states, targets and operations.                                   *)

LEMMA Clock == 0 \in 0 .. MaxTime /\ 0 \in 0 .. MaxGeneration
BY RetryAssumption

LEMMA Later == ASSUME NEW at \in 0 .. MaxTime, NEW n
               PROVE  After(at, Delay(n)) \in 0 .. MaxTime
BY RetryAssumption DEF After, Delay

LEMMA Wanting == ASSUME NEW profile \in Profiles, NEW c \in Components
                 PROVE  Desired[profile][c] \in Keys
BY DEF Keys

LEMMA NewRetryType ==
  ASSUME NEW key \in Keys, NEW gen \in 0 .. MaxGeneration
  PROVE  LET q == NewRetry(key, gen)
         IN /\ q \in RetryStates /\ q.attempts = 0 /\ q.next = NotScheduled
            /\ ~q.confirmed /\ ~q.failed
BY DEF NewRetry, RetryStates

LEMMA Rekeying ==
  ASSUME NEW r \in RetryStates, NEW key \in Keys, NEW gen \in 0 .. MaxGeneration
  PROVE  LET q == Rekeyed(r, key, gen)
         IN /\ q \in RetryStates /\ q.key = key /\ q.generation = gen
            /\ q = r \/ (q.attempts = 0 /\ q.next = NotScheduled)
            /\ r.key = key /\ r.generation = gen => q = r
BY NewRetryType DEF Rekeyed, NewRetry

LEMMA Starting ==
  ASSUME NEW r \in RetryStates
  PROVE  LET q == Started(r)
         IN /\ q \in RetryStates /\ q.key = r.key /\ q.generation = r.generation
            /\ q.attempts = (IF r.attempts < 3 THEN r.attempts + 1 ELSE 3)
            /\ q.next = NotScheduled /\ ~q.confirmed
<1> DEFINE next == IF r.attempts < 3 THEN r.attempts + 1 ELSE 3
<1>1. r.attempts \in 0 .. 3 /\ NotScheduled \in 0 .. MaxTime \union {NotScheduled}
  BY DEF RetryStates
<1>2. next \in 0 .. 3
  BY <1>1
<1>3. Started(r) = [r EXCEPT !.attempts = next, !.next = NotScheduled, !.confirmed = FALSE]
  BY DEF Started
<1> HIDE DEF next
<1>4. LET q == Started(r)
      IN /\ q \in RetryStates /\ q.key = r.key /\ q.generation = r.generation
         /\ q.attempts = next /\ q.next = NotScheduled /\ q.confirmed = FALSE
  BY <1>2, <1>3 DEF RetryStates
<1> QED BY <1>4 DEF next

LEMMA Failing ==
  ASSUME NEW r \in RetryStates, NEW at \in 0 .. MaxTime
  PROVE  LET q == FailedAttempt(r, at)
         IN /\ q \in RetryStates /\ q.key = r.key /\ q.generation = r.generation
            /\ q.attempts = r.attempts
            /\ q.next # NotScheduled =>
                 /\ r.attempts \in {1, 2} /\ q.confirmed = r.confirmed
                 /\ q.next = After(at, Delay(r.attempts))
<1>1. /\ After(at, FirstDelay) \in 0 .. MaxTime /\ After(at, SecondDelay) \in 0 .. MaxTime
      /\ Delay(1) = FirstDelay /\ Delay(2) = SecondDelay
  BY RetryAssumption DEF After, Delay
<1>2. CASE r.attempts = 1
  BY <1>1, <1>2 DEF FailedAttempt, RetryStates
<1>3. CASE r.attempts = 2
  BY <1>1, <1>3 DEF FailedAttempt, RetryStates
<1>4. CASE r.attempts \notin {1, 2}
  <2>1. FailedAttempt(r, at) =
          [r EXCEPT !.next = NotScheduled, !.confirmed = FALSE, !.failed = TRUE]
    BY <1>4 DEF FailedAttempt
  <2> QED BY <2>1 DEF RetryStates
<1> QED BY <1>2, <1>3, <1>4

LEMMA Confirming ==
  ASSUME NEW r \in RetryStates
  PROVE  LET q == Confirmed(r)
         IN /\ q \in RetryStates /\ q.key = r.key /\ q.generation = r.generation
            /\ q.attempts = r.attempts /\ q.next = NotScheduled
BY DEF Confirmed, RetryStates

LEMMA NoTargetApart == NoTarget \notin Targets
<1>1. \A t \in Targets : DOMAIN t = {"profile", "generation"}
  BY DEF Targets
<1>2. DOMAIN NoTarget = {"profile"}
  BY DEF NoTarget
<1> QED BY <1>1, <1>2

\* The operation in progress, and what is left of it after a component.
LEMMA InOperation ==
  ASSUME op \in Operations \union {Idle}, op.phase \in {"begin", "write"}
  PROVE  /\ op \in Operations /\ Component \in Components
         /\ Advanced \in Operations \union {Idle} /\ Advanced.phase # "write"
<1>1. op \in Operations
  BY DEF Idle
<1>2. /\ Len(Order) = 2 /\ Head(Order) = "platform_profile"
      /\ Tail(Order) = <<"battery_charge_limit">>
      /\ Len(Tail(Order)) = 1 /\ Head(Tail(Order)) = "battery_charge_limit"
  BY DEF Order
<1>3. op.left \in {Order, Tail(Order)}
  BY <1>1 DEF Operations
<1>4. Component \in Components
  BY <1>2, <1>3 DEF Component, Components
<1>5. CASE Len(op.left) = 1
  BY <1>1, <1>4, <1>5 DEF Advanced, Idle
<1>6. CASE Len(op.left) # 1
  <2>1. op.left = Order
    BY <1>2, <1>3, <1>6
  <2>2. Advanced = [op EXCEPT !.left = Tail(Order), !.phase = "begin"]
    BY <1>6, <2>1 DEF Advanced
  <2> QED BY <1>1, <1>4, <2>2 DEF Operations
<1> QED BY <1>5, <1>6

LEMMA ForgottenType ==
  /\ Forgotten \in [target : Targets \union {NoTarget}, components : [Components -> RetryStates]]
  /\ Forgotten.target = NoTarget
  /\ \A c \in Components : /\ Forgotten.components[c].attempts = 0
                           /\ Forgotten.components[c].next = NotScheduled
                           /\ ~Forgotten.components[c].failed
<1>1. Default \in RetryStates /\ Default.attempts = 0 /\ Default.next = NotScheduled
      /\ ~Default.failed
  BY Clock, NewRetryType DEF Default, Keys
<1> HIDE DEF Default
<1> QED BY <1>1 DEF Forgotten
-----------------------------------------------------------------------------
(* The inductive invariant.                                                *)

\* A step that forgets the schedule and begins no write.
LEMMA ForgetKeepsRetryInv ==
  ASSUME RetryInv, Forget, op' \in Operations \union {Idle},
         now' \in 0 .. MaxTime, generation' \in 0 .. MaxGeneration
  PROVE  RetryInv'
<1>1. None \in [Components -> Nat] /\ None \in [Components -> 0 .. MaxTime]
  BY Clock DEF None
<1>2. TypeOK'
  BY <1>1, ForgottenType DEF Forget, TypeOK
<1>3. ASSUME NEW c \in Components
      PROVE  Paced(c)'
  <2>1. /\ runtime'.components[c].attempts = 0 /\ runtime'.components[c].next = NotScheduled
        /\ starts'[c] = 0
    BY ForgottenType DEF Forget, None
  <2> QED BY <2>1 DEF Paced
<1>4. WriteStarted'
  BY ForgottenType DEF Forget, WriteStarted
<1> QED BY <1>2, <1>3, <1>4 DEF RetryInv

LEMMA InitRetryInv == RetryInit => RetryInv
<1> SUFFICES ASSUME RetryInit PROVE RetryInv
  OBVIOUS
<1>1. None \in [Components -> Nat] /\ None \in [Components -> 0 .. MaxTime]
  BY Clock DEF None
<1>2. TypeOK
  BY <1>1, Clock, ForgottenType DEF RetryInit, TypeOK
<1>3. ASSUME NEW c \in Components
      PROVE  Paced(c)
  <2>1. /\ runtime.components[c].attempts = 0 /\ runtime.components[c].next = NotScheduled
        /\ starts[c] = 0
    BY ForgottenType DEF RetryInit, None
  <2> QED BY <2>1 DEF Paced
<1>4. WriteStarted
  BY DEF RetryInit, WriteStarted, Idle
<1> QED BY <1>2, <1>3, <1>4 DEF RetryInv

\* A step of the operation that leaves the schedule alone.
LEMMA UnchangedKeepsRetryInv ==
  ASSUME RetryInv, UNCHANGED <<runtime, starts, failedAt>>, op' \in Operations \union {Idle},
         op'.phase # "write" \/ op' = op,
         now' \in 0 .. MaxTime, generation' \in 0 .. MaxGeneration
  PROVE  RetryInv'
<1>1. TypeOK'
  BY DEF RetryInv, TypeOK
<1>2. ASSUME NEW c \in Components
      PROVE  Paced(c)'
  BY DEF RetryInv, Paced
<1>3. WriteStarted'
  BY DEF RetryInv, WriteStarted, Component
<1> QED BY <1>1, <1>2, <1>3 DEF RetryInv

\* A new operation.
LEMMA Beginning ==
  ASSUME TypeOK, NEW profile \in Profiles
  PROVE  Operation(profile) \in Operations /\ Operation(profile).phase # "write"
BY DEF TypeOK, Operation, Operations

LEMMA TickRetriesKeepsRetryInv ==
  ASSUME RetryInv, TickRetries
  PROVE  RetryInv'
<1> DEFINE profile == runtime.target.profile
           wanted == {c \in Components : Desired[profile][c] # Unwanted}
           rekeyed == [c \in Components |->
                         IF c \in wanted
                         THEN Rekeyed(runtime.components[c], Desired[profile][c], generation)
                         ELSE runtime.components[c]]
<1>1. /\ runtime' = [runtime EXCEPT !.components = rekeyed]
      /\ op' \in {Operation(profile), op} /\ op = Idle
      /\ runtime.target # NoTarget /\ runtime.target.generation = generation
      /\ UNCHANGED <<now, generation, starts, failedAt>>
  BY DEF TickRetries
<1>2. profile \in Profiles /\ generation \in 0 .. MaxGeneration
  BY <1>1 DEF RetryInv, TypeOK, Targets
<1>3. ASSUME NEW c \in Components
      PROVE  LET q == rekeyed[c]
                 r == runtime.components[c]
             IN /\ q \in RetryStates
                /\ q = r \/ (q.attempts = 0 /\ q.next = NotScheduled /\ r.attempts = 0)
  <2> DEFINE r == runtime.components[c]
             q == Rekeyed(r, Desired[profile][c], generation)
  <2>1. r \in RetryStates /\ Desired[profile][c] \in Keys
    BY <1>2, Wanting DEF RetryInv, TypeOK
  <2>2. /\ q \in RetryStates
        /\ q = r \/ (q.attempts = 0 /\ q.next = NotScheduled)
        /\ r.key = Desired[profile][c] /\ r.generation = generation => q = r
    BY <1>2, <2>1, Rekeying
  <2>3. r.attempts > 0 => r.key = Desired[profile][c] /\ r.generation = generation
    BY <1>1 DEF RetryInv, Paced
  <2>4. r.attempts \in 0 .. 3
    BY <2>1 DEF RetryStates
  <2>5. rekeyed[c] \in {q, r}
    OBVIOUS
  <2> HIDE DEF q, r, rekeyed
  <2>6. /\ rekeyed[c] \in RetryStates
        /\ rekeyed[c] = r \/ (rekeyed[c].attempts = 0 /\ rekeyed[c].next = NotScheduled
                              /\ r.attempts = 0)
    BY <2>1, <2>2, <2>3, <2>4, <2>5
  <2> QED BY <2>6 DEF r
<1>4. rekeyed \in [Components -> RetryStates]
  BY <1>3
<1> HIDE DEF rekeyed, wanted
<1>5. runtime'.target = runtime.target /\ runtime'.components = rekeyed
  BY <1>1 DEF RetryInv, TypeOK
<1>6. op' \in Operations \union {Idle} /\ op'.phase # "write"
  BY <1>1, <1>2, Beginning DEF RetryInv, TypeOK, Idle
<1>7. TypeOK'
  BY <1>1, <1>4, <1>5, <1>6 DEF RetryInv, TypeOK
<1>8. ASSUME NEW c \in Components
      PROVE  Paced(c)'
  BY <1>1, <1>3, <1>5 DEF RetryInv, Paced
<1> QED BY <1>6, <1>7, <1>8 DEF RetryInv, WriteStarted

\* A change of one component's state, of the schedule of its target.
LEMMA ChangeKeepsRetryInv ==
  ASSUME RetryInv, NEW before, NEW c \in Components, NEW q \in RetryStates, NEW counts, NEW times,
         before \in [target : Targets, components : [Components -> RetryStates]],
         counts \in [Components -> Nat], times \in [Components -> 0 .. MaxTime],
         \A d \in Components \ {c} :
           \/ /\ before = runtime
              /\ counts[d] = starts[d] /\ times[d] = failedAt[d]
           \/ /\ before.components[d].attempts = 0 /\ counts[d] = 0
              /\ before.components[d].next = NotScheduled,
         runtime' = [before EXCEPT !.components[c] = q],
         starts' = counts, failedAt' = times,
         q.attempts = counts[c],
         q.attempts > 0 => /\ q.key = Desired[before.target.profile][c]
                           /\ q.generation = before.target.generation,
         q.next # NotScheduled => /\ q.attempts \in {1, 2} /\ ~q.confirmed
                                  /\ q.next = After(times[c], Delay(q.attempts)),
         op' \in Operations \union {Idle},
         op'.phase = "write" =>
           Head(op'.left) = c /\ q.attempts > 0 /\ q.next = NotScheduled /\ ~q.confirmed,
         UNCHANGED <<now, generation>>
  PROVE  RetryInv'
<1>1. /\ runtime'.target = before.target
      /\ runtime'.components = [before.components EXCEPT ![c] = q]
      /\ runtime' \in [target : Targets, components : [Components -> RetryStates]]
  OBVIOUS
<1>2. runtime'.target # NoTarget
  BY <1>1, NoTargetApart
<1>3. TypeOK'
  BY <1>1 DEF RetryInv, TypeOK
<1>4. ASSUME NEW d \in Components
      PROVE  Paced(d)'
  <2>1. CASE d = c
    BY <1>1, <1>2, <2>1 DEF Paced
  <2>2. CASE d # c /\ before = runtime
    <3>1. /\ runtime'.components[d] = runtime.components[d] /\ runtime'.target = runtime.target
          /\ starts'[d] = starts[d] /\ failedAt'[d] = failedAt[d]
          \/ (runtime.components[d].attempts = 0 /\ runtime.components[d].next = NotScheduled
              /\ starts'[d] = 0 /\ runtime'.components[d] = runtime.components[d])
      BY <1>1, <2>2
    <3> QED BY <3>1 DEF RetryInv, Paced
  <2>3. CASE d # c /\ before # runtime
    <3>1. /\ runtime'.components[d].attempts = 0 /\ starts'[d] = 0
          /\ runtime'.components[d].next = NotScheduled
      BY <1>1, <2>3
    <3> QED BY <3>1 DEF Paced
  <2> QED BY <2>1, <2>2, <2>3
<1>5. WriteStarted'
  BY <1>1 DEF WriteStarted, Component
<1> QED BY <1>3, <1>4, <1>5 DEF RetryInv
-----------------------------------------------------------------------------
(* begin_component_retry: the schedule it finds, which is a fresh one when *)
(* the target has changed, and the state of the component in it.           *)
Target == [profile |-> op.profile, generation |-> op.generation]
Kept == runtime.target = Target
Before == IF Kept THEN runtime ELSE [Forgotten EXCEPT !.target = Target]
Found == Rekeyed(Before.components[Component], Key, op.generation)
Counts == IF Kept THEN starts ELSE None
Times == IF Kept THEN failedAt ELSE None

LEMMA Finding ==
  ASSUME RetryInv, op.phase = "begin"
  PROVE  /\ op \in Operations /\ Component \in Components
         /\ Before \in [target : Targets, components : [Components -> RetryStates]]
         /\ Before.target = Target
         /\ Counts \in [Components -> Nat] /\ Times \in [Components -> 0 .. MaxTime]
         /\ \A d \in Components :
              \/ Before = runtime /\ Counts[d] = starts[d] /\ Times[d] = failedAt[d]
              \/ /\ Before.components[d].attempts = 0 /\ Counts[d] = 0
                 /\ Before.components[d].next = NotScheduled
         /\ Found \in RetryStates /\ Found.key = Key /\ Found.generation = op.generation
         /\ Found.attempts = Counts[Component]
         /\ Found.next # NotScheduled =>
              /\ Found.attempts \in {1, 2} /\ ~Found.confirmed
              /\ Found.next = After(Times[Component], Delay(Found.attempts))
         /\ Found.attempts > 0 => Kept /\ Found = runtime.components[Component]
<1>1. /\ op \in Operations /\ Component \in Components
      /\ op.profile \in Profiles /\ op.generation \in 0 .. MaxGeneration
  BY InOperation DEF RetryInv, TypeOK, Operations
<1>2. Target \in Targets /\ Key \in Keys /\ Key = Desired[Target.profile][Component]
  BY <1>1, Wanting DEF Targets, Target, Key
<1>3. None \in [Components -> Nat] /\ None \in [Components -> 0 .. MaxTime]
      /\ \A d \in Components : None[d] = 0
  BY Clock DEF None
<1>4. CASE Kept
  <2>1. Before = runtime /\ runtime.target = Target /\ Counts = starts /\ Times = failedAt
    BY <1>4 DEF Before, Counts, Times, Kept
  <2>2. /\ Before \in [target : Targets, components : [Components -> RetryStates]]
        /\ Counts \in [Components -> Nat] /\ Times \in [Components -> 0 .. MaxTime]
    BY <1>2, <2>1 DEF RetryInv, TypeOK
  <2> DEFINE r == runtime.components[Component]
  <2>3. r \in RetryStates /\ Found = Rekeyed(r, Key, op.generation) /\ r.attempts \in 0 .. 3
    BY <1>1, <2>1, <2>2 DEF Found, RetryStates
  <2>4. /\ Found \in RetryStates /\ Found.key = Key /\ Found.generation = op.generation
        /\ Found = r \/ (Found.attempts = 0 /\ Found.next = NotScheduled)
        /\ r.key = Key /\ r.generation = op.generation => Found = r
    BY <1>1, <1>2, <2>3, Rekeying
  <2>5. /\ r.attempts = starts[Component]
        /\ r.attempts > 0 => r.key = Key /\ r.generation = op.generation
        /\ r.next # NotScheduled =>
             /\ r.attempts \in {1, 2} /\ ~r.confirmed
             /\ r.next = After(failedAt[Component], Delay(r.attempts))
    <3>1. Paced(Component) /\ Target.generation = op.generation
      BY <1>1 DEF RetryInv, Target
    <3> QED BY <1>2, <2>1, <3>1 DEF Paced
  <2> HIDE DEF r
  <2>6. Found = r \/ (Found.attempts = 0 /\ Found.next = NotScheduled /\ r.attempts = 0)
    BY <2>3, <2>4, <2>5
  <2> QED BY <1>1, <1>4, <2>1, <2>2, <2>4, <2>5, <2>6 DEF r
<1>5. CASE ~Kept
  <2>1. Before = [Forgotten EXCEPT !.target = Target] /\ Counts = None /\ Times = None
    BY <1>5 DEF Before, Counts, Times
  <2>2. /\ Before \in [target : Targets, components : [Components -> RetryStates]]
        /\ Before.target = Target
        /\ \A d \in Components : /\ Before.components[d].attempts = 0
                                 /\ Before.components[d].next = NotScheduled
    BY <1>2, <2>1, ForgottenType
  <2>3. Before.components[Component] \in RetryStates
    BY <1>1, <2>2
  <2>4. /\ Found \in RetryStates /\ Found.key = Key /\ Found.generation = op.generation
        /\ Found.attempts = 0 /\ Found.next = NotScheduled
    BY <1>1, <1>2, <2>2, <2>3, Rekeying DEF Found
  <2> QED BY <1>1, <1>3, <2>1, <2>2, <2>4
<1> QED BY <1>4, <1>5

LEMMA BeginComponentKeepsRetryInv ==
  ASSUME RetryInv, BeginComponent
  PROVE  RetryInv'
<1>1. op.phase = "begin" /\ UNCHANGED <<now, generation>>
  BY DEF BeginComponent
<1>2. /\ Advanced \in Operations \union {Idle} /\ Advanced.phase # "write"
      /\ Idle.phase # "write" /\ now \in 0 .. MaxTime /\ generation \in 0 .. MaxGeneration
  BY <1>1, InOperation DEF RetryInv, TypeOK, Idle
<1>3. /\ Key = Desired[Before.target.profile][Component]
      /\ op.generation = Before.target.generation
  BY <1>1, Finding DEF Target, Key
<1>4. CASE op' \in {Idle, Advanced} /\ UNCHANGED <<runtime, starts, failedAt>>
  BY <1>1, <1>2, <1>4, UnchangedKeepsRetryInv
<1>5. CASE /\ op' = Advanced
           /\ runtime' = [Before EXCEPT !.components[Component] = Found]
           /\ starts' = Counts /\ failedAt' = Times
  BY <1>1, <1>2, <1>3, <1>5, Finding, ChangeKeepsRetryInv
<1>6. CASE op' = Advanced /\ Forget
  BY <1>1, <1>2, <1>6, ForgetKeepsRetryInv
<1>7. CASE /\ Ready(Found, op.at) /\ op' = [op EXCEPT !.phase = "write"]
           /\ runtime' = [Before EXCEPT !.components[Component] = Started(Found)]
           /\ starts' = [Counts EXCEPT ![Component] = @ + 1] /\ failedAt' = Times
  <2> DEFINE counts == [Counts EXCEPT ![Component] = @ + 1]
             q == Started(Found)
  <2>1. Found.attempts \in 0 .. 2 /\ Found.attempts = Counts[Component]
    BY <1>1, <1>7, Finding DEF Ready
  <2>2. /\ q \in RetryStates /\ q.key = Key /\ q.generation = op.generation
        /\ q.attempts = Found.attempts + 1 /\ q.next = NotScheduled /\ ~q.confirmed
    BY <1>1, <2>1, Finding, Starting
  <2>3. /\ counts \in [Components -> Nat] /\ counts[Component] = Counts[Component] + 1
        /\ \A d \in Components \ {Component} : counts[d] = Counts[d]
    BY <1>1, Finding
  <2>4. op' \in Operations /\ Head(op'.left) = Component
    BY <1>1, <1>7, Finding DEF Operations, Component
  <2> HIDE DEF q, counts
  <2>5. /\ runtime' = [Before EXCEPT !.components[Component] = q]
        /\ starts' = counts /\ failedAt' = Times
    BY <1>7 DEF q, counts
  <2> QED BY <1>1, <1>3, <2>1, <2>2, <2>3, <2>4, <2>5, Finding, ChangeKeepsRetryInv
<1>8. \/ op' \in {Idle, Advanced} /\ UNCHANGED <<runtime, starts, failedAt>>
      \/ /\ op' = Advanced
         /\ runtime' = [Before EXCEPT !.components[Component] = Found]
         /\ starts' = Counts /\ failedAt' = Times
      \/ op' = Advanced /\ Forget
      \/ /\ Ready(Found, op.at) /\ op' = [op EXCEPT !.phase = "write"]
         /\ runtime' = [Before EXCEPT !.components[Component] = Started(Found)]
         /\ starts' = [Counts EXCEPT ![Component] = @ + 1] /\ failedAt' = Times
  BY Zenon DEF BeginComponent, Before, Found, Kept, Target, Counts, Times
<1> QED BY <1>4, <1>5, <1>6, <1>7, <1>8

\* finish_component_retry, when no invalidation has forgotten the schedule.
LEMMA FinishKeepsRetryInv ==
  ASSUME RetryInv, op.phase = "write", runtime.target # NoTarget, op' = Advanced,
         NEW q \in RetryStates, NEW times \in [Components -> 0 .. MaxTime],
         runtime' = [runtime EXCEPT !.components[Component] = q],
         q.key = runtime.components[Component].key,
         q.generation = runtime.components[Component].generation,
         q.attempts = runtime.components[Component].attempts,
         q.next # NotScheduled => /\ q.attempts \in {1, 2} /\ ~q.confirmed
                                  /\ q.next = After(times[Component], Delay(q.attempts)),
         \A d \in Components \ {Component} : times[d] = failedAt[d],
         failedAt' = times, UNCHANGED <<starts, now, generation>>
  PROVE  RetryInv'
<1>1. /\ Component \in Components /\ Advanced \in Operations \union {Idle}
      /\ Advanced.phase # "write"
  BY InOperation DEF RetryInv, TypeOK
<1>2. /\ runtime \in [target : Targets, components : [Components -> RetryStates]]
      /\ starts \in [Components -> Nat]
  BY DEF RetryInv, TypeOK
<1>3. /\ q.attempts = starts[Component]
      /\ q.attempts > 0 => /\ q.key = Desired[runtime.target.profile][Component]
                           /\ q.generation = runtime.target.generation
  BY <1>1 DEF RetryInv, Paced
<1> QED BY <1>1, <1>2, <1>3, ChangeKeepsRetryInv

LEMMA FinishConfirmedKeepsRetryInv ==
  ASSUME RetryInv, FinishConfirmed
  PROVE  RetryInv'
<1>1. /\ op.phase = "write" /\ op' = Advanced
      /\ runtime' = IF runtime.target = NoTarget THEN runtime
                    ELSE [runtime EXCEPT !.components[Component] = Confirmed(@)]
      /\ UNCHANGED <<now, generation, starts, failedAt>>
  BY DEF FinishConfirmed
<1>2. /\ Component \in Components /\ Advanced \in Operations \union {Idle}
      /\ Advanced.phase # "write" /\ failedAt \in [Components -> 0 .. MaxTime]
      /\ now \in 0 .. MaxTime /\ generation \in 0 .. MaxGeneration
  BY <1>1, InOperation DEF RetryInv, TypeOK
<1>3. CASE runtime.target = NoTarget
  BY <1>1, <1>2, <1>3, UnchangedKeepsRetryInv
<1>4. CASE runtime.target # NoTarget
  <2> DEFINE r == runtime.components[Component]
             q == Confirmed(r)
  <2>1. r \in RetryStates
    BY <1>2 DEF RetryInv, TypeOK
  <2>2. /\ q \in RetryStates /\ q.key = r.key /\ q.generation = r.generation
        /\ q.attempts = r.attempts /\ q.next = NotScheduled
    BY <2>1, Confirming
  <2>3. runtime' = [runtime EXCEPT !.components[Component] = q]
    BY <1>1, <1>4
  <2> HIDE DEF q
  <2> QED BY <1>1, <1>2, <1>4, <2>2, <2>3, FinishKeepsRetryInv
<1> QED BY <1>3, <1>4

LEMMA FinishFailedKeepsRetryInv ==
  ASSUME RetryInv, FinishFailed
  PROVE  RetryInv'
<1>1. /\ op.phase = "write" /\ op' = Advanced /\ UNCHANGED <<now, generation>>
  BY DEF FinishFailed
<1>2. /\ Component \in Components /\ Advanced \in Operations \union {Idle}
      /\ Advanced.phase # "write" /\ failedAt \in [Components -> 0 .. MaxTime]
      /\ now \in 0 .. MaxTime /\ generation \in 0 .. MaxGeneration
  BY <1>1, InOperation DEF RetryInv, TypeOK
<1>3. CASE runtime.target = NoTarget
  BY <1>1, <1>2, <1>3, ForgetKeepsRetryInv DEF FinishFailed
<1>4. CASE runtime.target # NoTarget
  <2> DEFINE r == runtime.components[Component]
             q == FailedAttempt(r, now)
             times == [failedAt EXCEPT ![Component] = now]
  <2>1. /\ runtime' = [runtime EXCEPT !.components[Component] = q]
        /\ failedAt' = times /\ UNCHANGED starts
    BY <1>4 DEF FinishFailed
  <2>2. r \in RetryStates /\ ~r.confirmed
    BY <1>1, <1>2, <1>4 DEF RetryInv, TypeOK, WriteStarted
  <2>3. /\ q \in RetryStates /\ q.key = r.key /\ q.generation = r.generation
        /\ q.attempts = r.attempts
        /\ q.next # NotScheduled =>
             /\ r.attempts \in {1, 2} /\ q.confirmed = r.confirmed
             /\ q.next = After(now, Delay(r.attempts))
    BY <1>2, <2>2, Failing
  <2>4. /\ times \in [Components -> 0 .. MaxTime] /\ times[Component] = now
        /\ \A d \in Components \ {Component} : times[d] = failedAt[d]
    BY <1>2
  <2> HIDE DEF q, times
  <2> QED BY <1>1, <1>2, <1>4, <2>1, <2>2, <2>3, <2>4, FinishKeepsRetryInv
<1> QED BY <1>3, <1>4

LEMMA NextKeepsRetryInv == RetryInv /\ [RetryNext]_retryVars => RetryInv'
<1> SUFFICES ASSUME RetryInv, [RetryNext]_retryVars PROVE RetryInv'
  OBVIOUS
<1>1. /\ op \in Operations \union {Idle} /\ now \in 0 .. MaxTime /\ MaxTime \in Nat
      /\ generation \in 0 .. MaxGeneration /\ MaxGeneration \in Nat
  BY RetryAssumption DEF RetryInv, TypeOK
<1>2. ASSUME NEW profile \in Profiles, TickSelects(profile)
      PROVE  RetryInv'
  BY <1>1, <1>2, Beginning, UnchangedKeepsRetryInv DEF TickSelects, RetryInv
<1>3. CASE TickForgets
  BY <1>1, <1>3, ForgetKeepsRetryInv DEF TickForgets
<1>4. CASE Invalidated
  BY <1>1, <1>4, ForgetKeepsRetryInv DEF Invalidated
<1>5. CASE FinishBlocked
  <2>1. op.phase = "write" /\ op' = Advanced /\ Forget /\ UNCHANGED <<now, generation>>
    BY <1>5 DEF FinishBlocked
  <2>2. Advanced \in Operations \union {Idle}
    BY <1>1, <2>1, InOperation
  <2> QED BY <1>1, <2>1, <2>2, ForgetKeepsRetryInv
<1>6. CASE RetryTimePasses
  BY <1>1, <1>6, UnchangedKeepsRetryInv DEF RetryTimePasses
<1>7. CASE UNCHANGED retryVars
  BY <1>1, <1>7, UnchangedKeepsRetryInv DEF retryVars
<1> QED BY <1>2, <1>3, <1>4, <1>5, <1>6, <1>7, TickRetriesKeepsRetryInv,
        BeginComponentKeepsRetryInv, FinishConfirmedKeepsRetryInv,
        FinishFailedKeepsRetryInv
        DEF RetryNext

LEMMA RetryInvariance == RetrySpec => []RetryInv
BY InitRetryInv, NextKeepsRetryInv, PTL DEF RetrySpec

\* An attempt after the first is of a component whose retry is due.
LEMMA LaterAttempts ==
  ASSUME RetryInv, [RetryNext]_retryVars, NEW c \in Components, starts[c] > 0, starts'[c] > starts[c]
  PROVE  /\ runtime.components[c].next # NotScheduled
         /\ op.at >= runtime.components[c].next
<1>1. starts[c] \in Nat /\ None[c] = 0
  BY DEF RetryInv, TypeOK, None
<1>2. BeginComponent
  <2>1. ~UNCHANGED starts /\ ~Forget
    BY <1>1 DEF Forget
  <2>2. /\ \A profile \in Profiles : TickSelects(profile) => UNCHANGED starts
        /\ TickRetries => UNCHANGED starts
        /\ TickForgets \/ Invalidated \/ FinishBlocked => Forget
        /\ FinishConfirmed => UNCHANGED starts
        /\ FinishFailed => Forget \/ UNCHANGED starts
        /\ RetryTimePasses \/ UNCHANGED retryVars => UNCHANGED starts
    BY Zenon DEF TickSelects, TickRetries, TickForgets, Invalidated, FinishBlocked,
       FinishConfirmed, FinishFailed, RetryTimePasses, retryVars
  <2> QED BY <2>1, <2>2, Zenon DEF RetryNext
<1>3. /\ op.phase = "begin" /\ Ready(Found, op.at)
      /\ starts' = [Counts EXCEPT ![Component] = @ + 1]
  <2>1. \/ UNCHANGED starts \/ starts' = Counts \/ Forget
        \/ Ready(Found, op.at) /\ starts' = [Counts EXCEPT ![Component] = @ + 1]
    BY <1>2, Zenon DEF BeginComponent, Before, Found, Kept, Target, Counts
  <2>2. starts' # starts /\ starts' # Counts /\ ~Forget
    BY <1>1 DEF Counts, Forget
  <2> QED BY <1>2, <2>1, <2>2 DEF BeginComponent
<1>4. Counts \in [Components -> Nat]
  BY <1>3, Finding
<1>5. Kept /\ c = Component
  <2>1. Counts[c] \in {starts[c], 0}
    BY <1>1 DEF Counts
  <2>2. c # Component => starts'[c] = Counts[c]
    BY <1>3, <1>4
  <2>3. c = Component
    BY <1>1, <2>1, <2>2
  <2>4. starts'[c] = Counts[c] + 1
    BY <1>3, <1>4, <2>3
  <2>5. ~Kept => Counts[c] = 0
    BY <1>1 DEF Counts
  <2> QED BY <1>1, <2>3, <2>4, <2>5
<1>6. Found.attempts = starts[c] /\ Found = runtime.components[c]
  BY <1>1, <1>3, <1>5, Finding DEF Counts
<1> QED BY <1>1, <1>3, <1>6 DEF Ready
-----------------------------------------------------------------------------
(* The properties.                                                         *)

(* The daemon starts no more than three attempts of a setting before its   *)
(* schedule is forgotten (AutomationRetryRuntime).                         *)
THEOREM AtMostThreeAttempts == RetrySpec => []ThreeAttempts
<1>1. RetryInv => ThreeAttempts
  <2> SUFFICES ASSUME RetryInv, NEW c \in Components PROVE starts[c] <= 3
    BY DEF ThreeAttempts
  <2>1. runtime.components[c] \in RetryStates /\ Paced(c)
    BY DEF RetryInv, TypeOK
  <2> QED BY <2>1 DEF Paced, RetryStates
<1> QED BY <1>1, RetryInvariance, PTL

(* The second attempt of a setting starts no earlier than FirstDelay after *)
(* the failure of the first, the third SecondDelay after the second.       *)
THEOREM RetriesWaitTheirDelay == RetrySpec => RetriesSpaced
<1>1. RetryInv /\ [RetryNext]_retryVars =>
        [\A c \in Components :
           starts[c] > 0 /\ starts'[c] > starts[c] =>
             op.at >= After(failedAt[c], IF starts[c] = 1 THEN FirstDelay ELSE SecondDelay)]_retryVars
  <2> SUFFICES ASSUME RetryInv, [RetryNext]_retryVars, NEW c \in Components,
                      starts[c] > 0, starts'[c] > starts[c]
               PROVE  op.at >= After(failedAt[c], IF starts[c] = 1 THEN FirstDelay ELSE SecondDelay)
    BY Zenon
  <2>1. runtime.components[c].next # NotScheduled /\ op.at >= runtime.components[c].next
    BY LaterAttempts
  <2>2. runtime.components[c].next = After(failedAt[c], Delay(starts[c]))
    BY <2>1 DEF RetryInv, Paced
  <2> QED BY <2>1, <2>2 DEF Delay
<1> QED BY <1>1, RetryInvariance, PTL DEF RetrySpec, RetriesSpaced

(* A setting whose readback confirmed the value is left alone while the    *)
(* other setting of the preset is retried.                                 *)
THEOREM ConfirmedSettingsRest == RetrySpec => ConfirmedNotRewritten
<1>1. RetryInv /\ [RetryNext]_retryVars =>
        [\A c \in Components :
           starts'[c] > starts[c] /\ starts[c] > 0 => ~runtime.components[c].confirmed]_retryVars
  <2> SUFFICES ASSUME RetryInv, [RetryNext]_retryVars, NEW c \in Components,
                      starts'[c] > starts[c], starts[c] > 0
               PROVE  ~runtime.components[c].confirmed
    BY Zenon
  <2>1. runtime.components[c].next # NotScheduled
    BY LaterAttempts
  <2> QED BY <2>1 DEF RetryInv, Paced
<1> QED BY <1>1, RetryInvariance, PTL DEF RetrySpec, ConfirmedNotRewritten

=============================================================================
